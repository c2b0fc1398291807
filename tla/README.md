# TLA+ verification of model_proxy

This directory holds TLA+ modules for the parts of `model_proxy` (TypeScript, under `src/src/`) whose
correctness depends on more than one call: what several requests in flight share, what a crash
leaves, what retries and failovers repeat, what expires or is evicted, what a stream does when the
network cuts it anywhere, and what several conversions in a row do to a conversation. TLC checks the
modules on small instances, and TLAPS proves what matters most for instances of every size. Paths
below are relative to the directory that contains `tla/` and `src/`.

Contents: [the system](#the-system), [modules](#the-modules), [runs](#the-runs),
[bounds](#bounds-and-why-they-are-enough), [fairness](#fairness), [proofs](#what-is-proved),
[where documents and code disagree](#where-documents-and-code-disagree),
[other observations](#other-observations),
[what is not modelled](#what-is-not-modelled-and-why), [plan](#plan).

## The system

The program is a proxy between clients that speak one of several LLM protocols (OpenAI chat
completions, Claude messages, OpenAI responses, Gemini's generateContent and interactions) and
upstream services that speak another. A client names a model; a configuration in TOML, or a remote
authentication service, says where the request goes; the request is screened, converted and sent, and
the answer is converted on the way back. Around this the program keeps statistics, limits, keys and
recorded bodies, and it contains a terminal agent that uses the proxy itself.

It runs on one Node.js event loop. There are no threads: two requests interleave at every `await`,
and what lies between two of them is atomic. The modules take over that granularity: one action is
one stretch of code between two awaits, with every state change it makes.

### Components

| Component | Source (`src/src/`) | State | Operations | Hard behaviour |
|---|---|---|---|---|
| Token ledger and statistics | `utils/dashboard-stats.ts` | event log of the last days, totals per model and per day, event log per alias, cached window sum, JSONL file | record usage, dump periodically and at the day's turn, query a window, restore | a restart merges cumulative and delta rows of several runs; a sum is cached across pruning |
| Composite dispatch | `index.ts`, `utils/config-loader.ts` | effective share per alias and target, process-wide | order the candidates, try them, decay and recover a share, reload | every request in flight reads and writes the shares around its awaits; a reload changes the shares under them |
| Target ladder | `index.ts`, `utils/target-retry.ts` | rung, retry count, one-time code, counts of failures, records posted | validate, deduplicate, cap, attempt, retry, advance, return or rethrow | two retry axes over two kinds of failure, three places that count a failure, records posted when a stream ends |
| Conversation state | `utils/conversation-store.ts`, `handlers/responses.ts` | two maps with expiry under one cap | read before the upstream call, save and append after it, retrieve, evict | overlapping turns of a conversation; an entry that disappears between read and write |
| Request lifecycle and admission | `index.ts`, `server.ts` | in-flight counter, authentication result | authenticate, check limits, bound the body, route, release | a release on close, abort and error, once; limits checked long before the usage is known |
| Fusion orchestrator | `index.ts` (`runFusion`) | panel results of a request | panel in batches, judge, synthesis | a timed-out panel call keeps running; a failing judge |
| Format converters | `converters/`, the stream functions of `handlers/` | open block, tool-call indexes, tag accumulator of a stream; reasoning remembered per call | one transformation per chunk or body | chunks cut anywhere, ends in several forms; a turn that is converted there and back |
| Upstream handlers | `handlers/`, `utils/fetch-timeout.ts` | none beyond the request | build a request, call, classify errors, convert the answer | hooks before and after conversions; some error statuses are thrown, others returned |
| Configuration | `utils/config-loader.ts`, `handlers/dashboard.ts` | cached configuration, file on disk with its backup | load, reload, edit, save a page fetched earlier | loads, reloads and edits across awaits; crashes in a rewrite |
| Routing | `utils/config-loader.ts`, `utils/routing.ts` | none | schedule, composite, category and default to an upstream model | cycles, through schedules and at some times of the week only |
| Agent session | `agent-session.ts` | task, resolver of the next line, queues, budget, quit flag | pick, type, run, steer, quit | terminal callbacks beside an asynchronous loop |
| Front ends | `tui.ts`, `handlers/dashboard.ts`, `rpc.ts`, `cli.ts` | form fields, session registry | edit, poll, forward | pages that are stale when saved, replies out of order |
| Key and body stores | `utils/key-store.ts`, `utils/body-key-store.ts`, `utils/body-record.ts` | key bundle, record chain at the tail of the executable | hide keys, resolve them, append, replace | read-modify-write of one bundle by overlapping loads; crash between two renames |
| Transforms and privacy filter | `utils/request-transform.ts`, `utils/privacy-filter.ts` | sentinels of a request, held bytes of a stream | run a hook, replace, restore | hooks twice or not at all on some paths; a sentinel cut by the network |
| Tool judge and block list | `utils/tool-judge-sidecar.ts`, `utils/tool-blocklist.ts` | none | ask a side service about the tools of a request, remove tools | time-outs, answers without a score |
| Coordinator and decision service | `utils/coordinator.ts`, `index.ts` | none | choose planner or executor by the history, ask for a candidate | fall back when the service fails |
| Model list, quota, token counting | `handlers/models.ts`, `utils/provider-quota.ts`, `utils/token-counting.ts` | caches with a time to live | fill, expire | concurrent fills |

### How they interact

`server.ts` turns an HTTP request into a `Request` and calls the fetch handler of `index.ts`. The
handler authenticates it (a call to the remote service, or none), checks the token limits against
the **ledger**, raises the in-flight counter and reads the body. The body passes the screens, which
change it in place: the **privacy filter** replaces what an external service finds by sentinels, the
**tool judge** and the **block list** remove tools. Then the handler decides the path: the
authentication brought `targets` (**target ladder**), the model is an alias with several targets
(**composite dispatch**, possibly reordered by the **decision service** or resolved by a
**coordinator**), a **fusion**, or one provider (**routing**). All paths share `runAttempt`, which
calls an **upstream handler**; this runs the hooks of the entry's **transforms** around the
**converters**, records a failure for every status from 400 on, records usage in the **ledger** and posts a
record to the statistics service, at once for a JSON response and when it closes for a stream. The
response then passes the restore of the privacy filter, which may read its body and may throw. An exception
that nobody took reaches the outer catch, which counts a failure unless a ladder attempt has been
counted. The Responses API reads the **conversation state** before its upstream call and writes it
after. Back in `server.ts` the adapter writes the text of the response or pipes its stream, and lowers
the in-flight counter with a callback the handler attached to the response.

Every request asks `loadProxyConfig` for the **configuration**. The cached one is cleared by a reload
and by each edit of the **dashboard** or the terminal; the next load parses the file, takes the keys
from the **key store** and, if the file still holds keys in the clear, rewrites it.

Shared state is what makes this hard: `compositeEffectiveShares`, the maps of the ledger, the
conversation maps, the configuration cache and the flags of the agent session are module-level
variables that callers read before an await and write after it. The configuration file, the JSONL file
and the key bundle outlive the process.

### What makes each part correct

* Ledger: nothing is counted that was not used; no total a write covered is lost by a restart while its day
  is retained; no event is counted twice in a window, or on the wrong side of its boundary (that a window's sum
  keeps what lies before its boundary is the code's, see [below](#where-documents-and-code-disagree)).
* Composite dispatch: every candidate is tried at most once and a request fails only when all were;
  a share stays between its floor and its cap whoever updates it; a failing target loses traffic
  until it answers; a target that works again gets its share back.
* Target ladder: a destination is not hit more often than its entry allows; a request stops only for
  a reason; every failure is counted; a one-time code pays only for its own rung; a request ends.
* Conversation state: histories hold the client's own turns, in order; a response that was just
  stored can be continued; the maps never exceed the cap.
* Request lifecycle: the in-flight counter comes down exactly once for every request it was raised
  for; requests that are checked against a limit together overshoot it by a bounded amount.
* Fusion: each panel target is accounted for once, in order; judge and synthesis have their quorum;
  no panel call delays the request beyond its time-out.
* Stream converters: the client gets a well-formed stream, the upstream's content once and in order (but for two
  losses at the end of a chat stream, which the property names), and an end that says how it ended.
* Body converters: however turns go there and back, a tool result stands with its call, and what was said
  before is said again in order.
* Configuration, routing and keys: what requests are routed on is usable, cycles are found, a hidden key
  goes only to the upstream it was entered for as long as every entry has a URL, and no load takes back what an
  edit or a save wrote.
* Agent session: the budget holds over everything a session runs, an accepted line reaches the agent,
  shell output goes once with the next task, a quit ends the session.
* Transforms, screens and handlers: an attempt leaves no trace in a later one; no text the filter looks at goes
  upstream with a secret; what users say arrives whole through every conversion; removed tools are not forced;
  and the client gets its words back, and its name of the model at the top of an event.

`PROJECT.json` lists the hazards behind these statements one by one, each at the line where it bites.

## The modules

| Module | Code it stands for | Content |
|---|---|---|
| `TokenLedger` | `utils/dashboard-stats.ts` | event log, totals, window cache, dumps, crash and restore |
| `CompositeDispatch` | fetch handler of `index.ts`, target order in `config-loader.ts` | failover loop over shared effective shares, with reloads |
| `Failover` | - | abstract specification: what a client of an alias is promised |
| `TargetLadder` | `utils/target-retry.ts`, `runTargetLadder`, `runAttempt` and outer catch of `index.ts` | one request after another over a ladder |
| `ConversationState` | `utils/conversation-store.ts`, `handlers/responses.ts` | two capped maps with expiry, and overlapping turns |
| `RequestLifecycle` | fetch handler of `index.ts` around the dispatch, `server.ts`, counter in `utils/dashboard-stats.ts` | requests in flight over the counter and the two limits |
| `Fusion` | `runFusion` and the plan of an alias | panel, judge, synthesis |
| `AgentSession` | `agent-session.ts` | pickers, task loop, callbacks |
| `StreamReader` | - | abstract client of an event stream |
| `ChatStream` | `converters/streaming.ts`, `streamCompletionsAsResponses` | a chat stream to Claude and Responses events |
| `CrossStream` (extends `ChatStream`) | the stream functions of `handlers/messages.ts`, `chat-completions.ts`, `openai.ts`, `converters/openai-to-gemini.ts` | nine further pairs of APIs |
| `Dialects` | `converters/*`, body conversions of the handlers | message formats and conversions as operators |
| `TurnRelay` (extends `Dialects`) | the handlers as users of the converters, memory of reasoning in `responses.ts` | a conversation through the proxy, turn by turn |
| `Routing` | `config-loader.ts` | resolution of a name as operators, and its cycle check |
| `KeyStore` | `utils/key-store.ts` | bundle, accounts, match, hiding as operators |
| `ConfigStore` (composes `Routing` and `KeyStore`) | `config-loader.ts`, `handlers/dashboard.ts` | loads, edits, saves, crashes |
| `Transforms` | `utils/request-transform.ts` | the transform engine as operators |
| `RequestScreen` | `utils/privacy-filter.ts`, `utils/tool-judge-sidecar.ts`, `utils/tool-blocklist.ts` | the screens as operators |
| `Handlers` | `handlers/*`, `resolveUpstreamTarget` and the choice of the handler in `index.ts` | each handler as its sequence of hooks and conversions |
| `AliasChoice` | `utils/coordinator.ts`, `config-loader.ts`, `index.ts` | the plan of a request |
| `AttemptPipeline` (composes the four above) | fetch handler and `runAttempt` of `index.ts`, stream restore of the filter | one request from the screens to the client's last byte |
| `CompositeDispatchProofs`, `RequestLifecycleProofs`, `AgentSessionProofs`, `FusionProofs`, `TargetLadderProofs`, `ConversationStateProofs`, `ConfigStoreProofs`, `TokenLedgerProofs` | - | TLAPS theorems |
| `MC*` | - | instances for TLC |

### TokenLedger

A usage is reduced to its `total_tokens`, time is counted in seconds (the precision of the stored
time stamps), and the file is a sequence of rows.

| TLA+ | Code |
|---|---|
| `events`, `alias` | `tokenHeatmapEvents`, the `events` of a composite alias |
| `modelStats`, `daily`, `daySlot` | `modelStats`, `dailyTokenStats`, `currentDaySlot` |
| `frozen`, `cutoff` | `windowSumFrozen`, `windowSumCutoff` |
| `dumpTs`, `timerTotal`, `timerAt` | `lastHeatmapDumpTs`, `lastDumpTokenCount`, the interval timer |
| `file` | `model_proxy_tokens.jsonl` |
| `RecordUsage` | `recordModelUsage` with the event it pushes, the pruning, the day's turn with its dump, and `recordCompositeTokenUsage` |
| `PeriodicDump` | the timer of the periodic dump and `dumpTodayTokens` |
| `QueryWindow` | `getTokensInWindowSince` with its cache and its binary search |
| `Crash`, `Restart` | the process dies at any point; `loadTokenStatsFromLog` |

Sums are written as the number of tokens in them (`Tokens`), without a fold, so that the module can be
reasoned about. The events of a row keep the positions they have in the log, and the load names the
events of the file by row and position. The binary search is a function of the number of turns
(`SearchTurn`). Days are numbers, and `RetentionDays` of them are read back by a restart: an
older day leaves the totals, which `RetainedUse` takes into account.

`history`, `durable` and `regular` are ghosts: the usage the ledger answers for, how much of it was there
at the last write, and whether the log came back in order and no query since went back. A crash cuts
`history` to what was durable, so the properties compare the ledger with what it could know.

### CompositeDispatch and Failover

| TLA+ | Code |
|---|---|
| `config` | the cached configuration, for one alias: primary, fallback numbers, shares |
| `effective` | `compositeEffectiveShares` (0: no entry) |
| `plan[r]`, `at[r]`, `seen[r]` | `compositeAttempts`, the loop index, the configuration object the request holds |
| `Orders`, `FirstChoices` | `getOrderedCompositeTargets` and the weighted pick of the first attempt |
| `Start` | the request arrives, the attempts are put in order |
| `UpstreamAnswers` | `runAttempt` returns (a response of any status), the share recovers |
| `Deliver` | `restorePrivacyResponse` succeeds |
| `CatchError` | the catch of the loop: decay for a classified error, next candidate, rethrow after the last |
| `Reload` | `/config-reload`; the shares stay as they are |

A weighted random pick is the choice among the targets whose weight is positive. Shares are integers
in units in which the halvings of the code are whole (configured shares are multiples of 40), so
`\div 2` and the floor `\div 10` are the code's floating-point operations on those values.

`Failover` has three variables: the candidates of a request, those that have failed it, and the
requests a candidate has answered whose client has no response yet. The refinement maps `candidates`
to the elements of `plan`, `tried` to those before `at`, and `answering` to the requests that are
restoring a response. An answer whose body breaks is a failure of its candidate (`GoOn`, or `GiveUp`
after the last), so a request ends only with a response that could be restored or when all failed.

### TargetLadder

`Ladder` is `dedupeAndCap(validateDescriptorEntries(targets))` as the set of places in the array of
targets that are kept, and a rung is a place in that set with the next one after it (`Rung`, `Later`). The
actions are the outcomes of one attempt (`Answer`, `Refuse`, `Throw`, and `BreakOff`,
where the statistics are taken and then a transform of the response throws), the wait of a retry, and the end
of the request (`Return`, `BreakReturn`, `EndStream`). `AfterFailure` is the pair of retry axes. The
catch of the ladder and the outer catch are parts of the actions that reach them, and
`failureRecorded` is the flag that keeps them from both counting. `log` and `restored` are ghosts.
Requests that run ladders together share only counters that grow, so one request at a time loses
nothing; a new one may start after each, with any ladder.

### ConversationState

A turn stands for the items a request adds and for the identifier of its response; a map is a
sequence in insertion order, as in JavaScript. `Fresh`, `Continue` and `Converse` read before the
upstream call; `Complete` is `saveConversation` and `appendConversationThreadItems`, each with its
eviction; `Fail` stores nothing; `Retrieve` is `GET /v1/responses/{id}`, which deletes an expired
entry. A client may name a response that is still in flight, because a streamed response tells its
identifier before it is stored.

### RequestLifecycle

| TLA+ | Code |
|---|---|
| `active` | `activeRequestCount` |
| `release[r]` | the closure of `incrementActiveRequests` with its `released` flag: none, held, spent; lost is a ghost for a closure nobody will call |
| `used`, `aliasUsed` | what `getTokensInWindowSince` and `getCompositeAliasTokenUsage` return |
| `Arrive`, `AnswerEarly` | the request comes in; the exits of the fetch handler before the counter |
| `Admit`, `ReadBody`, `AnswerLate` | limit check and increment (no await between them), the body, the exits after |
| `Dispatch` | the limit check of the alias after the choice of the candidates |
| `AnswerStage`, `LosePanelCall`, `AnswerLost` | upstream calls that do not make the response: stages of a fusion, retried answers, panel calls that lost the race with their time-out and still record usage |
| `AnswerWhole`, `AnswerUnread`, `AnswerStream`, `Throw` | the response: a body in memory, a body of the upstream nobody has read, a stream, an error |
| `Write`, `BreakBody` | `response.clone().text()`, `res.end`, `release()`; the catch of the adapter when it throws |
| `Leave`, `Disconnect`, `EndPipe` | the client leaves before and after the `close` listener is there; the end or failure of `pipeTo` |
| `Slide` | usage leaves the window of the alias |

A slot stands for one request after another. The limits are those of a process that runs with one
of its mode flags (dashboard, terminal, agent, rpc); without one the code does not check them. The
window of the global limit does not slide here: a sum that never falls is the harder case for a bound
on the overshoot, and its cache is the subject of `TokenLedger`.

### Fusion

An alias is the list of its entries' roles with its options. `Route` is everything of the request
before the panel: `resolveFusionPlan`, the depth guard, the token limit. `Answer` and `Timeout` settle
a panel call: the promise of the call or that of its timer wins. A call that loses is not aborted, so
it stays in `running` and may answer later, beside later batches and stages. `ReadBody` is one turn of
the loop over a settled batch, in panel order, and the last one starts the next batch or decides the
quorum. `Judge` and `Synthesise` are the two later calls with their failures. The records and the usage
these calls leave are parts of `TargetLadder` and `RequestLifecycle`.

### AgentSession

| TLA+ | Code (`agent-session.ts`) |
|---|---|
| `phase` | the promise `runAgentSession` is waiting for |
| `Setup` and its screens | the pickers and the verification of the model, 1577-1902 |
| `ShellLoop`, `AfterShellLines`, `Begin`, `LoopOrEnd` | the task loop, 2084-2152 |
| `Resolve` | calling `nextTaskResolver`; outside the phases of `Awaiting` the resolver is spent and the call does nothing |
| `TurnEnds` | the `turn_end` subscriber, which counts turns and tokens and raises `budgetHit` |
| `PromptReturns`, `PromptRejects` | the rest of `runAgentTurn` |
| `SubmitLine`, `SubmitQuit`, `Escape`, `ToggleSteerMode` | `handleInputSubmit`, `onEscape`, `toggleSteerMode`: terminal callbacks at any moment |

The agent library is external: it is what the session uses of it, a run that can be prompted,
continued and aborted, with two queues of messages that it takes up at a turn's end.

### StreamReader, ChatStream, CrossStream

`StreamReader` is the abstract side: a client that accepts exactly the well-formed event streams of an
API and is `broken` by anything else. A converter is modelled as the code is, by the blocks it has open,
its indexes and the text it holds back, and each event it emits is given to that reader; so
`StreamsWellFormed` is the statement that the converter implements the API's event grammar.

An action of `ChatStream` is one line of the upstream's stream (`Content`, `ReasoningContent`,
`ToolCall`, `Report`, `Done`), put into the network read of the line before or a new one, because some
decisions look at a read as a whole. Text is a sequence of numbered pieces in which thinking tags stand
anywhere and may be cut or never closed. `UpstreamEnds` and `UpstreamBreaks` are the flush and the
failure. `CrossStream` adds the upstreams whose events are blocks (Anthropic), items (Responses) or parts
(Gemini), with the converters that read them or write Gemini chunks.

### Dialects and TurnRelay

`Dialects` gives messages of all dialects one shape (role, words, reasoning, calls, results) and
each converter as an operator on sequences of messages. `TurnRelay` lets a client hold its history as
it received it and send it again with each request: `Ask` (a new turn), `AskAgain` (the results of its
calls), `Answer` (the upstream answers, streaming or not, and the answer goes back through the
converter), `Unreadable` (a body the code fails on), `Expire` (the memory of reasoning forgets). Only
the memory of reasoning lives in the proxy between two requests.

### Routing, KeyStore, ConfigStore

A configuration is a record of models (URL and key), aliases (targets with ranks) and schedules (open
times). `Routing` resolves a name to the set of upstream models it may reach or reports a cycle;
resolution is a recursive function on the set of names being expanded, which the code carries as
`visited`. What its cycle check is compared with is not computed the same way: the names an alias reaches are
those in every set that is closed under its targets and contains the first ones. `KeyStore` holds the operations on the bundle.

| TLA+ | Code |
|---|---|
| `file`, `backup` | the TOML file and its `.bak`; a file under rewrite is empty after a crash |
| `cache` | `cachedConfig` |
| `load[l]` | the local variables of a `loadProxyConfig` in flight |
| `payload` | the page the dashboard fetched |
| `StartLoad`, `ReadBundle`, `StoreBundle`, `HideAndFinish`, `LoadFails` | `loadProxyConfig` with `applySystemKeyStore`, split at its awaits |
| `Edit`, `EditsOf` | the edits of aliases, targets, limits, models and schedules |
| `FetchPayload`, `PutConfig` | the dashboard's GET and PUT, with the validation of the save |
| `Reload`, `Crash` | `/config-reload`; the process dies with a load in flight, perhaps in a rewrite |

Four variables are ghosts. `committed` is what the last edit or save wrote. `assigned` has the keys users entered,
with their URLs: those of the first file, and what an edit brings that was not in the file (`NewPairs`). A save
enters no key, because the page does not show any; the pairs of a key and a URL that only a save makes are
kept apart in `moved`. They come about when a page is older than the key in the clear that now stands under an
entry's name: the save keeps the key and restores the page's URL (`config-loader.ts:4465-4470`). `bare`
says that an entry without a URL has been in the file, which the code allows (`key-store.ts:121`, 137) and
which is related to every other URL by `startsWith` (413); from then on `KeyOfOwnUpstream` promises nothing.

### Transforms, RequestScreen, Handlers, AliasChoice, AttemptPipeline

The first four are operators. `Transforms` is the engine: a set of transforms has slots for hooks,
a slot has builtins and operations on fields. `Handlers` says for each client, mode and shape of a
body which hooks and conversions the handler runs in which order, whether a refusal is thrown or
returned and in which dialect the answer is: where hooks run twice or not at all, the data says so.
A conversion changes the turns of a body as the code does: `ConvertTurns` takes them to messages of `Dialects`
(`AsMessage`), through its operators for the pair of dialects, and back to blocks (`AsTurn`, `AsChat`).
An answer's event may name the model at its top or, as `message_start` and the Responses events do, inside
(`inner`); `UpstreamDialect` and the dialect of the reply say which, and `restore_client_model_alias` sees the top
only. The run sends nothing to the front `interactions`, whose bodies `Dialects` does not have.
`ResolvedMode` is what `resolveUpstreamTarget` makes of the mode of a route for an endpoint.
`AliasChoice` gives the plans a request may get.

`AttemptPipeline` composes them along one request: `Redact` or `RedactUnavailable`, `Compress`,
`Judge`, `Erase`, `Route`, then `RunAttempt` with `Succeed`, `Refused` or `Unreachable` until an answer
goes back, and `RestoreWhole` or `RestoreChunk`s cut anywhere and `Flush`. Words are symbols; a
sentinel is three of them. Which of two requests runs first does not matter here: requests share
nothing in these modules.

## The runs

Each run has its own `MC` module and a `.cfg` of that name, except `lifecycle_leak`, which runs
`MCRequestLifecycle` under `LifecycleLeak.cfg`.

| Run | Expected | What it shows |
|---|---|---|
| `token_ledger` | pass | `RestoreIsFaithful`: nothing phantom (`NoPhantomEvents`), no total of a retained day missing (`DurableTotalsSurvive`). `UsageCountsOnce`: a window query takes each usage once and on its own side of the boundary (`WindowSplitsUsage`), alias use never over-stated |
| `composite_dispatch` | pass | shares bounded whatever meets on them (`SharesBounded`), failures demote (`FailureDemotes`), the dispatch is a failover (`ImplementsFailover`), a healthy target comes back (`HealthyTargetRegainsTraffic`) |
| `target_ladder` | pass | `LadderIsFollowed`: budgets and reasons to stop. `BookkeepingIsRight`: failure counts and one-time codes. Termination (`RequestEnds`) |
| `conversation_state` | pass | `HistoriesAreTrue`: threads are recent history, and the client's own. What was just stored is there (`JustStoredIsRetrievable`). The cap is a part of `TypeOK` |
| `request_lifecycle` | pass | the counter is the number of open requests (`CounterAccounts`) and comes down for each (`CountIsReleased`); concurrent admission overshoots by a bounded amount (`OvershootBounded`) |
| `lifecycle_leak` | violation | a body that breaks in the adapter leaves the counter up |
| `agent_session` | pass | the limits of turns and tokens hold over all tasks (`BudgetIsRespected`), no line is left queued and shell output goes once with the next task (`LinesReachTheAgent`), a quit during a run ends the session (`MidRunQuitEnds`) |
| `fusion` | pass | every panel target is accounted for once and in order, with quorum and bounded fan-out (`PanelAccounted`), and a request ends although calls may never answer (`FusionEnds`) |
| `chat_stream` | pass | the events between eleven pairs of APIs are well formed (`StreamsWellFormed`), carry the content once and in order, with nothing waiting after the end and only the named losses (`ContentConserved`), and end truly (`EndIsTrue`) |
| `config_store` | pass | the cached configuration can be routed on and cycles are reported exactly where there are any (`RoutingIsSound`), a hidden key goes to the upstream it was entered for while every entry has a URL (`KeyOfOwnUpstream`), no load takes back what an edit or a save wrote (`CommittedSurvives`) |
| `turn_relay` | pass | results stand with their calls (`ToolExchangesAreWhole`); turns and reasoning come back in later requests (`TurnsAreKept`) |
| `pipeline` | pass | attempts are independent (`AttemptsAreIndependent`), what goes upstream has no secret but those in blocks the filter skips, says all that users said, and is repaired (`FitForUpstream`), the client gets every byte, its own words, and its name at the top of an event (`ReplyIsInClientsTerms`) |

The passing runs also check a type invariant (`fusion` proves its one instead). Every property has
a mutant in `PROJECT.json`: a plausible slip in the code (a floor that is forgotten, a timer that is
not raced, a block that is not closed, a body that is shared between attempts) under which TLC
finds that property violated.

Where the code makes an exception from a property, the property states it, so the exception is visible:
`ContentConserved` names what is dropped at the end of a chat stream (`DroppedAtEnd`); it and `StreamsWellFormed` hold for a crossed stream as long as the source has sent
nothing the code cannot express (`up.spoilt`, `Expressible`); `KeepsThoughts` lists the pairs that keep
reasoning; `TurnsInOrder` exempts Gemini upstreams, which get no calls, and
the texts `TextIsCut` names; `AttemptsAreIndependent` speaks of limits only for handlers with the cap
after the last conversion (`CapsLast`); `KeyOfOwnUpstream` excepts keys in the clear that a save of an older page moves (`moved`) and entries without a
URL (`bare`); `FitForUpstream` allows the secrets that stand in blocks the filter skips (`Unseen`) and the
loss of words beside results in a Gemini body toward another upstream; `ReplyIsInClientsTerms` does not promise
the alias deeper in an event, nor on a ladder, which does not know it. Each is described under [other observations](#other-observations).

`CHECK_DEADLOCK FALSE` is set for the ledger, the conversations, the configuration, the turn relay and
the pipeline. Their clocks, records, edits, turns and requests are bounded, so their behaviours really
stop at the bounds.

## Bounds and why they are enough

* **Ledger.** Two models, days of three seconds, a start in the last second of a day, a retention of two
  days, four seconds, three usages, three rows, two queries, windows of two and three. The day turns twice, a
  day is forgotten, an event is pruned, cumulative and delta rows of one date meet, two dumps fall
  in the same second, a boundary goes back, and crashes and restarts come between any two of them. Three
  usages are needed for a pair in one row and one after it. The proofs lift all three invariants to any
  numbers.
* **Composite.** Two targets and two requests, with a reload between a configuration with a primary
  (shares 80 and 40) and one with two fallbacks (40 and 40). Two requests are enough for every
  lost-update pattern on a share, since an update has no await inside it; a share of 80 has five
  decay steps to its floor. The proofs lift the safety part to any number of targets and requests.
* **Ladder.** All ladders of three entries over a plain entry, one with two retries, one with a code
  and a transform, and an invalid one, under a cap of two: duplicates, a duplicate before and after
  the cap, an invalid entry in each place. Statuses 200, 304, 400, 429 and errors 502 and
  unclassified reach every branch of `isRetryableOutcome` and of `retry_on`.
* **Conversations.** Four turns, two conversations, a cap of four over both maps, a time to live of one
  tick in two ticks of time. Three turns in two conversations, or four in one, go past the cap, which
  leaves a turn that reads what an eviction has left.
* **Lifecycle.** Two slots, a global limit of two and an alias limit of one in units of the only
  non-zero usage, two upstream calls per request, one leak. Two slots overlap in every way (one is
  checked while the other is anywhere), each limit is reached with the other slot in flight, a panel
  call can outlive its request, and the leak shows beside requests that are counted.
* **Agent session.** Four lines, budgets of two turns, three tokens, or both three, usages from zero to
  two. Four lines are a task, two queued lines (one of them a shell line or a quit) and one after the run.
* **Fusion.** Five lists of roles with explicit, default and missing roles, a quorum from zero to three
  and a concurrency from zero to four around panels of at most three, a required judge or not, depth
  zero and one. A batch smaller than, as large as and larger than the panel occurs.
* **Streams.** Four lines in every order and grouping, five texts (plain, opening, closing, both, and a `<`
  without `>`), two tools. A tag opened in one read and closed two later, two calls that interleave,
  and a finish before, with and after the last content fit in four lines,
  and a converter never has more open than one text, one thought and its tools.
* **Configuration.** Two overlapping loads (interchangeable), one edit and one save of an earlier page, three
  files: a fresh one with two keys in the clear; one copied to a new machine, with a sentinel but no
  bundle, an alias that has a model's name and one that lists itself; one with a chain of aliases that
  one edit closes to a cycle, by night only or at all times. Four URLs: one extending another, one
  unrelated, and the empty one. The file with the chain has a sentinel with the key store turned off, which the edit of a file by
  hand may leave. The proofs lift all four invariants to any number of loads, edits and saves.
* **Turn relay.** Two answers with up to two calls each and a third request, fourteen pairs of client
  and upstream, with documents. Two calls are needed for an order among them; the third request is the
  first one that repeats an answer to a result.
* **Pipeline.** Seven requests in four dialects and two endpoints of the Responses API, entries of every
  upstream mode with caps, retries and five sets of transforms, plans with up to three entries,
  refusals of 400 (final) and 429 (retried), a transport failure, and two answers with sentinels whole,
  cut and unfinished.

## Fairness

`CompositeDispatch!Fairness`: weak fairness for the end of a call of every request, because
`utils/fetch-timeout.ts` aborts every fetch after its time-out (600 s unless configured) and the loop
then continues; and strong fairness for a request that begins with a given target whenever that order
is possible again and again, because clients keep sending requests and the pick is a random one with
positive weights. Nothing is assumed about whether a call succeeds: `HealthyTargetRegainsTraffic`
has as its premise that the target does not fail any more.

`TargetLadder!FairSpec`: weak fairness for the end of an attempt (the same time-out), for the wait (a
timer of at most two seconds), and for the end of the response. Authentication of further requests is
not fair.

`RequestLifecycle!Fairness`: weak fairness for the next step of every request. Bodies of requests,
authentications, upstream calls and streams end, if only by the time-outs of Node and of the upstream
fetch, and a connection closes after its last byte. Nobody has to arrive, to leave early or to lose a
panel call.

`AgentSession!FairSpec`: weak fairness for the steps of the loop and of the agent: a shell command, a
snapshot and an upstream call end. The user need not type, so `MidRunQuitEnds` has the quit as its premise.

`Fusion!FairSpec`: weak fairness for the request's own steps and for the timers. A panel call may
never answer; the timer is what ends the wait.

The other modules have safety properties only.

## What is proved

All theorems hold for every value of the constants that satisfies the module's assumption. The
assumptions: configured shares are multiples of 40, so that integer arithmetic is the code's arithmetic,
and each configuration has a target with a share (`DispatchAssumption`); sets of slots, targets and
usages are finite, and numbers are numbers (`LifecycleAssumption`, `SessionAssumption`,
`FusionAssumption`, `LadderAssumption`); the cap of conversations is positive (`ConversationAssumption`;
with a cap of one `JustStoredIsRetrievable` claims nothing); the windows and the days read back lie within
the retention, and the clock starts later than one retention after zero, as the clock of a real machine does
(`LedgerAssumption`); and of a configuration, names are finite in
number, what edits name is a name, a URL is a sequence (the empty one included), no key is the sentinel, and the files
a session starts with are configurations (`ConfigAssumption`).

| Module | Theorem | Statement |
|---|---|---|
| `CompositeDispatchProofs` | `TypeCorrect` | `Spec => []TypeOK` |
| | `SharesStayBounded` | `Spec => []SharesBounded` |
| | `NoShareAboveConfigured` | `Spec => []NoReloadInv`: before the first reload no effective share is above the configured one and all requests run under the current configuration |
| | `FailureDemotesTarget` | `Spec => FailureDemotes` |
| | `DispatchImplementsFailover` | `Spec => ImplementsFailover` |
| `RequestLifecycleProofs` | `TypeCorrect` | `Spec => []TypeOK` |
| | `CounterIsAccurate` | `Spec => []CounterAccounts` |
| | `OvershootHolds` | `Spec => []OvershootBounded` |
| | `NoCountOutlivesItsRequest` | `Spec => []Stages`: the count is held from the increment on, by every body nobody has read, and by no free slot |
| `AgentSessionProofs` | `TypeCorrect` | `Spec => []TypeOK` |
| | `BudgetHolds` | `Spec => []BudgetIsRespected` |
| | `LinesReach` | `Spec => []LinesReachTheAgent` |
| `FusionProofs` | `PanelIsAccounted` | `Spec => []PanelAccounted` |
| `TargetLadderProofs` | `TypeCorrect` | `Spec => []TypeOK` |
| | `LadderHolds` | `Spec => []LadderIsFollowed` |
| | `BooksAreRight` | `Spec => []BookkeepingIsRight` |
| `ConversationStateProofs` | `StoreTypeCorrect` | `Spec => []TypeOK`, with the cap over both maps |
| | `HistoriesHold` | `Spec => []HistoriesAreTrue` |
| | `JustStoredHolds` | `Spec => JustStoredIsRetrievable` |
| `ConfigStoreProofs` | `TypeCorrect` | `Spec => []TypeOK` |
| | `RoutingHolds` | `Spec => []RoutingIsSound` |
| | `KeysStayHome` | `Spec => []KeyOfOwnUpstream` |
| | `LoadsKeepWrites` | `Spec => []CommittedSurvives` |
| `TokenLedgerProofs` | `TypeCorrect` | `Spec => []TypeOK` |
| | `RestoreHolds` | `Spec => []RestoreIsFaithful` |
| | `UsageHolds` | `Spec => []UsageCountsOnce` |

**Composite dispatch.** `TypeOK` is inductive as it stands, because it says of every request in flight
that its plan is a function from `1..Cardinality(Eligible(c))` to the eligible targets of the
configuration it started with and that `at` is in its domain; that `at` stays there needs the
candidates to be finite. `SharesBounded` is inductive relative to `TypeOK`: with a configured share
between 40 and the maximum both updates map the interval between 4 and the maximum into itself
(`ShareSteps`), although the share a request updates with may be that of an older configuration. It does
not say that a decay lowers a share, and after a reload with a larger share a decay may raise one,
because the floor is a tenth of the new share. Hence `FailureDemotes` speaks of the time before a
reload and rests on the strengthening `NoReloadInv`, under which the previous share is never above the
configured one, so that a decay ends strictly below it (`CatchDemotes`) and of all actions only an
answer can take the degradation back (`OnlyAnswersRestore`). The refinement needs that plans are
injective (`PlansAreInjective`): then the current candidate is untried, and when it is the last one, the
tried ones and it are all there are (`CurrentUntried`). Each action then maps to one step of `Failover`
or to a stutter (`StartRefines`, `AnswersRefines`, `DeliverRefines`, `CatchRefines`).

**Request lifecycle.** Neither `TypeOK` nor `CounterAccounts` is inductive: a request whose body breaks
must hold its count, or the leak would be counted without one, and a slot that is taken again must not.
`Stages` says so, and it also bounds the lost panel calls of a request by the calls it made, which
`TypeOK` needs. The conjunction of the three is inductive; the cardinality facts are `CountedGrows`,
`CountedShrinks` and `ReleaseAccounts`, and the last shows that the guard `active > 0` of the release is
never what keeps the counter from falling below zero.

The overshoot is a sum over the requests, which no induction over data can be used for, so it is counted: a
request that has passed the check of a limit owes the upstream calls it may still make, the lost panel
calls that still run, and one for a stream that is piped (`Due`), and the calls all requests owe are the set of
their units (`Units`). `DuesCovered` says that what was used plus the largest usage for each unit stays
below the bound. A usage is paid for by a due that falls (`UnitsShrink`); a due rises only where the
limit was just compared, and there the bound is reached at worst if every request owes all its calls.

**Agent session.** The difficulty is that the flag `budgetHit` is raised in a callback while the loop and
the queues go on. `BudgetInv` says what makes it enough: the flag is up whenever the budget is used up,
no turn runs while it is up, and an agent that could take another turn by itself has been told to stop.
`QueueInv` adds that both queues are empty after a run that may be followed by another one, which is the
place where a line typed late would be lost. `OutputInv` orders the outputs of shell lines by the line
numbers: those that wait were typed after the last task and before the line now handled, so the next
task takes them all, once, in order. `TaskInv` ties the line being handled to the phase.

**Fusion.** `PanelAccounted` is about results that have been read; `PanelInv` adds what is in flight: the
texts and errors read so far are exactly the positions `1..Done` (`Accounts`), and a call is awaited only
in the current batch, before its first body is read (`Progress`). That batches are adjacent intervals
(`BatchShape`, `BatchesApart`) makes the positions add up, and their size bounds the fan-out
(`BatchIsSmall`).

**Target ladder.** For `LadderIsFollowed` the invariant is `Way`: every rung behind the current one was hit
within its budget and left for a failure that is worth another attempt (`Behind`), the current one was hit as
often as `n` says (`Here`), and a request past its attempts ended with an answer, a failure that is final or
the last rung (`Settled`). `TypeOK` follows from it. `Books` strengthens the property in two ways: the code in force is that of the current
rung (`CodeInForce`), and the count of failures is compared for everything that could be a model, because the
property counts by model and rungs may share one (`Accounted`). One more attempt adds one to both
counts or to none (`SubsetCount`, `CountedAppend`).

**Conversations.** The cap and the retrieval rest on a balance (`Balanced`): for every time an entry may still be
found there are at least as many live responses as live threads, one more between the two writes of a
completion, because an eviction takes a thread only together with a response. So the eviction has
responses to take, and the one just written is the last of them (`EvictOnceBalance`, `StoredIsBalanced`). Both
maps keep distinct keys in order of expiry. What a filter leaves of a sequence is described by the ranks
of the positions kept (`Kept`, `Thinned`), since the prover cannot use `SelectSeq`. `Histories` adds what a
request was sent with: a chain of turns of which each follows the one before (`Told`), by its
`previous_response_id` or in its conversation, and a thread is the end of what its conversation stored
(`Ends`). Turns that overlap read before and write after one another; the chain a request extends was
fixed when it was sent, and what is told stays told.

**Routing.** The recursion of the resolution ends because each step adds an alias to the visited ones; that its
function exists and unfolds is proved by a maximal set of visited names at which it would not
(`ResolutionExists`, `ResolutionUnfolds`). `CycleIsMet` is the core: with `seen` visited, a name reports a
cycle exactly when what it stands for, or something reached from there, is in `seen` or reaches itself
(`Meets`), and reaching unfolds step by step (`ReachedUnfolds`). With nothing visited that is the property.
`StrippedIsUsable` gives the rest of `RoutingIsSound`, and that no sentinel is left comes with the keys.

**Keys.** `ConfigInv` follows keys wherever they go: those of the file, of the bundle, of the copy and the
bundle each load holds across its awaits, and of the cache are all accounted for by a pair with a URL that begins
as the one they stand with (`AllEntered`, `BundleEntered`). The pairs that account (`Known`) are the entered and
the moved ones, and every pair once an entry has no URL; with an empty URL nothing less would do (`Rooted`). They
only grow, so what a load took from an older file stays sound under any edit; a save adds to them only what it moves (`AllOfWritten`, `PersistSound`). The best match keeps it because related URLs begin the same
(`RelatedBeginTheSame`, `KeyForIsEntered`), and slot by slot no sentinel is left behind
(`SlotSettles`, `ResolvedIsSettled`). That every edit and every save makes a configuration of a
configuration is `EditIsConfig` and `AppliedIsConfig`.

**Configuration file.** `NoLoadBehindBackup`: the file differs from what the last edit or save wrote only after
a crash in a rewrite, when no load is in flight; and a load that then begins reads the empty file, in
which there is no key to hide, so it never gets to a rewrite that would put the empty file over the
backup (`InFlight`, `LoadKeeps`). An edit or a save writes the file whole and ends every load's hold on it, so each
one restores the first case. The theorem is about what loads do to what was written: that one write
keeps the one before it is not claimed, and a stale save does not.

**Token ledger.** Nothing here can be an induction over a log, so two devices replace it. A sum is the number
of its tokens, and sums are compared by injections of tokens (`TokensInto`, `TokensOfParts`, `SumInto`); the
search is a function of its turns, and a least turn at which its bounds would be wrong refutes itself
(`SearchUnfolds`, `TurnNarrows`, `SearchEnds`).

None of the properties is inductive, because a restart reads the file. `Sound` says what the file may hold and
memory may come from: every event of the log, and of the log of the alias, stands for a usage of its own
(`Drawn`: an injection into `history`), every event of a row for a durable one, rows are in the order of dates and
times, no row is of a day after the current one, and nothing is in memory while the process is down. A restart
takes each event once (`LoadedEvents`), and two equal events, which would need two usages, it takes once as
well: hence `NoPhantomEvents`. The log of the alias is the one of a single row, in order, so that
the search finds its window (`LoadedAlias`, `AliasIsNotOverstated`).

`WindowIsSound` is the argument for the cached sum: the log is in order, and what was absorbed is no more than what was
used before the last boundary (`AbsorbedIsPast`). A query parts the log in what earlier queries absorbed, what it
absorbs now and what it finds in the window (`QueryParts`); the first two lie before the new boundary and are of
usages of their own, the third after it (`LogSums`, `HistorySums`, `QuerySplits`), so neither side has more than
was used there. Pruning only removes, a usage joins the younger side (`RecordKeepsSplit`), and a restart begins
with nothing absorbed. It needs the log in order and a boundary that does not go back;
a restart may break the first, and a shorter window queried before a longer one the second (see
[below](#where-documents-and-code-disagree)).

`DaysCovered` is the argument for the totals: on every day, the last row of that day has at least what durable
usage made of each model, and while the process runs the daily totals cover the current day, to which all
usage that is not durable belongs. The last row of a day is among the latest ones (`ClosingIsLatest`), and a
restart adds up one or more latest rows per day, so the total is at least the sum over the retained days
(`TokensByDay`, `RestartKeepsTotals`). A restart does not make the daily totals too small either, because the
last row that has a model wins (`RestartKeepsDays`). Totals may be too large, as described below.

Only model-checked: the liveness properties (they need fairness and ENABLED, which the prover does not
handle); the streams and the turn relay (concatenations of sequences of sequences by folds and recursion: an
induction over data), and the pipeline, whose operators on bodies are recursive.

## Where documents and code disagree

`lifecycle_leak` (`LifecycleLeak.cfg`): the comment at `src/src/server.ts:110` says the in-flight count is
released with the response; when the body of a response that does not stream breaks in
`response.clone().text()` (`server.ts:152`), the catch answers 500 and releases nothing, and the count stays
up for good. `PROJECT.json` quotes both sides.

Further disagreements, seen while modelling and modelled as the code has them (no run of their own):

* `getTokensInWindowSince` is said to sum the events since its cutoff (`dashboard-stats.ts:1775`), but it
  returns the frozen sum too (1809, 1823), in which it puts every event before the cutoff: a usage never leaves
  a window, and a sliding limit (`src/README.md:175`) that was reached stays reached. The statement that the result is
  the usage of the window fails on the model after one usage and three seconds.
* The event log is said to be sorted by time (`dashboard-stats.ts:176`, 1782), and the binary search needs it. An
  event recorded in the second of a dump, after it, is in no delta row (614); the event that turns the day
  over is always one. A crash before its day is closed takes it out of the log for good; after that, a restart
  finds it in the full row of the day, behind events that came after it. `InOrder(events)` fails on the
  model in ten steps; `regular` marks these logs.
* The privacy filter is said to take personal data out of every outbound request, so that the upstream never sees
  it (`src/docs/getting-started/README_DETAILS.md:1299`); it looks at texts only (`privacy-filter.ts:243`), and what
  stands in a tool result of a Claude or Gemini body, or in the items of a Responses body, goes upstream as it
  is. The pipeline's run sends such a secret; without the clause for blocks the filter skips,
  `FitForUpstream` fails.
* `restore_client_model_alias` is said to restore "always the top-level alias the client sent", JSON and streaming
  alike (`src/docs/reference/transforms-reference.md:235-259`, `src/README.md:589`). It rewrites the top of a body
  only (`request-transform.ts:477`): a Claude stream (`message_start.message.model`) and a Responses stream
  (`response.model`) keep the upstream's name, and on a ladder the name the client sent is not known.
* Two restarts in one day count that day twice in the all-time totals (`dashboard-stats.ts:792`,
  `README_DETAILS.md:473`).
* An error status that a handler returns, rather than throws, does not reduce the share of its target
  (`index.ts:2672`, `src/docs/reference/routing-and-aliases.md:136`).
* `max_targets` caps entries, not attempts; same-rung retries come on top (`index.ts:2595`,
  `src/docs/architecture/auth-stats-protocol.md:160`). A rung may post several records (`index.ts:2491`).
* Eviction may remove the thread that was just extended (`conversation-store.ts:79`).
* A `quit` typed while a shell command runs does not end the session (`agent-session.ts:1002`, 991).
* The decision service never selects a candidate: its question holds its criteria in an object,
  `adaptToClefRequest` (`tool-judge-sidecar.ts:157`) iterates over them, the error is caught and the answer
  is "none" (`README.md:153`, 566). `AliasChoice` has exactly this.
* A judge of a fusion that answers something that is not JSON leaves `judge_required` unenforced
  (`index.ts:2125`, `README_DETAILS.md:207`); panel calls that lost their race run on beside the next
  batch, so more than `max_concurrent` calls may be open, though not awaited (`README_DETAILS.md:209`).
* A sentinel whose text the upstream spreads over several SSE events is not restored
  (`README_DETAILS.md:1326`).
* `reasoning_content` is sent to a Claude client as text (`streaming.ts:380`).
* Two entries with the same upstream model and URL share one account of the key store, so one key
  (`key-store.ts:262`, `src/README.md:782`).
* Assistant messages whose content is a string are lost toward a chat upstream (`claude-to-openai.ts:412`,
  though `tests/integration/01_endpoints/messages.test.js:66` sends one).
* `src/docs/reference/transforms-reference.md` says `before_upstream` runs after the
  conversion; toward Anthropic and Gemini from chat completions it runs before (`chat-completions.ts:79-444`).

## Other observations

What the models show of the code without a document to set against it; each is in the definitions.

* **Aliases.** `/v1/chat/completions` never uses composite candidates: no failover, coordinator or
  fusion there, and a coordinator alias gives planner or executor by weight (`index.ts:1461-1516`). Only
  Claude-shaped content blocks hand a conversation over to the executor; the hand-over is undone when the
  trigger leaves the last 20 assistant messages. A misconfigured coordinator and a routing cycle are
  answered 400 "Invalid request body".
* **Chat streams.** The stop reason after `[DONE]` looks only at lines of the same network read. Toward Claude, a
  stream that ends with an unclosed `<think>` loses what came since the last closed tag, at `[DONE]` as at the flush
  (`streaming.ts:253-346`, 490-541); toward Responses, text with `<` and no `>` is held to the end and appended without
  a delta, or lost when it was all the text there was, and a tag that closes in a later read leaks the thought
  as text. Arguments that arrive before identifier and name are not sent as deltas.
* **Other streams.** Anthropic to chat: argument deltas always name index 0 while the call starts at its block
  index; thinking is dropped. Responses to Claude: only `response.completed` ends the message; a second text
  item writes into a closed block; reasoning is dropped. To Gemini: text with `<` and no `>` goes out
  twice, text in the chunk whose finish flushes the calls is lost, calls without a finish reason are
  never sent. Gemini to chat: thoughts and calls are dropped.
* **Configuration.** Any edit of an alias erases toolset and decision of every alias
  (`cloneCompositeConfig`); the page contains toolsets, so a save of a configuration with one is refused, and a
  save drops what the page does not show. Conflicting aliases are stripped in memory, and the next edit
  persists that. A stale page takes back other users' edits, and one that is older than a key in the clear puts that key at the
  URL it had before, to which the key then goes (`config-loader.ts:4465`). An entry with an empty URL may get the key
  of any other (`key-store.ts:413`). Overlapping loads overwrite each other's bundle.
  The cycle check of a save looks at the schedule windows open at that time. After a crash in a rewrite,
  an edit overwrites the backup. A local file whose `store_key_in_system` is turned off while it holds
  sentinels is loaded as it is, and the sentinel goes upstream as a key: only files from Consul or Apollo are
  refused for it (`config-loader.ts:3134`).
* **Converters.** Codex reasoning is remembered only from streams. Text beside calls is dropped toward
  Anthropic, and only the first part of a text is read back from a Responses item. A message with
  nothing but a document disappears, so two assistant messages meet. Gemini: words beside results
  dropped, identifiers `call_<name>_<i>` repeat, results matched by position, tools dropped on two paths.
  Empty arguments make the conversion to Claude throw.
* **Pipeline.** The chat path to Anthropic never repairs missing tool results, since the hook runs before
  the conversion; chat to Gemini never applies the cap; several paths have no `before_upstream` or no
  `after_upstream`; on chat to Responses it runs twice. A judge's answer of the right type without a score
  counts as zero, so the tool is erased. Error responses of the outer catch are not restored.

## What is not modelled and why

* **Gemini's own stream transformer** (`handlers/gemini.ts:557-655`): a transformer that wraps another and
  never connects it; it has no effect.
* **Content of bodies beyond turns**: images, documents' content, sampling parameters, usage details, cache
  markers, model-specific parameters, the merging of consecutive messages. They are field-by-field maps
  that the repository's round-trip tests serve better.
* **The record chain behind the executable** (`body-record.ts`, `body-key-store.ts`): a binary format
  whose hazards (two appends in one process overwrite each other, a torn append hides all earlier
  records, a crash between two renames leaves no file under its name) are listed in `PROJECT.json` without
  a property. It is next in the plan.
* **`rpc.ts`**: lines handled concurrently, replies in any order, identified by their id.
* **Model list, quota, token counting**: caches with a time to live and estimates.
* **Rendering**: the terminal and dashboard pages, heatmaps, form editing, the command line. Their edits of the
  configuration are in `ConfigStore`.
* **The agent's tools, skills and input history**; the agent library, which is external.
* **Parsing**: TOML, globs and tags in names, validation of single fields, Consul and Apollo beyond
  being another source of the file; URLs and headers of the handlers.
* **The display statistics**: endpoints, agents, tools, timings, rate limits, calendar windows, legacy row
  formats of the ledger. Two processes that append to one ledger file and a clock that is set back are not modelled; two
  window lengths in turn are, but `UsageCountsOnce` excludes a boundary that goes back.
* A cap of conversations that is not a number, or one.

## Plan

Done, in this order: the ledger, the dispatch with its abstract failover, the ladder, the conversations and the
lifecycle; then the agent session, fusion, streams, configuration, turn relay and pipeline; then the
proofs, the ledger's last, for which its sums and merges were written without folds. What is left, in order
of importance:

1. `RecordStore`: append and replace with crashes between the renames, and the sweep at the next start;
   what a reader of the chain may lose.
2. `AttemptsAreIndependent` of the pipeline, which needs `InjectMissingToolResults` and `RestoreText`
   rewritten without RECURSIVE, and the type invariant of the turn relay, which needs the same of `Dialects`.
3. An abstract specification of the lifecycle (a counter that equals the number of open requests) with
   `RequestLifecycle` as its implementation, and one of a fair session for `AgentSession`.
4. The order of replies in `rpc.ts` and the fills of the model-list cache.
5. A composition of `Fusion` with the in-flight counter and the ledger, for calls that outlive their request.
