--------------------------- MODULE AttemptPipeline ---------------------------
(***************************************************************************)
(* A request from the client's body to the client's bytes (index.ts):      *)
(* screening (RequestScreen), one attempt after the other under the plan   *)
(* that routing chose, each from the screened body through request_ingress *)
(* and its handler (Handlers), the answer through after_upstream and       *)
(* response_egress (Transforms), and the privacy filter's way back, which  *)
(* sees a stream cut at any byte.                                          *)
(*                                                                         *)
(* A request is [front, model, body, beta, large, stream]; a plan          *)
(* [kind, routes], the kind "single", "composite" or "ladder"; a route     *)
(* [model, mode, sets, cap, retry].  The bytes of a stream are, event by   *)
(* event, the model's name if the event has one, at the top or deeper, its *)
(* words and "|".  What a conversion does to the turns is module Dialects, *)
(* over whole conversations module TurnRelay.                              *)
(***************************************************************************)
EXTENDS RequestScreen, Handlers, AliasChoice

CONSTANTS
  Requests,   \* bodies clients send
  Aliases,    \* what a model a client names may be, with or without a ladder
  Says,       \* streams of words upstreams answer
  Filler,     \* the symbol Kompress drops
  Refusals,   \* statuses other than 200 an upstream answers
  RetryOn     \* statuses a ladder repeats on the same rung

VARIABLES
  phase,    \* "redact", "compress", "judge", "erase", "route", "attempt", "upstream", "reply", "done"
  client,   \* the request as it came
  body,     \* the parsed body, changed in place by the screens
  mapping,  \* sentinels of this request
  asked,    \* calls of the judge still to make
  condemned,\* tools the judge erases
  plan, at, retries,   \* the plan, the current route in it, repeats of it
  sent,     \* what went upstream: [route, beta, body]
  answer,   \* the answer on its way to the client, "none" before
  wire,     \* bytes of it not yet read by the filter
  buffer,   \* bytes the filter holds back
  out       \* bytes the client has

vars == <<phase, client, body, mapping, asked, condemned, plan, at, retries, sent, answer, wire, buffer, out>>

screenVars == <<client, body, mapping, asked, condemned>>
planVars == <<plan, at, retries, sent>>
replyVars == <<wire, buffer, out>>

NoAnswer == [status |-> 0, format |-> "none", events |-> <<>>]
Error(status) == [status |-> status, format |-> "error", events |-> <<>>]
NoPlan == Plan("none", <<>>)

Init ==
  /\ phase = "redact"
  /\ client \in Requests
  /\ body = client.body
  /\ mapping = <<>> /\ asked = <<>> /\ condemned = {}
  /\ plan = NoPlan /\ at = 1 /\ retries = 0 /\ sent = <<>>
  /\ answer = NoAnswer /\ wire = <<>> /\ buffer = <<>> /\ out = <<>>

-----------------------------------------------------------------------------
(* Screening. *)

(* A body with more text than the filter takes goes on as it is. *)
Redact ==
  /\ phase = "redact"
  /\ phase' = "compress"
  /\ IF client.large THEN UNCHANGED <<mapping, body>>
     ELSE /\ mapping' = Minted(SecretsIn(body))
          /\ body' = RedactBody(body, mapping')
  /\ UNCHANGED <<client, asked, condemned, planVars, answer, replyVars>>

RedactUnavailable ==
  /\ phase = "redact" /\ ~client.large
  /\ answer' = Error(400)
  /\ phase' = "done"
  /\ UNCHANGED <<screenVars, planVars, replyVars>>

Compress(shortened) ==
  /\ phase = "compress"
  /\ body' = IF shortened THEN CompressBody(body, Filler) ELSE body
  /\ asked' = JudgeCalls(body)
  /\ phase' = "judge"
  /\ UNCHANGED <<client, mapping, condemned, planVars, answer, replyVars>>

(* One call of the judge after the other, each with any answer. *)
Verdicts == {Str(Unusable), Str(NoScore), Num(Threshold), Num(Threshold + 1)}
Judge ==
  /\ phase = "judge" /\ asked # <<>>
  /\ \E said \in [Head(asked) -> Verdicts] :
       condemned' = condemned \cup ParseResponse(Head(asked), said)
  /\ asked' = Tail(asked)
  /\ UNCHANGED <<phase, client, body, mapping, planVars, answer, replyVars>>

Erase ==
  /\ phase = "judge" /\ asked = <<>>
  /\ body' = EraseBlockedTools(body, condemned)
  /\ phase' = "route"
  /\ UNCHANGED <<client, mapping, asked, condemned, planVars, answer, replyVars>>

Route ==
  /\ phase = "route"
  /\ \E alias \in Aliases[client.model] : \E chosen \in PlansFor(client.front, alias, body) :
       IF chosen = Refused400
       THEN phase' = "done" /\ answer' = Error(400) /\ UNCHANGED plan
       ELSE phase' = "attempt" /\ plan' = chosen /\ UNCHANGED answer
  /\ UNCHANGED <<screenVars, at, retries, sent, replyVars>>

-----------------------------------------------------------------------------
(* Attempts.  Each one starts from the screened body, with its own model.  *)
CurrentRoute == plan.routes[at]
HandlerOf(r) ==
  HandlerFor(client.front, ResolvedMode(client.front, r.mode), client.body.shape)

ReuseAttempt(r) ==
  [body |-> [(IF sent = <<>> THEN body ELSE [Last(sent).body EXCEPT !.shape = body.shape])
               EXCEPT !.fields = Put(@, "model", Str(r.model))],
   headers |-> [beta |-> client.beta]]

BuildRouteAttempt(r) ==
  [body |-> [body EXCEPT !.fields = Put(@, "model", Str(r.model))],
   headers |-> [beta |-> client.beta]]

Ingress(r) == RunHook("request_ingress", BuildRouteAttempt(r), r, r.mode, r.model)

RunAttempt ==
  /\ phase = "attempt"
  /\ LET r == CurrentRoute
         up == ToUpstream(HandlerOf(r), Ingress(r), r, r.model)
     IN sent' = Append(sent, [route |-> r, beta |-> up.headers.beta, body |-> up.body])
  /\ phase' = "upstream"
  /\ UNCHANGED <<screenVars, plan, at, retries, answer, replyVars>>

(* What follows a failure, thrown or returned: the next candidate of a     *)
(* composite (thrown only); the same rung again, the next one on a status  *)
(* that another target may not have; or the end.                           *)
Retryable(status) == status = 429 \/ status >= 500
MayGoOn(status, thrown) ==
  CASE plan.kind = "composite" -> thrown /\ at < Len(plan.routes)
    [] plan.kind = "ladder" -> Retryable(status) /\ at < Len(plan.routes)
    [] OTHER -> FALSE
MayRepeat(status) ==
  plan.kind = "ladder" /\ retries < CurrentRoute.retry /\ status \in RetryOn

(* The name the alias is restored to: a rung of the ladder knows none.     *)
AttemptClientModel ==
  IF plan.kind = "ladder" THEN CurrentRoute.model ELSE client.model

Egress(reply) ==
  LET r == CurrentRoute
      piped == IF reply.format = "sse" /\ HasHookOps("response_egress", r)
               THEN [reply EXCEPT !.events = [i \in DOMAIN @ |->
                       TransformEvent("response_egress", @[i], r, AttemptClientModel)]]
               ELSE reply
  IN ApplyWriteoutBody(piped, r, AttemptClientModel)

Bytes(reply) ==
  FlattenSeq([i \in DOMAIN reply.events |->
    SelectSeq(<<reply.events[i].model, reply.events[i].inner>>, LAMBDA name : name # "")
      \o reply.events[i].words \o <<"|">>])

Deliverable(reply) ==
  /\ answer' = reply
  /\ wire' = Bytes(reply)
  /\ phase' = "reply"
  /\ UNCHANGED <<screenVars, planVars, buffer, out>>

Give(status) ==
  /\ answer' = Error(status)
  /\ phase' = "done"
  /\ UNCHANGED <<screenVars, planVars, replyVars>>

GoOn ==
  /\ phase' = "attempt"
  /\ UNCHANGED <<screenVars, plan, sent, answer, replyVars>>

AfterUpstream(reply) ==
  IF HandlerOf(CurrentRoute).after
  THEN ApplyAfterUpstream(reply, CurrentRoute, CurrentRoute.model) ELSE reply

Succeed ==
  /\ phase = "upstream"
  /\ \E words \in Says :
       LET h == HandlerOf(CurrentRoute)
           pieces == IF client.stream THEN words ELSE <<FlattenSeq(words)>>
           said == [status |-> 200, format |-> IF client.stream THEN "sse" ELSE "json",
                    events |-> [i \in DOMAIN pieces |->
                      [model |-> "", inner |-> "", words |-> pieces[i], delta |-> TRUE,
                       finish |-> IF i = Len(pieces) THEN "stop" ELSE ""]]]
           raw == NameModel(said, UpstreamDialect(CurrentRoute.mode), CurrentRoute.model)
           after == AfterUpstream(raw)
       IN Deliverable(Egress(IF h.reply = "native" THEN after
                             ELSE NameModel(after, h.reply, CurrentRoute.model)))

(* A refusal, thrown by the handler or returned with the upstream's text;  *)
(* a transport failure is thrown by every handler and counts as 502.       *)
Fail(status, thrown) ==
  /\ phase = "upstream"
  /\ CASE MayRepeat(status) -> GoOn /\ retries' = retries + 1 /\ UNCHANGED at
       [] ~MayRepeat(status) /\ MayGoOn(status, thrown) -> GoOn /\ at' = at + 1 /\ retries' = 0
       [] ~MayRepeat(status) /\ ~MayGoOn(status, thrown) /\ thrown -> Give(status)
       [] OTHER -> \E words \in Says :
            Deliverable(Egress(AfterUpstream([status |-> status, format |-> "json",
              events |-> <<[model |-> "", inner |-> "", words |-> FlattenSeq(words), finish |-> "", delta |-> FALSE]>>])))

Refused == \E status \in Refusals : Fail(status, HandlerOf(CurrentRoute).refusal = "throw")
Unreachable == Fail(502, TRUE)

-----------------------------------------------------------------------------
(* The way back: JSON and errors as one text, a stream in pieces the       *)
(* network chooses.                                                        *)
Piped == answer.format = "sse" /\ DOMAIN mapping # {}

RestoreWhole ==
  /\ phase = "reply" /\ ~Piped
  /\ out' = RestoreText(wire, mapping)
  /\ wire' = <<>>
  /\ phase' = "done"
  /\ UNCHANGED <<screenVars, planVars, answer, buffer>>

RestoreChunk(n) ==
  /\ phase = "reply" /\ Piped /\ n <= Len(wire)
  /\ LET seen == buffer \o SubSeq(wire, 1, n)
         hold == HoldFrom(seen)
     IN /\ out' = out \o RestoreText(SubSeq(seen, 1, hold - 1), mapping)
        /\ buffer' = SubSeq(seen, hold, Len(seen))
  /\ wire' = SubSeq(wire, n + 1, Len(wire))
  /\ UNCHANGED <<phase, screenVars, planVars, answer>>

Flush ==
  /\ phase = "reply" /\ Piped /\ wire = <<>>
  /\ out' = out \o RestoreText(buffer, mapping)
  /\ buffer' = <<>>
  /\ phase' = "done"
  /\ UNCHANGED <<screenVars, planVars, answer, wire>>

Next ==
  \/ Redact \/ RedactUnavailable
  \/ \E shortened \in BOOLEAN : Compress(shortened)
  \/ Judge \/ Erase \/ Route
  \/ RunAttempt \/ Succeed \/ Refused \/ Unreachable
  \/ RestoreWhole \/ (\E n \in 1..Len(wire) : RestoreChunk(n)) \/ Flush

Spec == Init /\ [][Next]_vars

-----------------------------------------------------------------------------
Names(tools) == [i \in DOMAIN tools |-> tools[i].name]

(* Types; and the filter never holds back more than an open sentinel.      *)
TypeOK ==
  /\ phase \in {"redact", "compress", "judge", "route", "attempt", "upstream", "reply", "done"}
  /\ condemned \subseteq ToSet(Names(client.body.tools))
  /\ plan = NoPlan \/ (at \in DOMAIN plan.routes /\ retries \in 0..CurrentRoute.retry)
  /\ Len(buffer) <= MaxSentinelLen
  /\ phase = "done" => buffer = <<>> /\ wire = <<>>

LimitNames == UNION {MaxOutputTokensPaths(m) : m \in UpstreamModes \cup {"gemini"}}
                \cup {"generationConfig.max_output_tokens"}
Limits(b) == {b.fields[f].n : f \in DOMAIN b.fields \cap LimitNames}

(* Handlers in which the cap comes after the last conversion. *)
CapsLast(h) ==
  \E k \in DOMAIN h.stages :
    /\ h.stages[k].op = "hook" /\ h.stages[k].name = "before_upstream"
    /\ \A j \in (k + 1)..Len(h.stages) : h.stages[j].op = "hook"

(* No attempt leaves a trace in a later one: a rung tried again sends the  *)
(* same request, and every upstream is asked for its own model and for the *)
(* client's limit, lowered by the cap of its own entry alone.              *)
(* (index.ts:1698, 1897, 2218)                                             *)
AttemptsAreIndependent ==
  \A i \in DOMAIN sent :
    LET s == sent[i] IN
    /\ \A j \in DOMAIN sent : sent[j].route = s.route => sent[j] = s
    /\ "model" \in DOMAIN s.body.fields => s.body.fields["model"] = Str(s.route.model)
    /\ (CapsLast(HandlerOf(s.route)) /\ Limits(client.body) # {} /\ Limits(s.body) # {}) =>
         Limits(s.body) = {Min({l, s.route.cap} \ {0}) : l \in Limits(client.body)}

Blocks(b) == FlattenSeq([i \in DOMAIN b.messages |-> b.messages[i].blocks])
Occurrences(s, blocks) ==
  FoldLeft(LAMBDA n, block : n + Len(SelectSeq(block.words, LAMBDA w : w = s)), 0, blocks)
Unseen(b) == SelectSeq(Blocks(b), LAMBDA block : ~CollectTextRefs(b, block))

(* What users say, with or without the words next to results of tools. *)
UserWords(b, besideResults) ==
  FlattenSeq([i \in DOMAIN b.messages |->
    IF b.messages[i].role = "user" /\ (besideResults \/ Of(b.messages[i], "tool_result") = <<>>)
    THEN FlattenSeq([j \in DOMAIN OfTypes(b.messages[i], {"text", "string"}) |->
                       OfTypes(b.messages[i], {"text", "string"})[j].words])
    ELSE <<>>])

Repairs(r) ==
  /\ HandlerOf(r) = ClaudeHandler
  /\ \E k \in DOMAIN r.sets : /\ "before_upstream" \in DOMAIN r.sets[k].slots
                             /\ "inject_missing_tool_results" \in ToSet(r.sets[k].slots["before_upstream"].builtins)

(* What reaches an upstream, on whichever attempt and through whichever    *)
(* handler: of a secret the filter found, no copy but those in the client's *)
(* body where the filter does not look, such as the results of tools in a  *)
(* Claude or Gemini body (privacy-filter.ts:243; README_DETAILS.md:1299    *)
(* promises none); what users say, whole and in order through every        *)
(* conversion, but for the words next to results in a Gemini body, which   *)
(* only a Gemini upstream gets; the client's tools without those blocked   *)
(* or condemned, none of which is forced; and where the entry repairs tool *)
(* exchanges, each whole.                                                  *)
(* (privacy-filter.ts:288, tool-blocklist.ts:30, request-transform.ts:199) *)
FitForUpstream ==
  \A i \in DOMAIN sent :
    LET b == sent[i].body
        erased == BlockedTools \cup condemned
        offered == SelectSeq(Names(client.body.tools), LAMBDA n : n \notin erased)
    IN /\ \A m \in DOMAIN mapping :
            Occurrences(mapping[m], Blocks(b)) <= Occurrences(mapping[m], Unseen(client.body))
       /\ UserWords(b, TRUE) = UserWords(body, body.shape # "gemini" \/ b.shape = "gemini")
       /\ Names(b.tools) = (IF client.front \in {"messages", "responses"} /\ b.shape = "gemini" THEN <<>> ELSE offered)
       /\ "tool_choice" \in DOMAIN b.fields => b.fields["tool_choice"].s \notin erased
       /\ Repairs(sent[i].route) =>
            \A k \in DOMAIN b.messages : HasToolUse(b.messages[k]) =>
              /\ k < Len(b.messages) /\ IsPureTool(b.messages[k + 1])
              /\ Ids(Of(b.messages[k], "tool_use")) = Ids(b.messages[k + 1].blocks)

RestoresAlias(r) ==
  \E k \in DOMAIN r.sets : /\ "response_egress" \in DOMAIN r.sets[k].slots
                           /\ "restore_client_model_alias" \in ToSet(r.sets[k].slots["response_egress"].builtins)

(* However the network cuts the answer, the client gets every byte once    *)
(* and in order, each sentinel that stands whole in the answer replaced by *)
(* what it stood for; and where the entry restores the alias, the model at *)
(* the top of JSON or of an event is called what the client called it      *)
(* (index.ts:203, 2504), except on a ladder, which does not know that      *)
(* name.  A name deeper in an event is left alone (request-transform.ts:   *)
(* 477): Claude and Responses streams keep the upstream's.                 *)
ReplyIsInClientsTerms ==
  LET whole == RestoreText(Bytes(answer), mapping) IN
  /\ IsPrefix(out, whole)
  /\ phase = "done" => out = whole
  /\ \A i \in DOMAIN answer.events :
       (RestoresAlias(CurrentRoute) /\ plan.kind # "ladder") =>
         answer.events[i].model \in {"", client.model}
=============================================================================
