------------------------------ MODULE TurnRelay ------------------------------
(***************************************************************************)
(* A conversation through the proxy, turn by turn: a client of one dialect *)
(* keeps the whole history and sends it with every request, the proxy      *)
(* converts it for an upstream of another dialect and converts the answer  *)
(* back (handlers/messages.ts, responses.ts, chat-completions.ts and       *)
(* openai.ts with the converters).  The proxy is stateless but for the     *)
(* memory of reasoning by call identifier in handlers/responses.ts.  The   *)
(* client, which echoes what it was given and answers every call in order, *)
(* and the model behind the upstream are the environment.                  *)
(***************************************************************************)
EXTENDS Dialects, FiniteSets

CONSTANTS
  Paths,       \* pairs of a client and an upstream dialect
  MaxTurns,    \* bound: answers of the upstream
  MaxCalls,    \* bound: calls in one answer
  Documents    \* TRUE: a request may hold nothing but a document

Clients == {"claude", "claude-strings", "responses", "codex", "completions", "gemini"}
Upstreams == {"completions", "anthropic", "responses", "gemini"}
ASSUME PathsAssumption == Paths \subseteq Clients \X Upstreams
ASSUME BoundsAssumption == MaxTurns \in Nat /\ MaxCalls \in Nat /\ Documents \in BOOLEAN

VARIABLES
  path,      \* the dialects of this conversation
  phase,     \* "client", "upstream" (an answer is due) or "failed"
  history,   \* what the client keeps and sends
  sent,      \* the body of the last request upstream
  memory,    \* reasoning by call (reasoningByCallId): [id, think]
  asked,     \* all words of the user, in order
  said       \* ghost: the answers of the upstream
vars == <<path, phase, history, sent, memory, asked, said>>

client == path[1]
upstream == path[2]
ClaudeClient == client \in {"claude", "claude-strings"}
ResponsesClient == client \in {"responses", "codex"}

Init ==
  /\ path \in Paths
  /\ phase = "client"
  /\ history = <<>> /\ sent = <<>> /\ memory = {} /\ asked = <<>> /\ said = <<>>

-----------------------------------------------------------------------------
(* The client's next message: the results of the calls of the last answer  *)
(* and words, at least one of them.                                        *)
LastCalls == IF said = <<>> THEN <<>> ELSE Last(said).calls
(* Calls the client was not told about are not answered. *)
Pending == IF upstream = "gemini" THEN <<>> ELSE LastCalls
Results(n) == [i \in DOMAIN Pending |-> [of |-> Pending[i].id, words |-> <<<<n, "result", i>>>>]]

ClientMessage(results, words) ==
  CASE ResponsesClient ->
         [i \in DOMAIN results |-> [Blank EXCEPT !.role = "output", !.results = <<results[i]>>]]
           \o IF words = <<>> THEN <<>> ELSE <<[Blank EXCEPT !.role = "user", !.text = <<words>>]>>
    [] client = "completions" ->
         [i \in DOMAIN results |-> Tool(results[i])]
           \o IF words = <<>> THEN <<>> ELSE <<User(words)>>
    [] OTHER -> <<[User(words) EXCEPT !.results = results]>>

AsChat(h) ==
  CASE ClaudeClient -> ClaudeToChat(h)
    [] ResponsesClient -> ResponsesToChat(h)
    [] client = "gemini" -> GeminiToChat(h)
    [] OTHER -> h

Body(h) ==
  CASE upstream = "gemini" /\ ClaudeClient -> ClaudeToGemini(h)
    [] upstream = "gemini" /\ ResponsesClient -> ClaudeToGemini(ChatToClaude(AsChat(h)))
    [] upstream = "gemini" /\ client = "completions" -> ChatToGemini(h)
    [] upstream = "anthropic" -> ChatToClaude(AsChat(h))
    [] upstream = "responses" /\ ClaudeClient -> ChatToInput(AsChat(h))
    [] upstream = "responses" /\ ~ClaudeClient -> ChatToResponses(AsChat(h))
    [] upstream = "completions" /\ ResponsesClient -> Injected(AsChat(h), memory)
    [] OTHER -> AsChat(h)

(* A request of the client: handled from its history alone. *)
Ask(words) ==
  LET n == Len(said) + 1
      next == history \o ClientMessage(Results(n), words)
  IN
  /\ phase = "client"
  /\ Len(said) < MaxTurns + 1
  /\ words # <<>> \/ Pending # <<>>
  /\ phase' = "upstream"
  /\ history' = next
  /\ sent' = Body(next)
  /\ asked' = asked \o words
  /\ UNCHANGED <<path, memory, said>>

-----------------------------------------------------------------------------
(* Answers. *)

(* The answer as the chat message the response converters start from. *)
AsAnswered(r) ==
  CASE upstream = "anthropic" /\ ~ResponsesClient -> ClaudeAnswer(r)
    [] upstream = "responses" -> ResponsesAnswer(r)
    [] upstream = "gemini" -> GeminiAnswer(r)
    [] OTHER -> r

(* What the client is given; a client that keeps strings, and Codex, which *)
(* does not echo reasoning, keep less.                                     *)
Given(r, streaming) ==
  LET m == AsAnswered(r) IN
  CASE client = "claude" -> ClaudeContent(m)
    [] client = "claude-strings" /\ m.calls = <<>> ->
         <<[Blank EXCEPT !.role = "string", !.text = Joined(m.text)]>>
    [] client = "claude-strings" /\ m.calls # <<>> -> ClaudeContent(m)
    [] ResponsesClient /\ upstream = "completions" ->
         IF streaming THEN StreamedOutput(m) ELSE ResponsesOutput(m)
    [] ResponsesClient /\ upstream # "completions" ->
         IF streaming THEN StreamedClaudeOutput(m) ELSE ClaudeOutput(m)
    [] client = "gemini" -> GeminiContent(m)
    [] OTHER -> ClaudeContent(m)
Kept(items) ==
  IF client # "codex" THEN items
  ELSE [k \in DOMAIN SelectSeq(items, LAMBDA it : it.role # "reasoning") |->
          [SelectSeq(items, LAMBDA it : it.role # "reasoning")[k] EXCEPT !.think = <<>>]]

(* storeReasoningForCalls: only the stream of a completions upstream. *)
Remembered(r, streaming) ==
  IF ResponsesClient /\ upstream = "completions" /\ streaming /\ r.think # <<>>
  THEN {e \in memory : \A i \in DOMAIN r.calls : e.id # r.calls[i].id}
         \cup {[id |-> r.calls[i].id, think |-> r.think] : i \in DOMAIN r.calls}
  ELSE memory

Answers(n) ==
  LET texts == {<<>>, <<<<<<n, "a">>>>>>, <<<<<<n, "a">>>>, <<<<n, "b">>>>>>}
      calls(k) == [i \in 1..k |-> [id |-> <<n, i>>, args |-> <<n, i>>]]
  IN {[text |-> t, think |-> th, calls |-> calls(k)] :
        t \in texts, th \in {<<>>, <<<<n, "think">>>>}, k \in 0..MaxCalls}
       \ {[text |-> <<>>, think |-> <<>>, calls |-> <<>>]}

(* Streaming matters to a Responses client only; a stream is one text.     *)
Answer(r, streaming) ==
  /\ phase = "upstream"
  /\ Len(said) < MaxTurns
  /\ streaming => ResponsesClient /\ Len(r.text) <= 1
  /\ phase' = "client"
  /\ history' = history \o Kept(Given(r, streaming))
  /\ memory' = Remembered(r, streaming)
  /\ said' = Append(said, r)
  /\ UNCHANGED <<path, sent, asked>>

UnreadableForAll ==
  /\ phase = "upstream"
  /\ upstream \in {"completions", "responses"}
  /\ phase' = "failed"
  /\ UNCHANGED <<path, history, sent, memory, asked, said>>

(* A call whose arguments are not JSON, the empty string among them, makes *)
(* the Claude converter throw: the client gets an error and may send the   *)
(* same request again.                                                     *)
Unreadable ==
  /\ phase = "upstream"
  /\ ClaudeClient /\ upstream \in {"completions", "responses"}
  /\ phase' = "failed"
  /\ UNCHANGED <<path, history, sent, memory, asked, said>>

AskAgain ==
  /\ phase = "failed"
  /\ phase' = "upstream"
  /\ UNCHANGED <<path, history, sent, memory, asked, said>>

(* Ten minutes pass: an entry of the memory expires. *)
Expire ==
  /\ \E e \in memory : memory' = memory \ {e}
  /\ UNCHANGED <<path, phase, history, sent, asked, said>>

Words(n) ==
  {<<>>, <<<<n, "words">>>>} \cup
    IF Documents /\ ClaudeClient THEN {<<<<n, "document">>>>} ELSE {}
Next ==
  \/ \E words \in Words(Len(said) + 1) : Ask(words)
  \/ \E r \in Answers(Len(said) + 1), streaming \in BOOLEAN : Answer(r, streaming)
  \/ Unreadable
  \/ AskAgain
  \/ Expire
Spec == Init /\ [][Next]_vars
-----------------------------------------------------------------------------
(* The turns whose words, reasoning or calls a message holds. *)
TurnsIn(m) ==
  {m.text[i][1] : i \in DOMAIN m.text} \cup {m.think[i][1] : i \in DOMAIN m.think}
    \cup {m.calls[i].args[1] : i \in DOMAIN m.calls}

(* The body as the model reads it: the items of one turn are one message.  *)
OneTurn(msgs, item) ==
  LET m == IF item.text = <<>> THEN item ELSE [item EXCEPT !.text = Joined(@)] IN
  IF InTurn(item) /\ msgs # <<>> /\ InTurn(Last(msgs)) /\ TurnsIn(m) = TurnsIn(Last(msgs))
  THEN [msgs EXCEPT ![Len(msgs)] =
          [@ EXCEPT !.text = @ \o m.text, !.calls = @ \o m.calls, !.role = "assistant"]]
  ELSE Append(msgs, IF InTurn(item) THEN [m EXCEPT !.role = "assistant"] ELSE m)
Shown == IF upstream = "responses" THEN FoldLeft(OneTurn, <<>>, sent) ELSE sent

(* Answers of the client to the calls of message k, as the upstream of     *)
(* this dialect demands them.                                              *)
AnswersTo(k) ==
  IF upstream = "anthropic"
  THEN IF k < Len(Shown) THEN Shown[k + 1].results ELSE <<>>
  ELSE Joined([i \in 1..Len(Shown[k].calls) |->
                 IF k + i <= Len(Shown) THEN Shown[k + i].results ELSE <<>>])
Belongs(result, call) ==
  /\ result.of = call.id
  /\ result.words[1] = <<call.args[1] + 1, "result", call.args[2]>>

Spoken(m) == SelectSeq(m.text, LAMBDA a : a[2] # "think")
(* Where the code keeps only part of a text, see the README: text beside   *)
(* calls on the way to Anthropic, parts after the first in the Responses   *)
(* format; what a Claude client keeps as a string is not sent at all.      *)
TextIsCut(r) ==
  \/ upstream = "anthropic" /\ r.calls # <<>>
  \/ (ResponsesClient \/ upstream = "responses") /\ Len(r.text) > 1
WordsAreCut(n) ==
  client = "gemini" /\ n > 1 /\ said[n - 1].calls # <<>>

(* Type invariant. *)
Atoms == (1..MaxTurns + 1) \X {"a", "b", "think", "words", "document"}
Names == (1..MaxTurns) \X (1..MaxCalls)
Items == [role : {"user", "tool", "assistant", "string", "reasoning", "call", "output"},
          text : {<<>>},
          think : Seq(Atoms),
          calls : Seq([id : Names, args : Names]),
          results : Seq([of : Names, words : Seq((1..MaxTurns + 1) \X {"result"} \X (1..MaxCalls))])]
TypeOK ==
  /\ path \in Paths
  /\ phase \in {"client", "upstream", "failed"}
  /\ phase = "failed" => ClaudeClient
  /\ \A k \in DOMAIN history :
       /\ [history[k] EXCEPT !.text = <<>>] \in Items
       /\ history[k].text \in IF ResponsesClient THEN Seq(Seq(Atoms)) ELSE Seq(Atoms)
  /\ memory \subseteq [id : Names, think : Seq(Atoms)]
  /\ Len(said) <= MaxTurns
  /\ \A n \in DOMAIN said : said[n] \in Answers(n)

(* In every request the calls of a turn are followed by their results, all *)
(* of them, once each, with the words the client answered to that very     *)
(* call, and there are no other results; and two assistant messages meet   *)
(* only where the client sent nothing but a document.  These are the       *)
(* requests upstreams reject, by the comments of the converters            *)
(* (responses-to-completions.ts:330, handlers/openai.ts:643).              *)
ToolExchangesAreWhole ==
  /\ \A k \in DOMAIN Shown :
       /\ Len(AnswersTo(k)) >= Len(Shown[k].calls)
       /\ \A i \in DOMAIN Shown[k].calls : Belongs(AnswersTo(k)[i], Shown[k].calls[i])
  /\ Len(Joined([k \in DOMAIN Shown |-> Shown[k].results]))
       = Len(Joined([k \in DOMAIN Shown |-> Shown[k].calls]))
  /\ \A k \in 1..Len(Shown) - 1 :
       Shown[k].role = "assistant" /\ Shown[k + 1].role = "assistant" =>
         \E i \in DOMAIN asked : IsDocument(asked[i])

(* A request shows the model its own turns: at most one message each, in   *)
(* order, with its calls and its text, and the words of the user in order. *)
(* A turn with calls and reasoning is shown with its reasoning, which      *)
(* thinking upstreams require (openai-to-claude.ts:146): by the client's   *)
(* echo, or from the memory of the proxy while it has the entry.           *)
TurnsInOrder ==
  phase = "upstream" /\ Len(said) \in DOMAIN said =>
    LET mine == SelectSeq(Shown, LAMBDA m : m.role = "assistant")
        words == Joined([k \in DOMAIN Shown |->
                           IF Shown[k].role = "user" THEN Shown[k].text ELSE <<>>])
    IN
    /\ \A k \in DOMAIN mine : Cardinality(TurnsIn(mine[k])) <= 1
    /\ \A k, l \in DOMAIN mine : k < l =>
         \A n \in TurnsIn(mine[k]), o \in TurnsIn(mine[l]) : n < o
    /\ \A n \in DOMAIN said :
         LET r == said[n]
             shown == SelectSeq(mine, LAMBDA m : n \in TurnsIn(m))
         IN  IF shown = <<>>
             THEN \/ r.text = <<>> /\ (r.calls = <<>> \/ upstream = "gemini")
                  \/ client = "claude-strings" /\ r.calls = <<>>
             ELSE /\ TextIsCut(r) \/ Spoken(shown[1]) = Joined(r.text)
                  /\ upstream = "gemini" \/
                       [i \in DOMAIN shown[1].calls |-> shown[1].calls[i].args]
                         = [i \in DOMAIN r.calls |-> r.calls[i].args]
    /\ words = SelectSeq(asked, LAMBDA w : ~IsDocument(w) /\ ~WordsAreCut(w[1]))
ReasoningComesBack ==
  phase = "upstream" /\ (upstream = "completions" \/ (upstream = "anthropic" /\ ~ResponsesClient)) =>
    \A k \in DOMAIN Shown :
      Shown[k].calls # <<>> =>
        LET r == said[Shown[k].calls[1].args[1]] IN
        \/ Shown[k].think = r.think
        \/ client = "codex" /\ \A e \in memory : e.id # r.calls[1].id
TurnsAreKept == TurnsInOrder /\ ReasoningComesBack
=============================================================================
