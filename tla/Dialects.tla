------------------------------ MODULE Dialects ------------------------------
(***************************************************************************)
(* The message formats the proxy translates between, and its conversions.  *)
(* The chat format of src/src/types/openai.ts is the pivot: the requests   *)
(* of a Claude, Responses or Gemini client become chat messages, and chat  *)
(* messages become the body of an Anthropic, Responses or Gemini upstream; *)
(* answers go the other way.  Words are atoms, so joining strings is       *)
(* concatenation; a call has an identifier and its arguments.              *)
(***************************************************************************)
EXTENDS Naturals, SequencesExt

(* One shape for a message of any dialect.  A Responses item has one role  *)
(* per item type and a sequence of parts as text; a message of a Claude or *)
(* Gemini client may hold results and words together.                      *)
Blank == [role |-> "none", text |-> <<>>, think |-> <<>>, calls |-> <<>>, results |-> <<>>]
User(words) == [Blank EXCEPT !.role = "user", !.text = words]
Tool(result) == [Blank EXCEPT !.role = "tool", !.results = <<result>>]
Assistant(text, think, calls) ==
  [Blank EXCEPT !.role = "assistant", !.text = text, !.think = think, !.calls = calls]
Joined(parts) == FlattenSeq(parts)
FirstPart(parts) == IF parts = <<>> THEN <<>> ELSE parts[1]
IsDocument(word) == word[2] = "document"

-----------------------------------------------------------------------------
(* Requests of the clients, as chat messages. *)

(* Results come before the words of the same message; a message that holds *)
(* nothing but documents disappears, and the words of an assistant message *)
(* that is a plain string are not read.                                    *)
WordsFirst(m) ==
  LET words == SelectSeq(m.text, LAMBDA w : ~IsDocument(w)) IN
  (IF words = <<>> THEN <<>> ELSE <<User(words)>>)
    \o [i \in DOMAIN m.results |-> Tool(m.results[i])]
ClaudeUser(m) ==
  LET words == SelectSeq(m.text, LAMBDA w : ~IsDocument(w)) IN
  [i \in DOMAIN m.results |-> Tool(m.results[i])]
    \o IF words = <<>> THEN <<>> ELSE <<User(words)>>
ClaudeMessage(m) ==
  CASE m.role = "user" -> ClaudeUser(m)
    [] m.role = "string" -> <<Assistant(<<>>, <<>>, <<>>)>>
    [] OTHER -> <<Assistant(m.text, m.think, m.calls)>>
ClaudeToChat(history) == FlattenSeq([k \in DOMAIN history |-> ClaudeMessage(history[k])])

(* The items of one assistant turn, in any order, become one message; a    *)
(* reasoning item waits for the turn it precedes.  Only the first text     *)
(* part of a message item is read.                                         *)
InTurn(item) == item.role \in {"call", "assistant"}
Absorb(turn, item) ==
  [turn EXCEPT !.text = @ \o FirstPart(item.text),
               !.think = IF item.think = <<>> THEN @ ELSE item.think,
               !.calls = @ \o item.calls]
ReadApart(acc, item) ==
  IF item.role = "reasoning"
  THEN IF acc.open
       THEN [acc EXCEPT !.msgs[Len(acc.msgs)].think = item.think]
       ELSE [acc EXCEPT !.pending = item.think]
  ELSE IF InTurn(item)
  THEN [msgs |-> Append(acc.msgs, Absorb(Assistant(<<>>, acc.pending, <<>>), item)),
        pending |-> <<>>, open |-> TRUE]
  ELSE [msgs |-> Append(acc.msgs, IF item.role = "user" THEN User(Joined(item.text))
                                  ELSE Tool(item.results[1])),
        pending |-> IF item.role = "user" THEN <<>> ELSE acc.pending,
        open |-> FALSE]
ReadItem(acc, item) ==
  IF acc.open /\ InTurn(item)
  THEN [acc EXCEPT !.msgs[Len(acc.msgs)] = Absorb(@, item)]
  ELSE ReadApart(acc, item)
SaysNothing(m) ==
  m.role = "assistant" /\ m.text = <<>> /\ m.think = <<>> /\ m.calls = <<>>
ResponsesToChat(items) ==
  LET read == FoldLeft(ReadItem, [msgs |-> <<>>, pending |-> <<>>, open |-> FALSE], items)
  IN  SelectSeq(read.msgs, LAMBDA m : ~SaysNothing(m))

(* A Gemini call has no identifier: one is made up from its position, and  *)
(* results are given to the last calls by position.  Words next to results *)
(* are not read.                                                           *)
Numbered(calls) == [i \in DOMAIN calls |-> [calls[i] EXCEPT !.id = <<"call", i>>]]
Matched(last, results) ==
  [i \in DOMAIN results |->
     Tool([of |-> IF i <= Len(last) THEN last[i].id ELSE <<"name", i>>,
           words |-> results[i].words])]
ReadContent(acc, c) ==
  IF c.calls # <<>>
  THEN [msgs |-> Append(acc.msgs, [c EXCEPT !.calls = Numbered(c.calls)]),
        last |-> Numbered(c.calls)]
  ELSE IF c.results # <<>>
  THEN [msgs |-> acc.msgs \o Matched(acc.last, c.results), last |-> <<>>]
  ELSE [acc EXCEPT !.msgs = Append(@, c)]
GeminiToChat(history) ==
  FoldLeft(ReadContent, [msgs |-> <<>>, last |-> <<>>], history).msgs

(* What a thinking upstream asks back and a client left out is taken from  *)
(* the memory of calls.                                                    *)
Recalled(memory, calls) ==
  LET known == SelectSeq(calls, LAMBDA c : \E e \in memory : e.id = c.id) IN
  IF known = <<>> THEN <<>> ELSE (CHOOSE e \in memory : e.id = known[1].id).think
Injected(msgs, memory) ==
  [k \in DOMAIN msgs |->
     IF msgs[k].calls # <<>> /\ msgs[k].think = <<>>
     THEN [msgs[k] EXCEPT !.think = Recalled(memory, msgs[k].calls)]
     ELSE msgs[k]]

-----------------------------------------------------------------------------
(* Chat messages, as the body of an upstream. *)

(* All results of a turn go into the one message after it; the text beside *)
(* calls is dropped.                                                       *)
Grouping(body) ==
  Len(body) > 1 /\ body[Len(body)].results # <<>> /\ body[Len(body) - 1].calls # <<>>
AddMessage(body, m) ==
  CASE m.calls # <<>> -> Append(body, [m EXCEPT !.text = <<>>])
    [] m.role = "tool" /\ Grouping(body) ->
         [body EXCEPT ![Len(body)].results = @ \o m.results]
    [] m.role = "tool" /\ ~Grouping(body) -> Append(body, [m EXCEPT !.role = "user"])
    [] OTHER -> Append(body, m)
ChatToClaude(msgs) == FoldLeft(AddMessage, <<>>, msgs)

(* Calls, then the text of the turn; its reasoning is dropped. *)
CallsOnly(m) ==
  CASE m.calls # <<>> -> [i \in DOMAIN m.calls |->
                            [Blank EXCEPT !.role = "call", !.calls = <<m.calls[i]>>]]
    [] m.role = "tool" -> <<[m EXCEPT !.role = "output"]>>
    [] OTHER -> <<[m EXCEPT !.text = <<@>>, !.think = <<>>]>>
ChatItem(m) ==
  LET text == [Blank EXCEPT !.role = "assistant", !.text = <<m.text>>]
      calls == [i \in DOMAIN m.calls |->
                  [Blank EXCEPT !.role = "call", !.calls = <<m.calls[i]>>]]
  IN  CASE m.calls # <<>> -> calls \o IF m.text = <<>> THEN <<>> ELSE <<text>>
        [] m.role = "tool" -> <<[m EXCEPT !.role = "output"]>>
        [] OTHER -> <<[m EXCEPT !.text = <<@>>, !.think = <<>>]>>
ChatToResponses(msgs) == FlattenSeq([k \in DOMAIN msgs |-> ChatItem(msgs[k])])

(* The way of /v1/messages: reasoning comes first, as an item of its own.  *)
ChatToInput(msgs) ==
  FlattenSeq([k \in DOMAIN msgs |->
    (IF msgs[k].think = <<>> THEN <<>>
     ELSE <<[Blank EXCEPT !.role = "reasoning", !.think = msgs[k].think]>>) \o ChatItem(msgs[k])])

(* Every tool result is a content of its own, with no name to match it by. *)
ChatToGemini(msgs) ==
  SelectSeq(msgs, LAMBDA m : m.text # <<>> \/ m.think # <<>> \/ m.calls # <<>> \/ m.results # <<>>)

(* Text only: tool blocks, thinking and documents are skipped. *)
ClaudeToGemini(history) ==
  LET text(m) == [Blank EXCEPT !.role = IF m.role = "user" THEN "user" ELSE "assistant",
                               !.text = SelectSeq(m.text, LAMBDA w : ~IsDocument(w))]
  IN  SelectSeq([k \in DOMAIN history |-> text(history[k])], LAMBDA m : m.text # <<>>)

-----------------------------------------------------------------------------
(* Answers of the upstreams, as a chat message: [text, think, calls], with *)
(* the text in parts.                                                      *)
ClaudeAnswer(r) ==
  [r EXCEPT !.text = IF @ = <<>> THEN <<>> ELSE <<Joined(@)>>]
ResponsesAnswer(r) ==
  [r EXCEPT !.text = IF @ = <<>> THEN <<>> ELSE <<FirstPart(@)>>, !.think = <<>>]
GeminiAnswer(r) ==
  LET all == r.think \o Joined(r.text) IN
  [r EXCEPT !.text = IF all = <<>> THEN <<>> ELSE <<all>>, !.think = <<>>, !.calls = <<>>]

(* ... and what the client gets of it. *)
NoThinking(r) == <<Assistant(Joined(r.text), <<>>, r.calls)>>
ClaudeContent(r) == <<Assistant(Joined(r.text), r.think, r.calls)>>
GeminiContent(r) == <<Assistant(Joined(r.text), r.think, r.calls)>>

ReasoningItem(r) ==
  IF r.think = <<>> THEN <<>>
  ELSE <<[Blank EXCEPT !.role = "reasoning", !.think = r.think]>>
CallItems(r) ==
  [i \in DOMAIN r.calls |-> [Blank EXCEPT !.role = "call", !.calls = <<r.calls[i]>>]]
MessageItem(parts, think) ==
  <<[Blank EXCEPT !.role = "assistant", !.text = parts, !.think = think]>>

(* From a whole answer: the calls come before the message. *)
ResponsesOutput(r) ==
  ReasoningItem(r) \o CallItems(r)
    \o IF r.text = <<>> /\ r.think = <<>> THEN <<>> ELSE MessageItem(r.text, r.think)
(* From a stream: the message comes before the calls. *)
StreamedOutput(r) ==
  ReasoningItem(r)
    \o (IF r.text # <<>> THEN MessageItem(<<Joined(r.text)>>, r.think)
        ELSE IF r.calls = <<>> THEN MessageItem(<<>>, <<>>) ELSE <<>>)
    \o CallItems(r)
(* From an Anthropic answer: the first text block and the calls. *)
ClaudeOutput(r) ==
  (IF r.text # <<>> THEN MessageItem(<<FirstPart(r.text)>>, <<>>)
   ELSE IF r.calls = <<>> THEN MessageItem(<<>>, <<>>) ELSE <<>>)
    \o CallItems(r)
StreamedClaudeOutput(r) ==
  (IF r.text # <<>> THEN MessageItem(<<Joined(r.text)>>, <<>>)
   ELSE IF r.calls = <<>> THEN MessageItem(<<>>, <<>>) ELSE <<>>)
    \o CallItems(r)
=============================================================================
