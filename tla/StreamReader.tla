---------------------------- MODULE StreamReader ----------------------------
(***************************************************************************)
(* What a client may assume of an event stream: in the Claude and the      *)
(* Responses API one start, then content blocks (items) opened with        *)
(* consecutive indices, changed only while open and closed once, and one   *)
(* end after which nothing comes.  Chat-completions and Gemini chunks hold *)
(* parts, a chat stream also calls, whose arguments name the index of a    *)
(* call begun before; the finish reason is the last chunk with a choice.   *)
(* A reader that meets anything else is broken.                            *)
(***************************************************************************)
EXTENDS Integers, Sequences, SequencesExt

NewReader == [phase |-> "before", open |-> {}, used |-> 0]

Start    == [type |-> "start", at |-> 0]
Add(i)   == [type |-> "add", at |-> i]
Delta(i) == [type |-> "delta", at |-> i]
Close(i) == [type |-> "close", at |-> i]
End      == [type |-> "end", at |-> 0]
Part     == [type |-> "part", at |-> 0]
Call(i)  == [type |-> "call", at |-> i]
Finish   == [type |-> "finish", at |-> 0]

Read(r, e) ==
  CASE e.type = "start" /\ r.phase = "before" -> [r EXCEPT !.phase = "open"]
    [] e.type = "add" /\ r.phase = "open" /\ e.at = r.used ->
         [r EXCEPT !.open = @ \cup {e.at}, !.used = @ + 1]
    [] e.type = "delta" /\ r.phase = "open" /\ e.at \in r.open -> r
    [] e.type = "close" /\ r.phase = "open" /\ e.at \in r.open -> [r EXCEPT !.open = @ \ {e.at}]
    [] e.type = "end" /\ r.phase = "open" /\ r.open = {} -> [r EXCEPT !.phase = "ended"]
    [] e.type = "part" /\ r.phase = "open" -> r
    [] e.type = "call" /\ r.phase = "open" /\ e.at \notin r.open -> [r EXCEPT !.open = @ \cup {e.at}]
    [] e.type = "finish" /\ r.phase = "open" -> [r EXCEPT !.phase = "ended"]
    [] OTHER -> [r EXCEPT !.phase = "broken"]

ReadAll(r, events) == FoldLeft(Read, r, events)

Readers == [phase : {"before", "open", "ended", "broken"}, open : SUBSET Nat, used : Nat]
=============================================================================
