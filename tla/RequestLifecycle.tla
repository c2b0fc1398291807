--------------------------- MODULE RequestLifecycle ---------------------------
(***************************************************************************)
(* The life of a model request: the fetch handler of src/src/index.ts from *)
(* the gates before the counter of requests in flight to the dispatch, and *)
(* the adapter of src/src/server.ts that writes the response and releases  *)
(* the counter.  Requests share the counter, the usage in the window of    *)
(* the global token limit, and that of one alias with a token limit.       *)
(*                                                                         *)
(* A slot of Requests is taken by one request after another; it is free    *)
(* again when the client and every upstream call are done with the one     *)
(* before.  How a dispatch chooses its upstream calls is left to the       *)
(* modules of the composite loop and the ladder: here it makes up to       *)
(* MaxCalls of them.                                                       *)
(***************************************************************************)
EXTENDS Integers, FiniteSets, FiniteSetsExt

CONSTANTS
  Requests,        (* slots: requests that may be in progress together         *)
  Amounts,         (* total_tokens the answer to one upstream call reports, 0   *)
                   (* when it has none                                          *)
  Limit,           (* num of general.global_token_limit                        *)
  AliasLimit,      (* num of the token_limit of the alias                      *)
  MaxCalls,        (* bound: upstream calls one request makes                  *)
  MaxLeaks         (* bound: bodies that break while the adapter reads them    *)

ASSUME LifecycleAssumption ==
  /\ IsFiniteSet(Requests) /\ Requests # {}
  /\ IsFiniteSet(Amounts) /\ Amounts \subseteq Nat /\ 0 \in Amounts
  /\ Limit \in Nat \ {0}
  /\ AliasLimit \in Nat \ {0}
  /\ MaxCalls \in Nat \ {0}
  /\ MaxLeaks \in Nat

VARIABLES
  active,          (* activeRequestCount                                       *)
  used,            (* usage in the window of the global limit                  *)
  aliasUsed,       (* usage in the window of the alias                         *)
  pc,              (* request -> where it is                                   *)
  viaAlias,        (* request -> does it name the alias                        *)
  calls,           (* request -> the upstream calls that are over or lost      *)
  lost,            (* request -> panel calls that timed out and still run      *)
  body,            (* request -> what the response is made of                  *)
  connected,       (* request -> has the client's connection not closed yet    *)
  release,         (* request -> its count: none, held, spent, or lost (ghost)  *)
  leaks            (* ghost: counts that were never released (bounded)         *)

requestVars == <<pc, viaAlias, calls, lost, body, connected, release>>
vars == <<active, used, aliasUsed, requestVars, leaks>>

-----------------------------------------------------------------------------
(* incrementActiveRequests and the guard of the release it returns.        *)

Count(r) == active' = active + 1 /\ release' = [release EXCEPT ![r] = "held"]

UnguardedRelease(r) ==
  /\ active' = IF release[r] # "none" THEN active - 1 ELSE active
  /\ release' = [release EXCEPT ![r] = IF @ = "held" THEN "spent" ELSE @]
ReleaseToClient(r) ==
  /\ active' = IF release[r] = "held" /\ connected[r] /\ active > 0 THEN active - 1 ELSE active
  /\ release' = [release EXCEPT ![r] = IF @ = "held" /\ connected[r] THEN "spent" ELSE @]
Release(r) ==
  /\ active' = IF release[r] = "held" /\ active > 0 THEN active - 1 ELSE active
  /\ release' = [release EXCEPT ![r] = IF @ = "held" THEN "spent" ELSE @]

(* The limit checks; a usage of the alias counts for both windows. *)
UpToLimit(total, limit) == total > limit
OverLimit(total, limit) == total >= limit

Use(r, v) ==
  /\ used' = used + v
  /\ aliasUsed' = IF viaAlias[r] THEN aliasUsed + v ELSE aliasUsed

(* A response whose whole body is in memory goes to the adapter, which writes its text. *)
AnswerText(r) ==
  /\ pc' = [pc EXCEPT ![r] = "writing"]
  /\ body' = [body EXCEPT ![r] = "text"]

Close(r) ==
  /\ pc' = [pc EXCEPT ![r] = "idle"]
  /\ calls' = [calls EXCEPT ![r] = 0]
  /\ body' = [body EXCEPT ![r] = "none"]
  /\ connected' = [connected EXCEPT ![r] = TRUE]

-----------------------------------------------------------------------------
Init ==
  /\ active = 0 /\ used = 0 /\ aliasUsed = 0 /\ leaks = 0
  /\ pc = [r \in Requests |-> "idle"]
  /\ viaAlias = [r \in Requests |-> FALSE]
  /\ calls = [r \in Requests |-> 0] /\ lost = [r \in Requests |-> 0]
  /\ body = [r \in Requests |-> "none"]
  /\ connected = [r \in Requests |-> TRUE]
  /\ release = [r \in Requests |-> "none"]

(* A request arrives, and the configuration is loaded. *)
Arrive(r, named) ==
  /\ pc[r] = "idle" /\ lost[r] = 0
  /\ pc' = [pc EXCEPT ![r] = "arrived"]
  /\ viaAlias' = [viaAlias EXCEPT ![r] = named]
  /\ release' = [release EXCEPT ![r] = "none"]
  /\ UNCHANGED <<active, used, aliasUsed, calls, lost, body, connected, leaks>>

(* Answered before the counter: the dashboard, the health check, a missing credential, a rejection by
   the authentication service, a response from the conversation store. *)
AnswerEarly(r) ==
  /\ pc[r] = "arrived"
  /\ AnswerText(r)
  /\ UNCHANGED <<active, used, aliasUsed, viaAlias, calls, lost, connected, release, leaks>>

(* The authentication, if any, accepts: the global limit is checked, and the request is counted. *)
Admit(r) ==
  /\ pc[r] = "arrived"
  /\ IF OverLimit(used, Limit)
     THEN AnswerText(r) /\ UNCHANGED <<active, release>>
     ELSE /\ Count(r)
          /\ pc' = [pc EXCEPT ![r] = "reading"]
          /\ UNCHANGED body
  /\ UNCHANGED <<used, aliasUsed, viaAlias, calls, lost, connected, leaks>>

ReadBody(r) ==
  /\ pc[r] = "reading"
  /\ pc' = [pc EXCEPT ![r] = "routing"]
  /\ UNCHANGED <<active, used, aliasUsed, viaAlias, calls, lost, body, connected, release, leaks>>

(* The body is too large or breaks off; it is no JSON; a filter, the deferred authentication or the
   route refuses the request. *)
AnswerLate(r) ==
  /\ pc[r] \in {"reading", "routing"}
  /\ AnswerText(r)
  /\ UNCHANGED <<active, used, aliasUsed, viaAlias, calls, lost, connected, release, leaks>>

(* The choice of the candidates, which may ask another service, is over: the limit of the alias is
   checked and the first upstream call begins. *)
Dispatch(r) ==
  /\ pc[r] = "routing"
  /\ IF viaAlias[r] /\ OverLimit(aliasUsed, AliasLimit)
     THEN AnswerText(r)
     ELSE pc' = [pc EXCEPT ![r] = "calling"] /\ UNCHANGED body
  /\ UNCHANGED <<active, used, aliasUsed, viaAlias, calls, lost, connected, release, leaks>>

(* An upstream call answers with usage and the dispatch makes another: a stage of a fusion is done, or
   a transform of the response threw after its statistics were taken and the next candidate is up. *)
AnswerStage(r, v) ==
  /\ pc[r] = "calling"
  /\ calls[r] + 1 < MaxCalls
  /\ calls' = [calls EXCEPT ![r] = @ + 1]
  /\ Use(r, v)
  /\ UNCHANGED <<active, pc, viaAlias, lost, body, connected, release, leaks>>

(* A panel call of a fusion times out: the stage goes on without it, but nothing stops the call ... *)
LosePanelCall(r) ==
  /\ pc[r] = "calling" /\ viaAlias[r]
  /\ calls[r] + 1 < MaxCalls
  /\ calls' = [calls EXCEPT ![r] = @ + 1]
  /\ lost' = [lost EXCEPT ![r] = @ + 1]
  /\ UNCHANGED <<active, used, aliasUsed, pc, viaAlias, body, connected, release, leaks>>

(* ... whose usage is recorded when it ends, be the request answered by then or not. *)
AnswerLost(r, v) ==
  /\ lost[r] > 0
  /\ lost' = [lost EXCEPT ![r] = @ - 1]
  /\ Use(r, v)
  /\ UNCHANGED <<active, pc, viaAlias, calls, body, connected, release, leaks>>

(* The upstream call that makes the response answers with a JSON body, which the statistics read to
   its end to record the usage ... *)
AnswerWhole(r, v) ==
  /\ pc[r] = "calling"
  /\ AnswerText(r)
  /\ Use(r, v)
  /\ UNCHANGED <<active, viaAlias, calls, lost, connected, release, leaks>>

(* ... or with a body nobody has read to its end: an error, another type, or JSON that broke off, which
   the statistics ignore ... *)
AnswerUnread(r) ==
  /\ pc[r] = "calling"
  /\ pc' = [pc EXCEPT ![r] = "writing"]
  /\ body' = [body EXCEPT ![r] = "upstream"]
  /\ UNCHANGED <<active, used, aliasUsed, viaAlias, calls, lost, connected, release, leaks>>

(* ... or with a stream, whose usage comes with its end. *)
AnswerStream(r) ==
  /\ pc[r] = "calling"
  /\ pc' = [pc EXCEPT ![r] = "piping"]
  /\ body' = [body EXCEPT ![r] = "stream"]
  /\ UNCHANGED <<active, used, aliasUsed, viaAlias, calls, lost, connected, release, leaks>>

(* The dispatch throws, be it in a transform after the usage was recorded, or the privacy filter does
   when it reads the body: the outer catch answers. *)
Throw(r, v) ==
  /\ pc[r] = "calling"
  /\ AnswerText(r)
  /\ Use(r, v)
  /\ UNCHANGED <<active, viaAlias, calls, lost, connected, release, leaks>>

-----------------------------------------------------------------------------
(* The adapter.                                                            *)

(* The text of the response was read; it is written and the count released. *)
Write(r) ==
  /\ pc[r] = "writing"
  /\ Release(r)
  /\ Close(r)
  /\ UNCHANGED <<used, aliasUsed, viaAlias, lost, leaks>>

(* Reading the text throws: the adapter answers 500, and nothing releases the count. *)
BreakBody(r) ==
  /\ pc[r] = "writing"
  /\ body[r] = "upstream"
  /\ leaks < MaxLeaks
  /\ leaks' = leaks + 1
  /\ release' = [release EXCEPT ![r] = "lost"]
  /\ Close(r)
  /\ UNCHANGED <<active, used, aliasUsed, viaAlias, lost>>

(* The client leaves before there is a response: nobody listens yet. *)
Leave(r) ==
  /\ pc[r] \in {"arrived", "reading", "routing", "calling", "writing"}
  /\ connected[r]
  /\ connected' = [connected EXCEPT ![r] = FALSE]
  /\ UNCHANGED <<active, used, aliasUsed, pc, viaAlias, calls, lost, body, release, leaks>>

(* The connection closes, when the client leaves or after the last byte of the stream. *)
Disconnect(r) ==
  /\ pc[r] \in {"piping", "closing"}
  /\ connected[r]
  /\ Release(r)
  /\ IF pc[r] = "closing"
     THEN Close(r)
     ELSE connected' = [connected EXCEPT ![r] = FALSE] /\ UNCHANGED <<pc, calls, body>>
  /\ UNCHANGED <<used, aliasUsed, viaAlias, lost, leaks>>

(* The stream of the upstream ends, which is read to its end though the client has left, and its usage
   is recorded; or it breaks, and without usage. *)
EndPipe(r, v) ==
  /\ pc[r] = "piping"
  /\ Use(r, v)
  /\ Release(r)
  /\ IF connected[r]
     THEN pc' = [pc EXCEPT ![r] = "closing"] /\ UNCHANGED <<calls, body, connected>>
     ELSE Close(r)
  /\ UNCHANGED <<viaAlias, lost, leaks>>

(* Usage leaves the sliding window of the alias. *)
Slide(total) ==
  /\ aliasUsed' = total
  /\ UNCHANGED <<active, used, requestVars, leaks>>

Progress(r) ==
  \/ AnswerEarly(r) \/ Admit(r) \/ ReadBody(r) \/ AnswerLate(r) \/ Dispatch(r)
  \/ \E v \in Amounts : AnswerStage(r, v) \/ AnswerWhole(r, v) \/ Throw(r, v) \/ EndPipe(r, v)
  \/ AnswerUnread(r) \/ AnswerStream(r)
  \/ Write(r) \/ BreakBody(r)
  \/ pc[r] = "closing" /\ Disconnect(r)

Next ==
  \/ \E r \in Requests :
       \/ \E named \in BOOLEAN : Arrive(r, named)
       \/ Progress(r)
       \/ LosePanelCall(r) \/ \E v \in Amounts : AnswerLost(r, v)
       \/ Leave(r) \/ Disconnect(r)
  \/ \E total \in 0..aliasUsed - 1 : Slide(total)

Spec == Init /\ [][Next]_vars

(* Bodies, authentications, upstream calls and streams end, if only by their time-outs, and so does
   the connection of a response that was written; nobody has to leave early. *)
Fairness == \A r \in Requests : WF_vars(Progress(r))
FairSpec == Spec /\ Fairness
-----------------------------------------------------------------------------
Counted == {r \in Requests : release[r] = "held"}
LargestUse == MaxCalls * Max(Amounts)

TypeOK ==
  /\ active \in Nat /\ used \in Nat /\ aliasUsed \in Nat /\ leaks \in 0..MaxLeaks
  /\ pc \in [Requests -> {"idle", "arrived", "reading", "routing", "calling", "writing", "piping",
                          "closing"}]
  /\ viaAlias \in [Requests -> BOOLEAN]
  /\ calls \in [Requests -> 0..MaxCalls - 1] /\ lost \in [Requests -> 0..MaxCalls - 1]
  /\ body \in [Requests -> {"none", "text", "upstream", "stream"}]
  /\ connected \in [Requests -> BOOLEAN]
  /\ release \in [Requests -> {"none", "held", "spent", "lost"}]
  /\ \A r \in Requests : pc[r] = "idle" => calls[r] = 0 /\ body[r] = "none" /\ connected[r]

(* The counter is the number of counted requests whose response is not out yet, plus those whose body
   broke in the adapter: it is released once, whichever of the end of the pipe, its failure and the
   close of the connection come and in whatever order, and never for a request that a gate turned
   away (incrementActiveRequests, and the paths of server.ts that call the release). *)
CounterAccounts == active = Cardinality(Counted) + leaks

(* Limits are checked when a request is admitted and usage is recorded when it is answered, so requests
   in progress together overshoot: by what the slots may use, and no more, whether the client stays
   for the end of its stream or not and however late a lost panel call answers (the two limit checks of
   index.ts). *)
OvershootBounded ==
  /\ used <= Limit - 1 + LargestUse * Cardinality(Requests)
  /\ aliasUsed <= AliasLimit - 1 + LargestUse * Cardinality(Requests)

(* The counter comes down for every request, on every way through the gates, the dispatch and the
   adapter, with one exception: a body that breaks while the adapter reads it (server.ts). *)
CountIsReleased ==
  \A r \in Requests : release[r] = "held" ~> release[r] \in {"spent", "lost"}

(* The counter is released once the body has streamed or immediately for a response that does not
   stream: the comment in server.ts. *)
ReleasedWithResponse == active <= Cardinality({r \in Requests : pc[r] # "idle"})
=============================================================================
