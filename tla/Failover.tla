------------------------------- MODULE Failover -------------------------------
(***************************************************************************)
(* What the composite dispatch promises a client: a request is sent to one *)
(* candidate after another, to none of them twice, until one answers and   *)
(* its response can be handed over, and it fails only when every candidate *)
(* was tried.                                                              *)
(***************************************************************************)
CONSTANTS Requests, Candidates

VARIABLES
  candidates,  (* request -> the candidates it may be sent to, none when it is not in progress *)
  tried,       (* request -> the candidates that have failed it                                *)
  answering    (* requests a candidate has answered and whose client has no response yet       *)

vars == <<candidates, tried, answering>>

TypeOK ==
  /\ candidates \in [Requests -> SUBSET Candidates]
  /\ tried \in [Requests -> SUBSET Candidates]
  /\ answering \in SUBSET Requests

Init ==
  /\ candidates = [r \in Requests |-> {}]
  /\ tried = [r \in Requests |-> {}]
  /\ answering = {}

Begin(r, cs) ==
  /\ candidates[r] = {}
  /\ cs # {}
  /\ candidates' = [candidates EXCEPT ![r] = cs]
  /\ UNCHANGED <<tried, answering>>

(* The candidate the request is at answers. *)
Receive(r) ==
  /\ candidates[r] # {}
  /\ r \notin answering
  /\ answering' = answering \cup {r}
  /\ UNCHANGED <<candidates, tried>>

(* A candidate fails the request, be it with the response it gave, and the request goes on to one that
   has not been tried. *)
GoOn(r, c) ==
  /\ c \in candidates[r] \ tried[r]
  /\ tried[r] \cup {c} # candidates[r]
  /\ tried' = [tried EXCEPT ![r] = @ \cup {c}]
  /\ answering' = answering \ {r}
  /\ UNCHANGED candidates

Close(r) ==
  /\ candidates' = [candidates EXCEPT ![r] = {}]
  /\ tried' = [tried EXCEPT ![r] = {}]
  /\ answering' = answering \ {r}

(* The response is handed over. *)
Answer(r) ==
  /\ r \in answering
  /\ Close(r)

(* The last candidate fails the request. *)
GiveUp(r, c) ==
  /\ c \in candidates[r] \ tried[r]
  /\ tried[r] \cup {c} = candidates[r]
  /\ Close(r)

Next ==
  \E r \in Requests :
    \/ \E cs \in SUBSET Candidates : Begin(r, cs)
    \/ Receive(r) \/ Answer(r)
    \/ \E c \in Candidates : GoOn(r, c) \/ GiveUp(r, c)

Spec == Init /\ [][Next]_vars
=============================================================================
