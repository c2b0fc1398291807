------------------------ MODULE RequestLifecycleProofs ------------------------
(* Proofs about the life of a request, for any number of requests in progress. *)
EXTENDS RequestLifecycle, FiniteSetTheorems, WellFoundedInduction, TLAPS

(* What the place of a request says about its count: it is held from the increment until the adapter
   is done, a body nobody has read belongs to a request that holds one, and a free slot holds none. *)
Stages ==
  \A r \in Requests :
    /\ pc[r] = "arrived" => release[r] = "none"
    /\ pc[r] \in {"reading", "routing", "calling"} => release[r] = "held"
    /\ body[r] = "upstream" => pc[r] = "writing" /\ release[r] = "held"
    /\ pc[r] \in {"idle", "closing"} => release[r] # "held"
    /\ pc[r] # "idle" => lost[r] <= calls[r]

-----------------------------------------------------------------------------
(* The number of requests that are counted, after one of them starts or stops to be. *)

LEMMA CountedFinite == IsFiniteSet(Counted) /\ Cardinality(Counted) \in Nat
<1>1. IsFiniteSet(Counted)
  BY FS_Subset, LifecycleAssumption DEF Counted
<1>. QED  BY <1>1, FS_CardinalityType

LEMMA CountedGrows ==
  ASSUME TypeOK, NEW r \in Requests, release[r] # "held",
         release' = [release EXCEPT ![r] = "held"]
  PROVE  Cardinality(Counted') = Cardinality(Counted) + 1
<1>1. Counted' = Counted \cup {r} /\ r \notin Counted
  BY DEF Counted, TypeOK
<1>. QED  BY <1>1, CountedFinite, FS_AddElement

LEMMA CountedShrinks ==
  ASSUME TypeOK, NEW r \in Requests, NEW to, to # "held", release[r] = "held",
         release' = [release EXCEPT ![r] = to]
  PROVE  /\ Cardinality(Counted') = Cardinality(Counted) - 1
         /\ Cardinality(Counted) > 0
<1>1. Counted' = Counted \ {r} /\ r \in Counted
  BY DEF Counted, TypeOK
<1>2. Cardinality(Counted \ {r}) = Cardinality(Counted) - 1
  BY <1>1, CountedFinite, FS_RemoveElement
<1>3. Cardinality(Counted \ {r}) \in Nat
  BY CountedFinite, FS_Subset, FS_CardinalityType
<1>. QED  BY <1>1, <1>2, <1>3, CountedFinite

(* A change of a count that is not held to one that is not held changes no number. *)
LEMMA CountedStays ==
  ASSUME TypeOK, NEW r \in Requests, NEW to, to # "held", release[r] # "held",
         release' = [release EXCEPT ![r] = to]
  PROVE  Counted' = Counted
BY DEF Counted, TypeOK

(* The release lowers the counter by one when the request holds its count and does nothing when not. *)
LEMMA ReleaseAccounts ==
  ASSUME TypeOK, CounterAccounts, NEW r \in Requests, Release(r), leaks' = leaks
  PROVE  /\ CounterAccounts' /\ active' \in Nat
         /\ release' = [release EXCEPT ![r] = IF @ = "held" THEN "spent" ELSE @]
<1>1. CASE release[r] = "held"
  <2>1. release' = [release EXCEPT ![r] = "spent"]
    BY <1>1 DEF Release
  <2>2. Cardinality(Counted') = Cardinality(Counted) - 1 /\ Cardinality(Counted) > 0
    BY <1>1, <2>1, CountedShrinks
  <2>3. active > 0
    BY <2>2, CountedFinite DEF CounterAccounts, TypeOK
  <2>4. active' = active - 1
    BY <1>1, <2>3 DEF Release
  <2>. QED  BY <1>1, <2>1, <2>2, <2>3, <2>4, CountedFinite DEF CounterAccounts, TypeOK
<1>2. CASE release[r] # "held"
  <2>1. active' = active /\ release' = release
    BY <1>2 DEF Release, TypeOK
  <2>2. Counted' = Counted
    BY <2>1 DEF Counted
  <2>. QED  BY <1>2, <2>1, <2>2 DEF CounterAccounts, TypeOK
<1>. QED  BY <1>1, <1>2

-----------------------------------------------------------------------------
(* The invariant and its preservation, action by action. *)

Invariant == TypeOK /\ Stages /\ CounterAccounts

LEMMA GateSteps ==
  ASSUME Invariant, NEW r \in Requests,
         \/ \E named \in BOOLEAN : Arrive(r, named)
         \/ AnswerEarly(r) \/ Admit(r) \/ ReadBody(r) \/ AnswerLate(r) \/ Dispatch(r)
  PROVE  Invariant'
<1>. USE LifecycleAssumption
<1>1. ASSUME NEW named \in BOOLEAN, Arrive(r, named)
      PROVE  Invariant'
  <2>1. Counted' = Counted
    BY <1>1, CountedStays DEF Arrive, Invariant, Stages
  <2>2. TypeOK'
    BY <1>1 DEF Arrive, Invariant, TypeOK
  <2>3. Stages'
    BY <1>1 DEF Arrive, Invariant, TypeOK, Stages
  <2>4. CounterAccounts'
    BY <1>1, <2>1 DEF Arrive, Invariant, CounterAccounts
  <2>. QED  BY <2>2, <2>3, <2>4 DEF Invariant
<1>2. CASE AnswerEarly(r)
  <2>1. TypeOK' /\ Stages'
    BY <1>2 DEF AnswerEarly, AnswerText, Invariant, TypeOK, Stages
  <2>2. CounterAccounts'
    BY <1>2 DEF AnswerEarly, Invariant, CounterAccounts, Counted
  <2>. QED  BY <2>1, <2>2 DEF Invariant
<1>3. CASE Admit(r)
  <2>1. CASE OverLimit(used, Limit)
    <3>1. TypeOK' /\ Stages'
      BY <1>3, <2>1 DEF Admit, AnswerText, Invariant, TypeOK, Stages
    <3>2. CounterAccounts'
      BY <1>3, <2>1 DEF Admit, Invariant, CounterAccounts, Counted
    <3>. QED  BY <3>1, <3>2 DEF Invariant
  <2>2. CASE ~OverLimit(used, Limit)
    <3>1. release[r] # "held" /\ release' = [release EXCEPT ![r] = "held"] /\ active' = active + 1
      BY <1>3, <2>2 DEF Admit, Count, Invariant, Stages
    <3>2. Cardinality(Counted') = Cardinality(Counted) + 1
      BY <3>1, CountedGrows DEF Invariant
    <3>3. TypeOK'
      BY <1>3, <2>2, <3>1 DEF Admit, Invariant, TypeOK
    <3>4. Stages'
      BY <1>3, <2>2, <3>1 DEF Admit, Invariant, TypeOK, Stages
    <3>5. CounterAccounts'
      BY <1>3, <3>1, <3>2, CountedFinite DEF Admit, Invariant, CounterAccounts, TypeOK
    <3>. QED  BY <3>3, <3>4, <3>5 DEF Invariant
  <2>. QED  BY <2>1, <2>2
<1>4. CASE ReadBody(r)
  <2>1. TypeOK' /\ Stages'
    BY <1>4 DEF ReadBody, Invariant, TypeOK, Stages
  <2>2. CounterAccounts'
    BY <1>4 DEF ReadBody, Invariant, CounterAccounts, Counted
  <2>. QED  BY <2>1, <2>2 DEF Invariant
<1>5. CASE AnswerLate(r)
  <2>1. TypeOK' /\ Stages'
    BY <1>5 DEF AnswerLate, AnswerText, Invariant, TypeOK, Stages
  <2>2. CounterAccounts'
    BY <1>5 DEF AnswerLate, Invariant, CounterAccounts, Counted
  <2>. QED  BY <2>1, <2>2 DEF Invariant
<1>6. CASE Dispatch(r)
  <2>1. TypeOK' /\ Stages'
    BY <1>6 DEF Dispatch, AnswerText, Invariant, TypeOK, Stages
  <2>2. CounterAccounts'
    BY <1>6 DEF Dispatch, Invariant, CounterAccounts, Counted
  <2>. QED  BY <2>1, <2>2 DEF Invariant
<1>. QED  BY <1>1, <1>2, <1>3, <1>4, <1>5, <1>6

(* The outcomes of the upstream calls leave the counts alone. *)
LEMMA CallSteps ==
  ASSUME Invariant, NEW r \in Requests, NEW v \in Amounts,
         \/ AnswerStage(r, v) \/ LosePanelCall(r) \/ AnswerLost(r, v)
         \/ AnswerWhole(r, v) \/ AnswerUnread(r) \/ AnswerStream(r) \/ Throw(r, v)
  PROVE  Invariant'
<1>. USE LifecycleAssumption
<1>1. v \in Nat
  OBVIOUS
<1>2. CounterAccounts'
  BY DEF AnswerStage, LosePanelCall, AnswerLost, AnswerWhole, AnswerUnread, AnswerStream, Throw,
         Invariant, CounterAccounts, Counted
<1>3. used' \in Nat /\ aliasUsed' \in Nat
  BY <1>1 DEF AnswerStage, LosePanelCall, AnswerLost, AnswerWhole, AnswerUnread, AnswerStream, Throw,
              Use, Invariant, TypeOK
<1>4. CASE AnswerStage(r, v)
  <2>1. TypeOK' /\ Stages'
    BY <1>3, <1>4 DEF AnswerStage, Invariant, TypeOK, Stages
  <2>. QED  BY <1>2, <2>1 DEF Invariant
<1>5. CASE LosePanelCall(r)
  <2>1. lost[r] <= calls[r]
    BY <1>5 DEF LosePanelCall, Invariant, Stages
  <2>2. TypeOK'
    BY <1>3, <1>5, <2>1 DEF LosePanelCall, Invariant, TypeOK
  <2>3. Stages'
    BY <1>5, <2>1 DEF LosePanelCall, Invariant, TypeOK, Stages
  <2>. QED  BY <1>2, <2>2, <2>3 DEF Invariant
<1>6. CASE AnswerLost(r, v)
  <2>1. TypeOK' /\ Stages'
    BY <1>3, <1>6 DEF AnswerLost, Invariant, TypeOK, Stages
  <2>. QED  BY <1>2, <2>1 DEF Invariant
<1>7. CASE AnswerWhole(r, v) \/ Throw(r, v)
  <2>1. TypeOK' /\ Stages'
    BY <1>3, <1>7 DEF AnswerWhole, Throw, AnswerText, Invariant, TypeOK, Stages
  <2>. QED  BY <1>2, <2>1 DEF Invariant
<1>8. CASE AnswerUnread(r)
  <2>1. TypeOK' /\ Stages'
    BY <1>3, <1>8 DEF AnswerUnread, Invariant, TypeOK, Stages
  <2>. QED  BY <1>2, <2>1 DEF Invariant
<1>9. CASE AnswerStream(r)
  <2>1. TypeOK' /\ Stages'
    BY <1>3, <1>9 DEF AnswerStream, Invariant, TypeOK, Stages
  <2>. QED  BY <1>2, <2>1 DEF Invariant
<1>. QED  BY <1>4, <1>5, <1>6, <1>7, <1>8, <1>9

(* What a slot looks like after its request. *)
LEMMA CloseTypes ==
  ASSUME TypeOK, NEW r \in Requests, Close(r)
  PROVE  /\ pc' \in [Requests -> {"idle", "arrived", "reading", "routing", "calling", "writing",
                                  "piping", "closing"}]
         /\ calls' \in [Requests -> 0..MaxCalls - 1]
         /\ body' \in [Requests -> {"none", "text", "upstream", "stream"}]
         /\ connected' \in [Requests -> BOOLEAN]
         /\ \A q \in Requests :
              pc'[q] = "idle" => calls'[q] = 0 /\ body'[q] = "none" /\ connected'[q]
  BY LifecycleAssumption DEF Close, TypeOK

LEMMA AdapterSteps ==
  ASSUME Invariant, NEW r \in Requests,
         \/ Write(r) \/ BreakBody(r) \/ Leave(r) \/ Disconnect(r)
         \/ \E v \in Amounts : EndPipe(r, v)
  PROVE  Invariant'
<1>. USE LifecycleAssumption
<1>. DEFINE spent == [release EXCEPT ![r] = IF @ = "held" THEN "spent" ELSE @]
<1>1. ASSUME Release(r), leaks' = leaks
      PROVE  CounterAccounts' /\ active' \in Nat /\ release' = spent
  BY <1>1, ReleaseAccounts DEF Invariant
<1>2. CASE Write(r)
  <2>1. CounterAccounts' /\ active' \in Nat /\ release' = spent
    BY <1>1, <1>2 DEF Write
  <2>2. TypeOK'
    BY <1>2, <2>1 DEF Write, Close, Invariant, TypeOK
  <2>3. Stages'
    BY <1>2, <2>1 DEF Write, Close, Invariant, TypeOK, Stages
  <2>. QED  BY <2>1, <2>2, <2>3 DEF Invariant
<1>3. CASE BreakBody(r)
  <2>1. release[r] = "held" /\ release' = [release EXCEPT ![r] = "lost"]
    BY <1>3 DEF BreakBody, Invariant, Stages
  <2>2. Cardinality(Counted') = Cardinality(Counted) - 1
    BY <2>1, CountedShrinks DEF Invariant
  <2>3. CounterAccounts'
    BY <1>3, <2>2, CountedFinite DEF BreakBody, Invariant, CounterAccounts, TypeOK
  <2>4. TypeOK'
    BY <1>3 DEF BreakBody, Close, Invariant, TypeOK
  <2>5. Stages'
    BY <1>3 DEF BreakBody, Close, Invariant, TypeOK, Stages
  <2>. QED  BY <2>3, <2>4, <2>5 DEF Invariant
<1>4. CASE Leave(r)
  <2>1. TypeOK' /\ Stages'
    BY <1>4 DEF Leave, Invariant, TypeOK, Stages
  <2>2. CounterAccounts'
    BY <1>4 DEF Leave, Invariant, CounterAccounts, Counted
  <2>. QED  BY <2>1, <2>2 DEF Invariant
<1>5. CASE Disconnect(r)
  <2>1. CounterAccounts' /\ active' \in Nat /\ release' = spent
    BY <1>1, <1>5 DEF Disconnect
  <2>2. TypeOK'
    <3>1. CASE pc[r] = "closing"
      BY <1>5, <2>1, <3>1, CloseTypes DEF Disconnect, Invariant, TypeOK
    <3>2. CASE pc[r] # "closing"
      BY <1>5, <2>1, <3>2 DEF Disconnect, Invariant, TypeOK
    <3>. QED  BY <3>1, <3>2
  <2>3. Stages'
    BY <1>5, <2>1 DEF Disconnect, Close, Invariant, TypeOK, Stages
  <2>. QED  BY <2>1, <2>2, <2>3 DEF Invariant
<1>6. ASSUME NEW v \in Amounts, EndPipe(r, v)
      PROVE  Invariant'
  <2>1. CounterAccounts' /\ active' \in Nat /\ release' = spent
    BY <1>1, <1>6 DEF EndPipe
  <2>2. used' \in Nat /\ aliasUsed' \in Nat
    BY <1>6 DEF EndPipe, Use, Invariant, TypeOK
  <2>3. TypeOK'
    <3>1. CASE ~connected[r]
      BY <1>6, <2>1, <2>2, <3>1, CloseTypes DEF EndPipe, Invariant, TypeOK
    <3>2. CASE connected[r]
      BY <1>6, <2>1, <2>2, <3>2 DEF EndPipe, Invariant, TypeOK
    <3>. QED  BY <3>1, <3>2
  <2>4. Stages'
    BY <1>6, <2>1 DEF EndPipe, Close, Invariant, TypeOK, Stages
  <2>. QED  BY <2>1, <2>3, <2>4 DEF Invariant
<1>. QED  BY <1>2, <1>3, <1>4, <1>5, <1>6

LEMMA InvariantStep ==
  ASSUME Invariant, [Next]_vars
  PROVE  Invariant'
<1>. USE LifecycleAssumption
<1>1. ASSUME NEW total \in 0..aliasUsed - 1, Slide(total)
      PROVE  Invariant'
  <2>1. TypeOK' /\ Stages'
    BY <1>1 DEF Slide, requestVars, Invariant, TypeOK, Stages
  <2>2. CounterAccounts'
    BY <1>1 DEF Slide, requestVars, Invariant, CounterAccounts, Counted
  <2>. QED  BY <2>1, <2>2 DEF Invariant
<1>2. CASE UNCHANGED vars
  <2>1. TypeOK' /\ Stages'
    BY <1>2 DEF vars, requestVars, Invariant, TypeOK, Stages
  <2>2. CounterAccounts'
    BY <1>2 DEF vars, requestVars, Invariant, CounterAccounts, Counted
  <2>. QED  BY <2>1, <2>2 DEF Invariant
<1>3. ASSUME NEW r \in Requests, Progress(r)
      PROVE  Invariant'
  <2>1. 0 \in Amounts
    OBVIOUS
  <2>. QED  BY <1>3, <2>1, GateSteps, CallSteps, AdapterSteps DEF Progress
<1>4. ASSUME NEW r \in Requests,
             \/ \E named \in BOOLEAN : Arrive(r, named)
             \/ LosePanelCall(r) \/ \E v \in Amounts : AnswerLost(r, v)
             \/ Leave(r) \/ Disconnect(r)
      PROVE  Invariant'
  <2>1. 0 \in Amounts
    OBVIOUS
  <2>. QED  BY <1>4, <2>1, GateSteps, CallSteps, AdapterSteps
<1>. QED  BY <1>1, <1>2, <1>3, <1>4 DEF Next

LEMMA InvariantAtStart ==
  ASSUME Init
  PROVE  Invariant
<1>1. Counted = {}
  BY DEF Init, Counted
<1>2. Cardinality(Counted) = 0
  BY <1>1, FS_EmptySet
<1>3. TypeOK /\ Stages
  BY LifecycleAssumption DEF Init, TypeOK, Stages
<1>. QED  BY <1>2, <1>3 DEF Invariant, CounterAccounts, Init

LEMMA InvariantHolds == Spec => []Invariant
<1>1. Init => Invariant
  BY InvariantAtStart
<1>2. Invariant /\ [Next]_vars => Invariant'
  BY InvariantStep
<1>. QED  BY <1>1, <1>2, PTL DEF Spec

(* Every variable keeps its type: in particular the counter never falls below zero, though its guard
   against that is never what keeps it there. *)
THEOREM TypeCorrect == Spec => []TypeOK
BY InvariantHolds, PTL DEF Invariant

(* The counter is the number of requests that hold a count and of those whose body broke in the
   adapter, for any number of requests and in any order of close, abort, end and disconnect. *)
THEOREM CounterIsAccurate == Spec => []CounterAccounts
BY InvariantHolds, PTL DEF Invariant

(* A slot that is free again holds no count: each count was released, or lost with a body that broke
   in the adapter. *)
THEOREM NoCountOutlivesItsRequest == Spec => []Stages
BY InvariantHolds, PTL DEF Invariant

-----------------------------------------------------------------------------
(* The overshoot.  What a request may still use is counted in upstream calls: the lost ones that still
   run and, from the check of its limit on, the ones it may still make; a stream that is piped owes one.
   The calls of all requests together are counted as the set of their units, so that a sum over the
   requests is a cardinality.                                              *)

Due == [r \in Requests |->
          lost[r] + (IF pc[r] \in {"reading", "routing", "calling"} THEN MaxCalls - calls[r]
                     ELSE IF pc[r] = "piping" THEN 1 ELSE 0)]
AliasDue == [r \in Requests |->
               IF viaAlias[r]
               THEN lost[r] + (IF pc[r] = "calling" THEN MaxCalls - calls[r]
                               ELSE IF pc[r] = "piping" THEN 1 ELSE 0)
               ELSE 0]
Units(due) == {u \in Requests \X (1..MaxCalls) : u[2] <= due[u[1]]}

Within(total, due, limit) ==
  total + Max(Amounts) * Cardinality(Units(due))
    <= limit - 1 + LargestUse * Cardinality(Requests)

DuesCovered == Within(used, Due, Limit) /\ Within(aliasUsed, AliasDue, AliasLimit)

(* A finite set of numbers has a largest element: of the sets of larger elements one is minimal. *)
LEMMA LargestAmount ==
  /\ Max(Amounts) \in Nat
  /\ \A v \in Amounts : v <= Max(Amounts)
<1>. DEFINE larger(v) == {w \in Amounts : w > v}
            above == {larger(v) : v \in Amounts}
<1>1. IsFiniteSet(Amounts) /\ Amounts # {} /\ Amounts \subseteq Nat
  BY LifecycleAssumption
<1>2. IsWellFoundedOn(StrictSubsetOrdering(Amounts), SUBSET Amounts)
  BY <1>1, FS_FiniteSubsetsOfFinite, FS_StrictSubsetOrderingWellFounded
<1>3. above \subseteq SUBSET Amounts /\ above # {}
  BY <1>1
<1>. HIDE DEF above
<1>4. \E S \in above : \A T \in above : ~ (<<T, S>> \in StrictSubsetOrdering(Amounts))
  BY <1>2, <1>3, WFMin, Zenon
<1>. USE DEF above
<1>5. PICK m \in Amounts :
        \A v \in Amounts : ~ (<<larger(v), larger(m)>> \in StrictSubsetOrdering(Amounts))
  BY <1>4, Zenon
<1>6. ASSUME NEW v \in Amounts, v > m
      PROVE  FALSE
  <2>1. ASSUME NEW w \in larger(v)
        PROVE  w \in larger(m)
    <3>1. w \in Nat /\ w > v /\ v \in Nat /\ m \in Nat
      BY <1>1, <2>1
    <3>. QED  BY <1>6, <3>1
  <2>2. v \in larger(m) /\ v \notin larger(v)
    BY <1>1, <1>6
  <2>3. larger(v) \subseteq Amounts /\ larger(m) \subseteq Amounts
    OBVIOUS
  <2>. HIDE DEF larger
  <2>4. <<larger(v), larger(m)>> \in StrictSubsetOrdering(Amounts)
    BY <2>1, <2>2, <2>3 DEF StrictSubsetOrdering
  <2>. QED  BY <1>5, <1>6, <2>4
<1>7. \A v \in Amounts : m >= v
  BY <1>1, <1>6
<1>. QED  BY <1>1, <1>7 DEF Max

LEMMA UnitsFinite ==
  ASSUME NEW due \in [Requests -> 0..MaxCalls]
  PROVE  /\ IsFiniteSet(Units(due)) /\ Cardinality(Units(due)) \in Nat
         /\ Cardinality(Requests) \in Nat
         /\ Cardinality(Units(due)) <= Cardinality(Requests) * MaxCalls
<1>. USE LifecycleAssumption
<1>1. IsFiniteSet(1..MaxCalls) /\ Cardinality(1..MaxCalls) = MaxCalls
  BY FS_Interval
<1>2. /\ IsFiniteSet(Requests \X (1..MaxCalls))
      /\ Cardinality(Requests \X (1..MaxCalls)) = Cardinality(Requests) * MaxCalls
  BY <1>1, FS_Product
<1>3. Units(due) \in SUBSET (Requests \X (1..MaxCalls))
  BY DEF Units
<1>. QED  BY <1>2, <1>3, FS_Subset, FS_CardinalityType

(* Dues that do not grow have no more units, and fewer when one of them falls. *)
LEMMA UnitsShrink ==
  ASSUME NEW due \in [Requests -> 0..MaxCalls], NEW next \in [Requests -> 0..MaxCalls],
         \A q \in Requests : next[q] <= due[q]
  PROVE  /\ Cardinality(Units(next)) <= Cardinality(Units(due))
         /\ \A r \in Requests :
              next[r] < due[r] => Cardinality(Units(next)) <= Cardinality(Units(due)) - 1
<1>. USE LifecycleAssumption
<1>1. Units(next) \in SUBSET Units(due)
  BY DEF Units
<1>2. IsFiniteSet(Units(due)) /\ Cardinality(Units(due)) \in Nat /\ Cardinality(Units(next)) \in Nat
  BY UnitsFinite
<1>3. Cardinality(Units(next)) <= Cardinality(Units(due))
  BY <1>1, <1>2, FS_Subset
<1>4. ASSUME NEW r \in Requests, next[r] < due[r]
      PROVE  Cardinality(Units(next)) <= Cardinality(Units(due)) - 1
  <2>1. <<r, due[r]>> \in Units(due) /\ <<r, due[r]>> \notin Units(next)
    BY <1>4 DEF Units
  <2>2. Units(due) # Units(next)
    BY <2>1
  <2>3. Cardinality(Units(due)) # Cardinality(Units(next))
    BY <1>1, <1>2, <2>2, FS_Subset
  <2>. QED  BY <1>2, <1>3, <2>3
<1>. QED  BY <1>3, <1>4

(* A request that was just admitted may use all its calls, and so may every other one. *)
LEMMA WithinAtAdmission ==
  ASSUME NEW due \in [Requests -> 0..MaxCalls], NEW total \in Nat, NEW limit \in Nat, total < limit
  PROVE  Within(total, due, limit)
<1>. DEFINE m == Max(Amounts)
            c == Cardinality(Units(due))
            n == Cardinality(Requests)
<1>1. m \in Nat /\ c \in Nat /\ n \in Nat /\ MaxCalls \in Nat /\ c <= n * MaxCalls
  BY LargestAmount, UnitsFinite, LifecycleAssumption
<1>. HIDE DEF m, c, n
<1>2. m * c <= m * (n * MaxCalls)
  BY <1>1
<1>3. m * (n * MaxCalls) = (MaxCalls * m) * n
  BY <1>1
<1>4. total + m * c <= limit - 1 + (MaxCalls * m) * n
  BY <1>1, <1>2, <1>3
<1>. QED  BY <1>4 DEF Within, LargestUse, m, c, n

(* A usage is paid for by a due that falls. *)
LEMMA WithinKept ==
  ASSUME NEW due \in [Requests -> 0..MaxCalls], NEW next \in [Requests -> 0..MaxCalls],
         \A q \in Requests : next[q] <= due[q],
         NEW total \in Nat, NEW later \in Nat, NEW limit \in Nat,
         \/ later <= total
         \/ \E r \in Requests, v \in Amounts : later <= total + v /\ next[r] < due[r],
         Within(total, due, limit)
  PROVE  Within(later, next, limit)
<1>. DEFINE m == Max(Amounts)
            c == Cardinality(Units(due))
            d == Cardinality(Units(next))
            bound == limit - 1 + LargestUse * Cardinality(Requests)
<1>1. m \in Nat /\ c \in Nat /\ d \in Nat /\ d <= c
  BY LargestAmount, UnitsFinite, UnitsShrink
<1>2. LargestUse \in Nat /\ Cardinality(Requests) \in Nat
  BY LargestAmount, UnitsFinite, LifecycleAssumption DEF LargestUse
<1>3. bound \in Int
  BY <1>2
<1>4. total + m * c <= bound
  BY DEF Within
<1>5. ASSUME NEW r \in Requests, NEW v \in Amounts, later <= total + v, next[r] < due[r]
      PROVE  later <= total + m /\ d <= c - 1
  BY <1>5, LargestAmount, UnitsShrink, LifecycleAssumption
<1>. HIDE DEF m, c, d, bound
<1>6. later + m * d <= bound
  <2>1. CASE later <= total
    <3>1. m * d <= m * c
      BY <1>1
    <3>2. m * d \in Int /\ m * c \in Int
      BY <1>1
    <3>. QED  BY <1>3, <1>4, <2>1, <3>1, <3>2
  <2>2. CASE later <= total + m /\ d <= c - 1
    <3>1. m * d <= m * (c - 1)
      BY <1>1, <2>2
    <3>2. m * (c - 1) = m * c - m
      BY <1>1
    <3>3. m * d \in Int /\ m * c \in Int
      BY <1>1
    <3>. QED  BY <1>1, <1>3, <1>4, <2>2, <3>1, <3>2, <3>3
  <2>. QED  BY <1>5, <2>1, <2>2
<1>. QED  BY <1>6 DEF Within, m, d, bound

LEMMA DueTypes ==
  ASSUME Invariant
  PROVE  Due \in [Requests -> 0..MaxCalls] /\ AliasDue \in [Requests -> 0..MaxCalls]
<1>. SUFFICES ASSUME NEW r \in Requests
              PROVE  Due[r] \in 0..MaxCalls /\ AliasDue[r] \in 0..MaxCalls
  BY DEF Due, AliasDue
<1>1. /\ calls[r] \in 0..MaxCalls - 1 /\ lost[r] \in 0..MaxCalls - 1 /\ viaAlias[r] \in BOOLEAN
      /\ pc[r] # "idle" => lost[r] <= calls[r]
  BY DEF Invariant, TypeOK, Stages
<1>. QED  BY <1>1, LifecycleAssumption DEF Due, AliasDue

LEMMA LaterDueTypes ==
  ASSUME Invariant'
  PROVE  Due' \in [Requests -> 0..MaxCalls] /\ AliasDue' \in [Requests -> 0..MaxCalls]
<1>. SUFFICES ASSUME NEW r \in Requests
              PROVE  Due'[r] \in 0..MaxCalls /\ AliasDue'[r] \in 0..MaxCalls
  BY DEF Due, AliasDue
<1>1. /\ calls'[r] \in 0..MaxCalls - 1 /\ lost'[r] \in 0..MaxCalls - 1
      /\ viaAlias'[r] \in BOOLEAN
      /\ pc'[r] # "idle" => lost'[r] <= calls'[r]
  BY DEF Invariant, TypeOK, Stages
<1>. QED  BY <1>1, LifecycleAssumption DEF Due, AliasDue

(* The dues after a step that keeps the invariant: usage is paid for, and a limit is checked where a due
   begins to count. *)
LEMMA DuesStep ==
  ASSUME Invariant, Invariant', DuesCovered,
         \/ \A q \in Requests : Due'[q] <= Due[q]
         \/ used' < Limit,
         \/ used' <= used
         \/ used' < Limit
         \/ \E r \in Requests, v \in Amounts : used' <= used + v /\ Due'[r] < Due[r],
         \/ \A q \in Requests : AliasDue'[q] <= AliasDue[q]
         \/ aliasUsed' < AliasLimit,
         \/ aliasUsed' <= aliasUsed
         \/ aliasUsed' < AliasLimit
         \/ \E r \in Requests, v \in Amounts :
              aliasUsed' <= aliasUsed + v /\ AliasDue'[r] < AliasDue[r]
  PROVE  DuesCovered'
<1>1. /\ Due \in [Requests -> 0..MaxCalls] /\ AliasDue \in [Requests -> 0..MaxCalls]
      /\ Due' \in [Requests -> 0..MaxCalls] /\ AliasDue' \in [Requests -> 0..MaxCalls]
  BY DueTypes, LaterDueTypes
<1>2. used \in Nat /\ used' \in Nat /\ aliasUsed \in Nat /\ aliasUsed' \in Nat
  BY DEF Invariant, TypeOK
<1>3. Within(used', Due', Limit)
  BY <1>1, <1>2, WithinAtAdmission, WithinKept, LifecycleAssumption DEF DuesCovered
<1>4. Within(aliasUsed', AliasDue', AliasLimit)
  BY <1>1, <1>2, WithinAtAdmission, WithinKept, LifecycleAssumption DEF DuesCovered
<1>. QED  BY <1>3, <1>4 DEF DuesCovered

LEMMA OvershootStep ==
  ASSUME Invariant, Invariant', DuesCovered, [Next]_vars
  PROVE  DuesCovered'
<1>. USE LifecycleAssumption
<1>. DEFINE paid ==
       \E r \in Requests, v \in Amounts :
         /\ used' <= used + v /\ Due'[r] < Due[r]
         /\ \A q \in Requests : Due'[q] <= Due[q]
         /\ \/ aliasUsed' <= aliasUsed /\ ~viaAlias[r]
            \/ aliasUsed' <= aliasUsed + v /\ AliasDue'[r] < AliasDue[r]
         /\ \A q \in Requests : AliasDue'[q] <= AliasDue[q]
     kept ==
       /\ used' <= used /\ aliasUsed' <= aliasUsed
       /\ \A q \in Requests : Due'[q] <= Due[q] /\ AliasDue'[q] <= AliasDue[q]
<1>1. ASSUME paid \/ kept
      PROVE  DuesCovered'
  BY <1>1, DuesStep
<1>2. /\ used \in Nat /\ aliasUsed \in Nat
      /\ calls \in [Requests -> 0..MaxCalls - 1] /\ lost \in [Requests -> 0..MaxCalls - 1]
      /\ viaAlias \in [Requests -> BOOLEAN]
      /\ \A q \in Requests : pc[q] # "idle" => lost[q] <= calls[q]
      /\ pc \in [Requests -> {"idle", "arrived", "reading", "routing", "calling", "writing", "piping",
                              "closing"}]
  BY DEF Invariant, TypeOK, Stages
<1>. HIDE DEF paid, kept
<1>3. CASE UNCHANGED vars
  <2>1. kept
    BY <1>2, <1>3 DEF kept, vars, requestVars, Due, AliasDue
  <2>. QED  BY <1>1, <2>1
<1>4. ASSUME NEW total \in 0..aliasUsed - 1, Slide(total)
      PROVE  DuesCovered'
  <2>1. kept
    BY <1>2, <1>4 DEF kept, Slide, requestVars, Due, AliasDue
  <2>. QED  BY <1>1, <2>1
<1>5. ASSUME NEW r \in Requests, NEW named \in BOOLEAN, Arrive(r, named)
      PROVE  DuesCovered'
  <2>1. kept
    BY <1>2, <1>5 DEF kept, Arrive, Due, AliasDue
  <2>. QED  BY <1>1, <2>1
<1>6. ASSUME NEW r \in Requests, AnswerEarly(r) \/ ReadBody(r) \/ AnswerLate(r)
      PROVE  DuesCovered'
  <2>1. kept
    BY <1>2, <1>6 DEF kept, AnswerEarly, ReadBody, AnswerLate, AnswerText, Due, AliasDue
  <2>. QED  BY <1>1, <2>1
<1>7. ASSUME NEW r \in Requests, Admit(r)
      PROVE  DuesCovered'
  <2>1. CASE OverLimit(used, Limit)
    <3>1. kept
      BY <1>2, <1>7, <2>1 DEF kept, Admit, AnswerText, Due, AliasDue
    <3>. QED  BY <1>1, <3>1
  <2>2. CASE ~OverLimit(used, Limit)
    <3>1. used' < Limit /\ aliasUsed' <= aliasUsed
      BY <1>2, <1>7, <2>2 DEF Admit, OverLimit
    <3>2. \A q \in Requests : AliasDue'[q] <= AliasDue[q]
      BY <1>2, <1>7, <2>2 DEF Admit, Count, AliasDue
    <3>. QED  BY <3>1, <3>2, DuesStep
  <2>. QED  BY <2>1, <2>2
<1>8. ASSUME NEW r \in Requests, Dispatch(r)
      PROVE  DuesCovered'
  <2>1. CASE viaAlias[r] /\ ~OverLimit(aliasUsed, AliasLimit)
    <3>1. used' <= used /\ aliasUsed' < AliasLimit
      BY <1>2, <1>8, <2>1 DEF Dispatch, OverLimit
    <3>2. \A q \in Requests : Due'[q] <= Due[q]
      BY <1>2, <1>8, <2>1 DEF Dispatch, Due
    <3>. QED  BY <3>1, <3>2, DuesStep
  <2>2. CASE ~ (viaAlias[r] /\ ~OverLimit(aliasUsed, AliasLimit))
    <3>1. kept
      BY <1>2, <1>8, <2>2 DEF kept, Dispatch, AnswerText, Due, AliasDue
    <3>. QED  BY <1>1, <3>1
  <2>. QED  BY <2>1, <2>2
<1>9. ASSUME NEW r \in Requests, LosePanelCall(r) \/ AnswerUnread(r) \/ AnswerStream(r)
      PROVE  DuesCovered'
  <2>1. kept
    BY <1>2, <1>9 DEF kept, LosePanelCall, AnswerUnread, AnswerStream, Due, AliasDue
  <2>. QED  BY <1>1, <2>1
<1>10. ASSUME NEW r \in Requests, Write(r) \/ BreakBody(r) \/ Leave(r) \/ Disconnect(r)
       PROVE  DuesCovered'
  <2>1. CASE Write(r) \/ BreakBody(r)
    <3>1. kept
      BY <1>2, <2>1 DEF kept, Write, BreakBody, Close, Due, AliasDue
    <3>. QED  BY <1>1, <3>1
  <2>2. CASE Leave(r) \/ Disconnect(r)
    <3>1. kept
      BY <1>2, <2>2 DEF kept, Leave, Disconnect, Close, Due, AliasDue
    <3>. QED  BY <1>1, <3>1
  <2>. QED  BY <1>10, <2>1, <2>2
<1>11. ASSUME NEW r \in Requests, NEW v \in Amounts,
              \/ AnswerStage(r, v) \/ AnswerLost(r, v) \/ AnswerWhole(r, v) \/ Throw(r, v)
              \/ EndPipe(r, v)
       PROVE  DuesCovered'
  <2>1. /\ used' = used + v /\ v \in Nat
        /\ aliasUsed' = IF viaAlias[r] THEN aliasUsed + v ELSE aliasUsed
    BY <1>11 DEF AnswerStage, AnswerLost, AnswerWhole, Throw, EndPipe, Use
  <2>2. /\ Due'[r] < Due[r]
        /\ viaAlias[r] => AliasDue'[r] < AliasDue[r]
        /\ \A q \in Requests : Due'[q] <= Due[q] /\ AliasDue'[q] <= AliasDue[q]
    <3>1. CASE AnswerStage(r, v)
      BY <1>2, <3>1 DEF AnswerStage, Due, AliasDue
    <3>2. CASE AnswerLost(r, v)
      BY <1>2, <3>2 DEF AnswerLost, Due, AliasDue
    <3>3. CASE AnswerWhole(r, v) \/ Throw(r, v)
      BY <1>2, <3>3 DEF AnswerWhole, Throw, AnswerText, Due, AliasDue
    <3>4. CASE EndPipe(r, v)
      BY <1>2, <3>4 DEF EndPipe, Close, Due, AliasDue
    <3>. QED  BY <1>11, <3>1, <3>2, <3>3, <3>4
  <2>3. \/ aliasUsed' <= aliasUsed /\ ~viaAlias[r]
        \/ aliasUsed' <= aliasUsed + v /\ AliasDue'[r] < AliasDue[r]
    <3>1. CASE viaAlias[r]
      BY <1>2, <2>1, <2>2, <3>1
    <3>2. CASE ~viaAlias[r]
      BY <1>2, <2>1, <3>2
    <3>. QED  BY <3>1, <3>2
  <2>4. used' <= used + v
    BY <1>2, <2>1
  <2>5. paid
    BY <2>2, <2>3, <2>4 DEF paid
  <2>. QED  BY <1>1, <2>5
<1>12. ASSUME NEW r \in Requests, Progress(r)
       PROVE  DuesCovered'
  BY <1>6, <1>7, <1>8, <1>9, <1>10, <1>11, <1>12 DEF Progress
<1>13. ASSUME NEW r \in Requests,
              \/ \E named \in BOOLEAN : Arrive(r, named)
              \/ LosePanelCall(r) \/ \E v \in Amounts : AnswerLost(r, v)
              \/ Leave(r) \/ Disconnect(r)
       PROVE  DuesCovered'
  BY <1>5, <1>9, <1>10, <1>11, <1>13
<1>. QED  BY <1>3, <1>4, <1>12, <1>13 DEF Next

LEMMA DuesAlwaysCovered == Spec => [](Invariant /\ DuesCovered)
<1>1. Init => Invariant /\ DuesCovered
  <2>. SUFFICES ASSUME Init
                PROVE  DuesCovered
    BY InvariantAtStart
  <2>1. Due \in [Requests -> 0..MaxCalls] /\ AliasDue \in [Requests -> 0..MaxCalls]
    BY InvariantAtStart, DueTypes
  <2>. QED  BY <2>1, WithinAtAdmission, LifecycleAssumption DEF Init, DuesCovered
<1>2. Invariant /\ DuesCovered /\ [Next]_vars => (Invariant /\ DuesCovered)'
  BY InvariantStep, OvershootStep
<1>. QED  BY <1>1, <1>2, PTL DEF Spec

(* However many requests are in progress, the usage in either window stays below its limit plus what
   all the slots together may use, and lost panel calls and abandoned streams are in that. *)
THEOREM OvershootHolds == Spec => []OvershootBounded
<1>1. Invariant /\ DuesCovered => OvershootBounded
  <2>. SUFFICES ASSUME Invariant, DuesCovered
                PROVE  OvershootBounded
    OBVIOUS
  <2>1. /\ Max(Amounts) * Cardinality(Units(Due)) \in Nat
        /\ Max(Amounts) * Cardinality(Units(AliasDue)) \in Nat
    BY DueTypes, UnitsFinite, LargestAmount
  <2>2. LargestUse * Cardinality(Requests) \in Nat
    BY DueTypes, UnitsFinite, LargestAmount, LifecycleAssumption DEF LargestUse
  <2>. QED
    BY <2>1, <2>2, LifecycleAssumption DEF DuesCovered, Within, OvershootBounded, Invariant, TypeOK
<1>. QED  BY <1>1, DuesAlwaysCovered, PTL
=============================================================================
