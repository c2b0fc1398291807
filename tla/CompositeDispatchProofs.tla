----------------------- MODULE CompositeDispatchProofs -----------------------
(* Proofs about the composite dispatch, for any number of requests, targets and configurations. *)
EXTENDS CompositeDispatch, FiniteSetTheorems, TLAPS

-----------------------------------------------------------------------------
(* The numbers of candidates and the shares of a configuration. *)

LEMMA EligibleCount ==
  ASSUME NEW c \in Configs
  PROVE  Cardinality(Eligible(c)) \in Nat \ {0}
<1>1. IsFiniteSet(Eligible(c))
  BY FS_Subset, DispatchAssumption DEF Eligible
<1>2. Eligible(c) # {}
  BY DispatchAssumption DEF Eligible
<1>. QED  BY <1>1, <1>2, FS_CardinalityType, FS_EmptySet

LEMMA EligibleShare ==
  ASSUME NEW c \in Configs, NEW t \in Eligible(c)
  PROVE  /\ t \in Targets
         /\ ShareOf[c][t] \in 40..MaxShare
         /\ ShareOf[c][t] \div 10 \in 4..ShareOf[c][t]
         /\ ShareOf[c][t] \div 10 < ShareOf[c][t]
<1>1. t \in Targets /\ ShareOf[c][t] \in Nat \ {0} /\ ShareOf[c][t] % 40 = 0
  BY DispatchAssumption DEF Eligible
<1>2. ShareOf[c][t] <= MaxShare /\ MaxShare \in Nat
  BY <1>1, DispatchAssumption
<1>. QED  BY <1>1, <1>2

(* Decay and recovery keep a share between the smallest floor and the largest share; a decay of a
   share that is not above the configured one leaves it below. *)
LEMMA ShareSteps ==
  ASSUME NEW share \in 40..MaxShare, NEW previous \in 4..MaxShare, MaxShare \in Nat
  PROVE  /\ Decayed(share, previous) \in 4..MaxShare
         /\ Recovered(share, previous) \in 4..MaxShare
         /\ previous <= share => Decayed(share, previous) < share
         /\ Recovered(share, previous) <= share
  BY DEF Decayed, Recovered, Larger, Smaller

(* The candidate a request is at is an eligible target of the configuration it started with. *)
LEMMA CurrentEligible ==
  ASSUME TypeOK, NEW r \in Requests, pc[r] # "idle"
  PROVE  /\ seen[r] \in Configs
         /\ Current(r) \in Eligible(seen[r])
         /\ Current(r) \in Targets
  BY EligibleShare DEF TypeOK, Current

LEMMA LastCandidate ==
  ASSUME TypeOK, NEW r \in Requests, pc[r] # "idle"
  PROVE  /\ DOMAIN plan[r] = 1..Cardinality(Eligible(seen[r]))
         /\ at[r] \in Nat
         /\ Cardinality(DOMAIN plan[r]) = Cardinality(Eligible(seen[r]))
         /\ Last(r) <=> at[r] = Cardinality(Eligible(seen[r]))
         /\ ~Last(r) => at[r] + 1 \in DOMAIN plan[r]
<1>1. seen[r] \in Configs /\ DOMAIN plan[r] = 1..Cardinality(Eligible(seen[r])) /\ at[r] \in DOMAIN plan[r]
  BY DEF TypeOK
<1>2. Cardinality(Eligible(seen[r])) \in Nat \ {0}
  BY <1>1, EligibleCount
<1>3. Cardinality(1..Cardinality(Eligible(seen[r]))) = Cardinality(Eligible(seen[r]))
  BY <1>2, FS_Interval
<1>. QED  BY <1>1, <1>2, <1>3 DEF Last

-----------------------------------------------------------------------------
(* Type correctness. *)

LEMMA StepTypes ==
  ASSUME TypeOK, [Next]_vars
  PROVE  TypeOK'
<1>. USE DispatchAssumption
<1>0. MaxReloads \in Nat
  OBVIOUS
<1>1. ASSUME NEW r \in Requests, NEW o \in Orders(config), Start(r, o)
      PROVE  TypeOK'
  <2>1. o \in [1..Cardinality(Eligible(config)) -> Eligible(config)]
    BY DEF Orders
  <2>2. 1 \in DOMAIN o
    BY <2>1, EligibleCount DEF TypeOK
  <2>. QED  BY <1>1, <2>1, <2>2 DEF TypeOK, Start
<1>2. ASSUME NEW r \in Requests, NEW status \in {"ok", "error"}, UpstreamAnswers(r, status)
      PROVE  TypeOK'
  <2>1. Current(r) \in Targets /\ seen[r] \in Configs
    BY <1>2, CurrentEligible DEF UpstreamAnswers
  <2>2. EffectiveShare(seen[r], Current(r)) \in Nat
    BY <2>1 DEF TypeOK, EffectiveShare
  <2>3. Recovered(ShareOf[seen[r]][Current(r)], EffectiveShare(seen[r], Current(r))) \in Nat
    BY <2>1, <2>2 DEF Recovered, Smaller
  <2>4. effective' \in [Targets -> Nat]
    BY <1>2, <2>3 DEF TypeOK, UpstreamAnswers, RecoverShare
  <2>. QED  BY <1>2, <2>4 DEF TypeOK, UpstreamAnswers
<1>3. ASSUME NEW r \in Requests, Deliver(r)
      PROVE  TypeOK'
  BY <1>3 DEF TypeOK, Deliver, Close
<1>4. ASSUME NEW r \in Requests, NEW classified \in BOOLEAN, CatchError(r, classified)
      PROVE  TypeOK'
  <2>1. Current(r) \in Targets /\ seen[r] \in Configs
    BY <1>4, CurrentEligible DEF CatchError
  <2>2. EffectiveShare(seen[r], Current(r)) \in Nat
    BY <2>1 DEF TypeOK, EffectiveShare
  <2>3. Decayed(ShareOf[seen[r]][Current(r)], EffectiveShare(seen[r], Current(r))) \in Nat
    BY <2>1, <2>2 DEF Decayed, Larger
  <2>4. effective' \in [Targets -> Nat]
    BY <1>4, <2>3 DEF TypeOK, CatchError, DecayShare
  <2>5. CASE Last(r)
    <3>1. /\ pc' = [pc EXCEPT ![r] = "idle"]
          /\ seen' = [seen EXCEPT ![r] = NoConfig]
          /\ plan' = [plan EXCEPT ![r] = <<>>]
          /\ at' = [at EXCEPT ![r] = 0]
          /\ UNCHANGED <<config, reloads>>
      BY <1>4, <2>5 DEF CatchError, Close
    <3>. HIDE DispatchAssumption
    <3>. QED  BY <2>4, <3>1 DEF TypeOK
  <2>6. CASE ~Last(r)
    <3>1. at[r] + 1 \in DOMAIN plan[r]
      BY <1>4, <2>6, LastCandidate DEF CatchError
    <3>. QED  BY <1>4, <2>4, <2>6, <3>1 DEF TypeOK, CatchError
  <2>. QED  BY <2>5, <2>6
<1>5. ASSUME NEW c \in Configs, Reload(c)
      PROVE  TypeOK'
  <2>1. reloads' \in 0..MaxReloads
    <3>. HIDE DispatchAssumption
    <3>. QED  BY <1>0, <1>5 DEF TypeOK, Reload
  <2>2. UNCHANGED <<effective, pc, seen, plan, at>> /\ config' \in Configs
    BY <1>5 DEF Reload, requestVars
  <2>. QED  BY <2>1, <2>2 DEF TypeOK
<1>6. CASE UNCHANGED vars
  BY <1>6 DEF TypeOK, vars, requestVars
<1>. QED  BY <1>1, <1>2, <1>3, <1>4, <1>5, <1>6 DEF Next

(* Every variable keeps its type: in particular the candidate a request is at exists. *)
THEOREM TypeCorrect == Spec => []TypeOK
<1>1. Init => TypeOK
  BY DispatchAssumption DEF Init, TypeOK
<1>2. TypeOK /\ [Next]_vars => TypeOK'
  BY StepTypes
<1>. QED  BY <1>1, <1>2, PTL DEF Spec

-----------------------------------------------------------------------------
(* Shares. *)

LEMMA PreviousShare ==
  ASSUME TypeOK, SharesBounded, NEW c \in Configs, NEW t \in Eligible(c)
  PROVE  EffectiveShare(c, t) \in 4..MaxShare
<1>1. t \in Targets /\ ShareOf[c][t] \in 40..MaxShare
  BY EligibleShare
<1>2. effective[t] = 0 \/ effective[t] \in 4..MaxShare
  BY <1>1 DEF SharesBounded
<1>. QED  BY <1>1, <1>2, DispatchAssumption DEF EffectiveShare

LEMMA StepShares ==
  ASSUME TypeOK, SharesBounded, [Next]_vars
  PROVE  SharesBounded'
<1>1. ASSUME NEW r \in Requests, NEW status \in {"ok", "error"}, UpstreamAnswers(r, status)
      PROVE  SharesBounded'
  <2>. DEFINE c == seen[r]
              t == Current(r)
  <2>1. c \in Configs /\ t \in Eligible(c) /\ t \in Targets
    BY <1>1, CurrentEligible DEF UpstreamAnswers
  <2>2. Recovered(ShareOf[c][t], EffectiveShare(c, t)) \in 4..MaxShare
    BY <2>1, EligibleShare, PreviousShare, ShareSteps, DispatchAssumption
  <2>3. \A u \in Targets : effective'[u] = effective[u] \/ effective'[u] \in 4..MaxShare
    BY <1>1, <2>2 DEF UpstreamAnswers, RecoverShare, TypeOK
  <2>. QED  BY <2>3 DEF SharesBounded
<1>2. ASSUME NEW r \in Requests, NEW classified \in BOOLEAN, CatchError(r, classified)
      PROVE  SharesBounded'
  <2>. DEFINE c == seen[r]
              t == Current(r)
  <2>1. c \in Configs /\ t \in Eligible(c) /\ t \in Targets
    BY <1>2, CurrentEligible DEF CatchError
  <2>2. Decayed(ShareOf[c][t], EffectiveShare(c, t)) \in 4..MaxShare
    BY <2>1, EligibleShare, PreviousShare, ShareSteps, DispatchAssumption
  <2>3. \A u \in Targets : effective'[u] = effective[u] \/ effective'[u] \in 4..MaxShare
    BY <1>2, <2>2 DEF CatchError, DecayShare, TypeOK
  <2>. QED  BY <2>3 DEF SharesBounded
<1>3. CASE UNCHANGED effective
  BY <1>3 DEF SharesBounded
<1>. QED  BY <1>1, <1>2, <1>3 DEF Next, Start, Deliver, Reload, vars

(* No sequence of failures, recoveries and reloads starves a target or lifts it above the largest
   share that is configured. *)
THEOREM SharesStayBounded == Spec => []SharesBounded
<1>1. Init => SharesBounded
  BY DEF Init, SharesBounded
<1>2. TypeOK /\ SharesBounded /\ [Next]_vars => SharesBounded'
  BY StepShares
<1>. QED  BY <1>1, <1>2, TypeCorrect, PTL DEF Spec

-----------------------------------------------------------------------------
(* Demotion.  Before the first reload every request in flight started with the configuration that
   is still in force, and no share is above the configured one. *)

NoReloadInv ==
  reloads = 0 =>
    /\ \A r \in Requests : seen[r] \in {config, NoConfig}
    /\ \A t \in Targets : effective[t] <= ShareOf[config][t]

LEMMA StepNoReload ==
  ASSUME TypeOK, SharesBounded, NoReloadInv, [Next]_vars
  PROVE  NoReloadInv'
<1>. SUFFICES ASSUME reloads' = 0
              PROVE  /\ \A r \in Requests : seen'[r] \in {config', NoConfig}
                     /\ \A t \in Targets : effective'[t] <= ShareOf[config'][t]
  BY DEF NoReloadInv
<1>1. reloads = 0 /\ config' = config
  BY DEF Next, Start, UpstreamAnswers, Deliver, CatchError, Reload, vars, TypeOK
<1>2. /\ \A r \in Requests : seen[r] \in {config, NoConfig}
      /\ \A t \in Targets : effective[t] <= ShareOf[config][t]
  BY <1>1 DEF NoReloadInv
<1>3. \A r \in Requests : seen'[r] \in {config, NoConfig}
  BY <1>1, <1>2 DEF Next, Start, UpstreamAnswers, Deliver, CatchError, Close, Reload, vars,
                    requestVars, TypeOK
<1>4. ASSUME NEW r \in Requests, pc[r] # "idle"
      PROVE  /\ seen[r] = config
             /\ Current(r) \in Eligible(config) /\ Current(r) \in Targets
             /\ EffectiveShare(config, Current(r)) \in 4..MaxShare
             /\ EffectiveShare(config, Current(r)) <= ShareOf[config][Current(r)]
             /\ ShareOf[config][Current(r)] \in 40..MaxShare
  <2>1. seen[r] = config /\ Current(r) \in Eligible(config) /\ Current(r) \in Targets
    BY <1>2, <1>4, CurrentEligible, DispatchAssumption
  <2>2. EffectiveShare(config, Current(r)) \in 4..MaxShare
    BY <2>1, PreviousShare DEF TypeOK
  <2>3. ShareOf[config][Current(r)] \in 40..MaxShare
    BY <2>1, EligibleShare DEF TypeOK
  <2>. QED  BY <1>2, <2>1, <2>2, <2>3 DEF EffectiveShare
<1>5. ASSUME NEW r \in Requests, NEW status \in {"ok", "error"}, UpstreamAnswers(r, status)
      PROVE  \A t \in Targets : effective'[t] <= ShareOf[config][t]
  <2>1. Recovered(ShareOf[config][Current(r)], EffectiveShare(config, Current(r)))
          <= ShareOf[config][Current(r)]
    BY <1>4, <1>5, ShareSteps, DispatchAssumption DEF UpstreamAnswers
  <2>. QED  BY <1>2, <1>4, <1>5, <2>1 DEF UpstreamAnswers, RecoverShare, TypeOK
<1>6. ASSUME NEW r \in Requests, NEW classified \in BOOLEAN, CatchError(r, classified)
      PROVE  \A t \in Targets : effective'[t] <= ShareOf[config][t]
  <2>1. /\ Decayed(ShareOf[config][Current(r)], EffectiveShare(config, Current(r)))
             < ShareOf[config][Current(r)]
        /\ Decayed(ShareOf[config][Current(r)], EffectiveShare(config, Current(r))) \in 4..MaxShare
    BY <1>4, <1>6, ShareSteps, DispatchAssumption DEF CatchError
  <2>2. Decayed(ShareOf[config][Current(r)], EffectiveShare(config, Current(r)))
          <= ShareOf[config][Current(r)]
    BY <1>4, <1>6, <2>1, DispatchAssumption DEF CatchError
  <2>. QED  BY <1>2, <1>4, <1>6, <2>2 DEF CatchError, DecayShare, TypeOK
<1>7. ASSUME UNCHANGED effective
      PROVE  \A t \in Targets : effective'[t] <= ShareOf[config][t]
  BY <1>2, <1>7
<1>8. \A t \in Targets : effective'[t] <= ShareOf[config][t]
  <2>1. \/ UNCHANGED effective
        \/ \E r \in Requests, status \in {"ok", "error"} : UpstreamAnswers(r, status)
        \/ \E r \in Requests, classified \in BOOLEAN : CatchError(r, classified)
    BY DEF Next, Start, Deliver, Reload, vars
  <2>. QED  BY <1>5, <1>6, <1>7, <2>1
<1>. QED  BY <1>1, <1>3, <1>8

THEOREM NoShareAboveConfigured == Spec => []NoReloadInv
<1>1. Init => NoReloadInv
  BY DispatchAssumption DEF Init, NoReloadInv
<1>2. TypeOK /\ SharesBounded /\ NoReloadInv /\ [Next]_vars => NoReloadInv'
  BY StepNoReload
<1>. QED  BY <1>1, <1>2, TypeCorrect, SharesStayBounded, PTL DEF Spec

(* What the catch of the loop does to the share of the candidate that failed. *)
LEMMA CatchDemotes ==
  ASSUME TypeOK, SharesBounded, NoReloadInv, reloads' = 0, NEW r \in Requests, NEW t \in Targets,
         CatchError(r, TRUE), Current(r) = t, Prioritized(config, t)
  PROVE  Degraded(config, t)'
<1>. DEFINE next == Decayed(ShareOf[config][t], EffectiveShare(config, t))
<1>1. reloads = 0 /\ config' = config /\ seen[r] \in {config, NoConfig} /\ pc[r] # "idle"
  BY DEF CatchError, NoReloadInv
<1>2. seen[r] = config /\ t \in Eligible(config) /\ config \in Configs
  BY <1>1, CurrentEligible, DispatchAssumption DEF TypeOK
<1>3. EffectiveShare(config, t) \in 4..MaxShare /\ ShareOf[config][t] \in 40..MaxShare
  BY <1>2, PreviousShare, EligibleShare
<1>4. EffectiveShare(config, t) <= ShareOf[config][t]
  BY <1>1, <1>2, <1>3 DEF NoReloadInv, EffectiveShare
<1>5. next \in 4..MaxShare /\ next < ShareOf[config][t]
  BY <1>3, <1>4, ShareSteps, DispatchAssumption
<1>6. effective' = [effective EXCEPT ![t] = next]
  BY <1>2 DEF CatchError, DecayShare
<1>7. effective'[t] = next
  BY <1>6 DEF TypeOK
<1>8. next # 0
  BY <1>5
<1>. HIDE DEF next
<1>9. (IF effective'[t] = 0 THEN ShareOf[config'][t] ELSE effective'[t]) < ShareOf[config'][t]
  BY <1>1, <1>5, <1>7, <1>8
<1>. QED  BY <1>9 DEF Degraded, EffectiveShare

(* Only an answer takes a demoted target back to its configured share. *)
LEMMA OnlyAnswersRestore ==
  ASSUME TypeOK, SharesBounded, NoReloadInv, [Next]_vars, reloads' = 0,
         NEW t \in Targets, Degraded(config, t), ~Degraded(config, t)'
  PROVE  \E r \in Requests, status \in {"ok", "error"} : UpstreamAnswers(r, status) /\ Current(r) = t
<1>1. config' = config /\ reloads = 0
  BY DEF Next, Start, UpstreamAnswers, Deliver, CatchError, Reload, vars, TypeOK
<1>2. effective'[t] # effective[t]
  BY <1>1 DEF Degraded, EffectiveShare
<1>3. ASSUME NEW r \in Requests, NEW status \in {"ok", "error"}, UpstreamAnswers(r, status)
      PROVE  Current(r) = t
  BY <1>2, <1>3 DEF UpstreamAnswers, RecoverShare, TypeOK
<1>4. ASSUME NEW r \in Requests, NEW classified \in BOOLEAN, CatchError(r, classified)
      PROVE  FALSE
  <2>1. pc[r] # "idle" /\ seen[r] \in {config, NoConfig}
    BY <1>1, <1>4 DEF CatchError, NoReloadInv
  <2>2. seen[r] = config
    BY <2>1, CurrentEligible, DispatchAssumption
  <2>3. classified = TRUE /\ Current(r) = t /\ Prioritized(config, t)
    BY <1>2, <1>4, <2>2 DEF CatchError, DecayShare, TypeOK
  <2>. QED  BY <1>4, <2>3, CatchDemotes
<1>5. \/ \E r \in Requests, status \in {"ok", "error"} : UpstreamAnswers(r, status)
      \/ \E r \in Requests, classified \in BOOLEAN : CatchError(r, classified)
  BY <1>2 DEF Next, Start, Deliver, Reload, vars
<1>. QED  BY <1>3, <1>4, <1>5

(* Before the first reload a failure demotes the target that failed, and only an answer of that
   target promotes it again. *)
THEOREM FailureDemotesTarget == Spec => FailureDemotes
<1>. DEFINE Demotes ==
       reloads' = 0 =>
         \A t \in Targets :
           /\ (\E r \in Requests : CatchError(r, TRUE) /\ Current(r) = t /\ Prioritized(config, t))
                => Degraded(config, t)'
           /\ Degraded(config, t) /\ ~Degraded(config, t)'
                => \E r \in Requests, status \in {"ok", "error"} :
                     UpstreamAnswers(r, status) /\ Current(r) = t
<1>1. TypeOK /\ SharesBounded /\ NoReloadInv /\ [Next]_vars => Demotes
  BY CatchDemotes, OnlyAnswersRestore
<1>. HIDE DEF Demotes
<1>2. TypeOK /\ SharesBounded /\ NoReloadInv /\ [Next]_vars => [Demotes]_vars
  BY <1>1
<1>3. Spec => [][Demotes]_vars
  BY <1>2, TypeCorrect, SharesStayBounded, NoShareAboveConfigured, PTL DEF Spec
<1>. QED  BY <1>3 DEF FailureDemotes, Demotes

-----------------------------------------------------------------------------
(* The dispatch implements the failover.  A plan names no target twice, which the mapping needs: the
   candidate a request is at has not been tried. *)

PlansInjective ==
  \A r \in Requests : \A i, j \in DOMAIN plan[r] : plan[r][i] = plan[r][j] => i = j

LEMMA StepPlans ==
  ASSUME PlansInjective, TypeOK, [Next]_vars
  PROVE  PlansInjective'
<1>1. ASSUME NEW r \in Requests, NEW o \in Orders(config), plan' = [plan EXCEPT ![r] = o]
      PROVE  PlansInjective'
  BY <1>1 DEF PlansInjective, TypeOK, Orders
<1>2. ASSUME NEW r \in Requests, plan' = [plan EXCEPT ![r] = <<>>]
      PROVE  PlansInjective'
  BY <1>2 DEF PlansInjective, TypeOK
<1>3. ASSUME UNCHANGED plan
      PROVE  PlansInjective'
  BY <1>3 DEF PlansInjective
<1>4. \/ \E r \in Requests, o \in Orders(config) : plan' = [plan EXCEPT ![r] = o]
      \/ \E r \in Requests : plan' = [plan EXCEPT ![r] = <<>>]
      \/ UNCHANGED plan
  BY DEF Next, Start, UpstreamAnswers, Deliver, CatchError, Close, Reload, vars, requestVars
<1>. QED  BY <1>1, <1>2, <1>3, <1>4

LEMMA PlansAreInjective == Spec => []PlansInjective
<1>1. Init => PlansInjective
  BY DEF Init, PlansInjective
<1>2. PlansInjective /\ TypeOK /\ [Next]_vars => PlansInjective'
  BY StepPlans
<1>. QED  BY <1>1, <1>2, TypeCorrect, PTL DEF Spec

(* The abstract state of a request: the targets of its plan, those before the one it is at, and
   whether one has answered it. *)
Planned(r) == {plan[r][k] : k \in DOMAIN plan[r]}
TriedBefore(r) == {plan[r][k] : k \in {j \in DOMAIN plan[r] : j < at[r]}}
candidates == [r \in Requests |-> Planned(r)]
tried == [r \in Requests |-> TriedBefore(r)]
answering == {r \in Requests : pc[r] = "restoring"}

LEMMA CurrentUntried ==
  ASSUME TypeOK, PlansInjective, NEW r \in Requests, pc[r] # "idle"
  PROVE  /\ Current(r) \in Planned(r) \ TriedBefore(r)
         /\ Last(r) => TriedBefore(r) \cup {Current(r)} = Planned(r)
         /\ ~Last(r) => TriedBefore(r) \cup {Current(r)} # Planned(r)
<1>. DEFINE n == Cardinality(Eligible(seen[r]))
<1>1. /\ DOMAIN plan[r] = 1..n /\ at[r] \in 1..n
      /\ Last(r) <=> at[r] = n
      /\ ~Last(r) => at[r] + 1 \in 1..n
  BY LastCandidate DEF TypeOK
<1>2. n \in Nat
  BY CurrentEligible, EligibleCount
<1>3. \A i, j \in 1..n : plan[r][i] = plan[r][j] => i = j
  BY <1>1 DEF PlansInjective
<1>. HIDE DEF n
<1>4. Current(r) \in Planned(r) \ TriedBefore(r)
  BY <1>1, <1>2, <1>3 DEF Current, Planned, TriedBefore
<1>5. ASSUME Last(r)
      PROVE  TriedBefore(r) \cup {Current(r)} = Planned(r)
  BY <1>1, <1>2, <1>5 DEF Current, Planned, TriedBefore
<1>6. ASSUME ~Last(r)
      PROVE  TriedBefore(r) \cup {Current(r)} # Planned(r)
  <2>1. plan[r][at[r] + 1] \in Planned(r)
    BY <1>1, <1>6 DEF Planned
  <2>2. plan[r][at[r] + 1] # Current(r)
    BY <1>1, <1>2, <1>3, <1>6 DEF Current
  <2>3. plan[r][at[r] + 1] \notin TriedBefore(r)
    BY <1>1, <1>2, <1>3, <1>6 DEF TriedBefore
  <2>. QED  BY <2>1, <2>2, <2>3
<1>. QED  BY <1>4, <1>5, <1>6

LEMMA IdleHasNoPlan ==
  ASSUME TypeOK, NEW r \in Requests, pc[r] = "idle"
  PROVE  Planned(r) = {} /\ TriedBefore(r) = {}
  BY DEF TypeOK, Planned, TriedBefore

LEMMA InitRefines == Init => Abstract!Init
  BY DEF Init, Abstract!Init

(* A request begins: its candidates are the eligible targets, none of them tried. *)
LEMMA StartRefines ==
  ASSUME TypeOK, NEW r \in Requests, NEW o \in Orders(config), Start(r, o),
         NEW cs, cs = Eligible(config)
  PROVE  Abstract!Begin(r, cs) /\ cs \in SUBSET Targets
<1>1. config \in Configs /\ pc[r] = "idle"
  BY DEF TypeOK, Start
<1>2. Eligible(config) \in SUBSET Targets /\ Cardinality(Eligible(config)) \in Nat \ {0}
  BY <1>1, EligibleCount DEF Eligible
<1>3. Eligible(config) # {}
  BY <1>1, DispatchAssumption DEF Eligible
<1>4. Planned(r) = {} /\ TriedBefore(r) = {}
  BY <1>1, IdleHasNoPlan
<1>5. DOMAIN o = 1..Cardinality(Eligible(config)) /\ {o[k] : k \in DOMAIN o} = Eligible(config)
  BY DEF Orders
<1>6. plan' = [plan EXCEPT ![r] = o] /\ at' = [at EXCEPT ![r] = 1]
      /\ DOMAIN plan = Requests /\ DOMAIN at = Requests
  BY DEF Start, TypeOK
<1>7. candidates' = [candidates EXCEPT ![r] = Eligible(config)]
  <2>1. Planned(r)' = Eligible(config)
    BY <1>5, <1>6 DEF Planned
  <2>2. \A q \in Requests \ {r} : Planned(q)' = Planned(q)
    BY <1>6 DEF Planned
  <2>. QED  BY <2>1, <2>2 DEF candidates
<1>8. UNCHANGED tried
  <2>1. TriedBefore(r)' = {}
    BY <1>2, <1>5, <1>6 DEF TriedBefore
  <2>2. \A q \in Requests \ {r} : TriedBefore(q)' = TriedBefore(q)
    BY <1>6 DEF TriedBefore
  <2>. QED  BY <1>4, <2>1, <2>2 DEF tried
<1>9. UNCHANGED answering
  BY DEF Start, TypeOK, answering
<1>. QED  BY <1>2, <1>3, <1>4, <1>7, <1>8, <1>9
          DEF Abstract!Begin, candidates, tried, answering, Planned, TriedBefore

(* The candidate a request is at answers. *)
LEMMA AnswersRefines ==
  ASSUME TypeOK, PlansInjective, NEW r \in Requests, NEW status \in {"ok", "error"},
         UpstreamAnswers(r, status)
  PROVE  Abstract!Receive(r)
<1>1. pc[r] = "calling" /\ pc' = [pc EXCEPT ![r] = "restoring"] /\ DOMAIN pc = Requests
      /\ UNCHANGED <<plan, at>>
  BY DEF UpstreamAnswers, TypeOK
<1>2. Planned(r) # {}
  BY <1>1, CurrentUntried
<1>3. r \notin answering /\ answering' = answering \cup {r}
  BY <1>1 DEF answering
<1>4. UNCHANGED <<candidates, tried>>
  BY <1>1 DEF candidates, tried, Planned, TriedBefore
<1>. QED  BY <1>2, <1>3, <1>4 DEF Abstract!Receive, candidates, tried, answering, Planned, TriedBefore

(* A request ends, and with it its candidates. *)
LEMMA CloseRefines ==
  ASSUME TypeOK, NEW r \in Requests, Close(r)
  PROVE  /\ candidates' = [candidates EXCEPT ![r] = {}]
         /\ tried' = [tried EXCEPT ![r] = {}]
         /\ answering' = answering \ {r}
<1>1. /\ plan' = [plan EXCEPT ![r] = <<>>] /\ at' = [at EXCEPT ![r] = 0]
      /\ pc' = [pc EXCEPT ![r] = "idle"]
      /\ DOMAIN plan = Requests /\ DOMAIN at = Requests /\ DOMAIN pc = Requests
  BY DEF Close, TypeOK
<1>2. Planned(r)' = {} /\ TriedBefore(r)' = {}
  BY <1>1 DEF Planned, TriedBefore
<1>3. \A q \in Requests \ {r} : Planned(q)' = Planned(q) /\ TriedBefore(q)' = TriedBefore(q)
  BY <1>1 DEF Planned, TriedBefore
<1>4. answering' = answering \ {r}
  BY <1>1 DEF answering
<1>. QED  BY <1>2, <1>3, <1>4 DEF candidates, tried

LEMMA DeliverRefines ==
  ASSUME TypeOK, NEW r \in Requests, Deliver(r)
  PROVE  Abstract!Answer(r)
<1>1. pc[r] = "restoring" /\ Close(r)
  BY DEF Deliver
<1>2. r \in answering
  BY <1>1 DEF answering
<1>3. /\ candidates' = [candidates EXCEPT ![r] = {}] /\ tried' = [tried EXCEPT ![r] = {}]
      /\ answering' = answering \ {r}
  BY <1>1, CloseRefines
<1>. QED  BY <1>2, <1>3
          DEF Abstract!Answer, Abstract!Close, candidates, tried, answering, Planned, TriedBefore

(* A failed candidate becomes one that was tried; the last one ends the request. *)
LEMMA CatchRefines ==
  ASSUME TypeOK, PlansInjective, NEW r \in Requests, NEW classified \in BOOLEAN,
         CatchError(r, classified), NEW c, c = Current(r)
  PROVE  /\ Abstract!GoOn(r, c) \/ Abstract!GiveUp(r, c)
         /\ c \in Targets
<1>1. pc[r] # "idle"
  BY DEF CatchError
<1>2. /\ Current(r) \in Planned(r) \ TriedBefore(r) /\ Current(r) \in Targets
      /\ Last(r) => TriedBefore(r) \cup {Current(r)} = Planned(r)
      /\ ~Last(r) => TriedBefore(r) \cup {Current(r)} # Planned(r)
  BY <1>1, CurrentUntried, CurrentEligible
<1>3. ASSUME Last(r)
      PROVE  Abstract!GiveUp(r, c)
  <2>1. Close(r)
    BY <1>3 DEF CatchError
  <2>2. /\ candidates' = [candidates EXCEPT ![r] = {}] /\ tried' = [tried EXCEPT ![r] = {}]
        /\ answering' = answering \ {r}
    BY <2>1, CloseRefines
  <2>. QED  BY <1>2, <1>3, <2>2
            DEF Abstract!GiveUp, Abstract!Close, candidates, tried, answering, Planned, TriedBefore
<1>4. ASSUME ~Last(r)
      PROVE  Abstract!GoOn(r, c)
  <2>1. plan' = plan /\ at' = [at EXCEPT ![r] = @ + 1] /\ DOMAIN at = Requests
    BY <1>4 DEF CatchError, TypeOK
  <2>2. at[r] \in Nat /\ at[r] \in DOMAIN plan[r]
        /\ DOMAIN plan[r] = 1..Cardinality(Eligible(seen[r]))
        /\ Cardinality(Eligible(seen[r])) \in Nat
    BY <1>1, LastCandidate, CurrentEligible, EligibleCount DEF TypeOK
  <2>3. {j \in DOMAIN plan[r] : j < at[r] + 1} = {j \in DOMAIN plan[r] : j < at[r]} \cup {at[r]}
    BY <2>2
  <2>4. TriedBefore(r)' = TriedBefore(r) \cup {Current(r)}
    <3>1. TriedBefore(r)' = {plan[r][k] : k \in {j \in DOMAIN plan[r] : j < at[r] + 1}}
      BY <2>1 DEF TriedBefore
    <3>. QED  BY <2>2, <2>3, <3>1 DEF TriedBefore, Current
  <2>5. \A q \in Requests \ {r} : TriedBefore(q)' = TriedBefore(q)
    BY <2>1 DEF TriedBefore
  <2>6. tried' = [tried EXCEPT ![r] = @ \cup {Current(r)}]
    BY <2>4, <2>5 DEF tried
  <2>7. UNCHANGED candidates
    BY <2>1 DEF candidates, Planned
  <2>8. answering' = answering \ {r}
    <3>1. pc' = [pc EXCEPT ![r] = "calling"] /\ DOMAIN pc = Requests
      BY <1>4 DEF CatchError, TypeOK
    <3>. QED  BY <3>1 DEF answering
  <2>. QED  BY <1>2, <1>4, <2>6, <2>7, <2>8
            DEF Abstract!GoOn, candidates, tried, answering, Planned, TriedBefore
<1>. QED  BY <1>2, <1>3, <1>4

LEMMA StepRefines ==
  ASSUME TypeOK, PlansInjective, [Next]_vars
  PROVE  [Abstract!Next]_(Abstract!vars)
<1>1. ASSUME NEW r \in Requests, NEW o \in Orders(config), Start(r, o)
      PROVE  Abstract!Next
  <2>1. PICK cs : cs = Eligible(config)
    OBVIOUS
  <2>2. Abstract!Begin(r, cs) /\ cs \in SUBSET Targets
    BY <1>1, <2>1, StartRefines
  <2>. QED  BY <2>2 DEF Abstract!Next
<1>2. ASSUME NEW r \in Requests, Deliver(r)
      PROVE  Abstract!Next
  BY <1>2, DeliverRefines DEF Abstract!Next
<1>3. ASSUME NEW r \in Requests, NEW classified \in BOOLEAN, CatchError(r, classified)
      PROVE  Abstract!Next
  <2>1. PICK c : c = Current(r)
    OBVIOUS
  <2>2. (Abstract!GoOn(r, c) \/ Abstract!GiveUp(r, c)) /\ c \in Targets
    BY <1>3, <2>1, CatchRefines
  <2>. QED  BY <2>2 DEF Abstract!Next
<1>4. ASSUME NEW r \in Requests, NEW status \in {"ok", "error"}, UpstreamAnswers(r, status)
      PROVE  Abstract!Next
  BY <1>4, AnswersRefines DEF Abstract!Next
<1>5. ASSUME UNCHANGED <<plan, at, pc>>
      PROVE  UNCHANGED Abstract!vars
  BY <1>5 DEF Abstract!vars
<1>6. \/ \E r \in Requests, o \in Orders(config) : Start(r, o)
      \/ \E r \in Requests : Deliver(r)
      \/ \E r \in Requests, classified \in BOOLEAN : CatchError(r, classified)
      \/ \E r \in Requests, status \in {"ok", "error"} : UpstreamAnswers(r, status)
      \/ UNCHANGED <<plan, at, pc>>
  BY DEF Next, Reload, vars, requestVars
<1>. QED  BY <1>1, <1>2, <1>3, <1>4, <1>5, <1>6

(* The candidate loop implements the failover a client of the alias relies on, whatever the number
   of requests in flight, the configurations and the errors. *)
THEOREM DispatchImplementsFailover == Spec => ImplementsFailover
<1>1. TypeOK /\ PlansInjective /\ [Next]_vars => [Abstract!Next]_(Abstract!vars)
  BY StepRefines
<1>. QED  BY <1>1, InitRefines, TypeCorrect, PlansAreInjective, PTL
          DEF Spec, ImplementsFailover, Abstract!Spec
=============================================================================
