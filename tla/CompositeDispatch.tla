-------------------------- MODULE CompositeDispatch --------------------------
(***************************************************************************)
(* The dispatch of requests over the targets of one composite alias, in    *)
(* the fetch handler of src/src/index.ts: the order of the candidates, the *)
(* failover loop, and the effective shares all requests in flight decay    *)
(* and recover.  A request keeps the configuration it started with while   *)
(* the administrator may load another one.                                 *)
(*                                                                         *)
(* Shares are integers in units small enough for the halvings the code     *)
(* makes in floating point: a configured share is a multiple of 40, so the *)
(* halves above its tenth are whole.                                       *)
(***************************************************************************)
EXTENDS Integers, FiniteSets

CONSTANTS
  Requests,      (* requests that may be in flight together                    *)
  Targets,       (* target models of the alias                                 *)
  Position,      (* target -> its place in the listing of the alias            *)
  Configs,       (* the configurations the process may run with                *)
  PrimaryOf,     (* configuration -> the target marked primary, or NoTarget    *)
  FallbackOf,    (* configuration -> target -> its fallback number, 0 for none *)
  ShareOf,       (* configuration -> target -> its share, 0 to exclude it      *)
  NoTarget,
  NoConfig,
  MaxShare,      (* the largest share a configuration gives                    *)
  MaxReloads     (* bound: configuration reloads in a behaviour                *)

ASSUME DispatchAssumption ==
  /\ IsFiniteSet(Targets)
  /\ NoTarget \notin Targets
  /\ NoConfig \notin Configs
  /\ Configs # {}
  /\ PrimaryOf \in [Configs -> Targets \cup {NoTarget}]
  /\ FallbackOf \in [Configs -> [Targets -> Nat]]
  /\ ShareOf \in [Configs -> [Targets -> Nat]]
  /\ MaxShare \in Nat
  /\ \A c \in Configs, t \in Targets :
       /\ ShareOf[c][t] % 40 = 0
       /\ ShareOf[c][t] <= MaxShare
  /\ \A c \in Configs : \E t \in Targets : ShareOf[c][t] # 0
  /\ Position \in [Targets -> Nat]
  /\ \A t, u \in Targets : Position[t] = Position[u] => t = u
  /\ MaxReloads \in Nat

VARIABLES
  config,        (* the configuration new requests are served with             *)
  effective,     (* compositeEffectiveShares: target -> share, 0 for no entry  *)
  pc,            (* request -> where it is in the candidate loop               *)
  seen,          (* request -> the configuration it started with               *)
  plan,          (* request -> compositeAttempts, the candidates in order      *)
  at,            (* request -> i, the candidate it is at                       *)
  reloads        (* number of reloads so far (bounded)                         *)

requestVars == <<pc, seen, plan, at>>
vars == <<config, effective, requestVars, reloads>>

-----------------------------------------------------------------------------
(* The candidates of a configuration and the orders they may be tried in.  *)

Eligible(c) == {t \in Targets : ShareOf[c][t] # 0}
Fallbacks(c) == {t \in Eligible(c) : FallbackOf[c][t] > 0}
HasPrimary(c) == PrimaryOf[c] \in Eligible(c)
Prioritized(c, t) == t = PrimaryOf[c] \/ FallbackOf[c][t] > 0

EffectiveShare(c, t) == IF effective[t] = 0 THEN ShareOf[c][t] ELSE effective[t]
Degraded(c, t) == EffectiveShare(c, t) < ShareOf[c][t]

(* getOrderedCompositeTargets: the primary first and the others as listed or, without a primary,
   fallback numbers ascending before the targets that have none. *)
Precedes(c, t, u) ==
  IF HasPrimary(c)
  THEN t = PrimaryOf[c] \/ (u # PrimaryOf[c] /\ Position[t] < Position[u])
  ELSE \/ t \in Fallbacks(c) /\ u \notin Fallbacks(c)
       \/ /\ t \in Fallbacks(c) <=> u \in Fallbacks(c)
          /\ \/ FallbackOf[c][t] < FallbackOf[c][u]
             \/ FallbackOf[c][t] = FallbackOf[c][u] /\ Position[t] < Position[u]

(* Where the first attempt may go: a weighted pick gives every target with a positive weight a
   chance.  It is made among all targets when none has a priority or the primary is degraded, and
   among the fallbacks when there are several and one of them is degraded. *)
FallbackDegraded(c) == \E t, u \in Fallbacks(c) : t # u /\ Degraded(c, t)
FirstChoices(c) ==
  CASE HasPrimary(c) /\ ~Degraded(c, PrimaryOf[c]) -> {PrimaryOf[c]}
    [] ~HasPrimary(c) /\ FallbackDegraded(c) -> Fallbacks(c)
    [] ~HasPrimary(c) /\ Fallbacks(c) # {} /\ ~FallbackDegraded(c) ->
         {t \in Fallbacks(c) : \A u \in Fallbacks(c) \ {t} : Precedes(c, t, u)}
    [] OTHER -> Eligible(c)

Orders(c) ==
  {o \in [1..Cardinality(Eligible(c)) -> Eligible(c)] :
     /\ \A i, j \in DOMAIN o : o[i] = o[j] => i = j
     /\ \A t \in Eligible(c) : \E i \in DOMAIN o : o[i] = t
     /\ o[1] \in FirstChoices(c)
     /\ \A i, j \in DOMAIN o : 1 < i /\ i < j => Precedes(c, o[i], o[j])}

-----------------------------------------------------------------------------
(* decayEffectiveCompositeShare and recoverEffectiveCompositeShare.        *)

Larger(a, b) == IF a > b THEN a ELSE b
Smaller(a, b) == IF a < b THEN a ELSE b

UnflooredDecay(share, previous) == previous \div 2
LateDecay(share, previous) == Larger(share, previous \div 2)
Decayed(share, previous) == Larger(share \div 10, previous \div 2)
NoRecovery(share, previous) == previous
Recovered(share, previous) == Smaller(share, previous * 2)

Current(r) == plan[r][at[r]]
StopsEarly(r) == at[r] + 1 >= Cardinality(DOMAIN plan[r])
RunsOver(r) == at[r] > Cardinality(DOMAIN plan[r])
Last(r) == at[r] = Cardinality(DOMAIN plan[r])

RecoverShare(r) ==
  LET t == Current(r)
      c == seen[r]
      next == Recovered(ShareOf[c][t], EffectiveShare(c, t))
  IN  effective' = IF Prioritized(c, t) /\ next # EffectiveShare(c, t)
                   THEN [effective EXCEPT ![t] = next] ELSE effective

DecayShare(r) ==
  LET t == Current(r)
      c == seen[r]
  IN  effective' = IF Prioritized(c, t)
                   THEN [effective EXCEPT ![t] = Decayed(ShareOf[c][t], EffectiveShare(c, t))]
                   ELSE effective

-----------------------------------------------------------------------------
Init ==
  /\ config \in Configs
  /\ effective = [t \in Targets |-> 0]
  /\ pc = [r \in Requests |-> "idle"]
  /\ seen = [r \in Requests |-> NoConfig]
  /\ plan = [r \in Requests |-> <<>>]
  /\ at = [r \in Requests |-> 0]
  /\ reloads = 0

(* A request for the alias arrives and its attempts are put in order. *)
Start(r, o) ==
  /\ pc[r] = "idle"
  /\ o \in Orders(config)
  /\ pc' = [pc EXCEPT ![r] = "calling"]
  /\ seen' = [seen EXCEPT ![r] = config]
  /\ plan' = [plan EXCEPT ![r] = o]
  /\ at' = [at EXCEPT ![r] = 1]
  /\ UNCHANGED <<config, effective, reloads>>

Close(r) ==
  /\ pc' = [pc EXCEPT ![r] = "idle"]
  /\ seen' = [seen EXCEPT ![r] = NoConfig]
  /\ plan' = [plan EXCEPT ![r] = <<>>]
  /\ at' = [at EXCEPT ![r] = 0]

(* runAttempt returns a response.  The loop takes one with an error status for an answer too: the
   passthrough handlers return it instead of throwing. *)
UpstreamAnswers(r, status) ==
  /\ pc[r] = "calling"
  /\ RecoverShare(r)
  /\ pc' = [pc EXCEPT ![r] = "restoring"]
  /\ status \in {"ok", "error"}
  /\ UNCHANGED <<config, seen, plan, at, reloads>>

(* restorePrivacyResponse succeeds and the response goes to the client. *)
Deliver(r) ==
  /\ pc[r] = "restoring"
  /\ Close(r)
  /\ UNCHANGED <<config, effective, reloads>>

(* The catch of the loop, entered when the upstream call throws and also when reading the body of a
   response that was already taken for an answer does.  An error that is neither a ClaudeProxyError
   nor a transport error leaves the share alone; after the last candidate the error is rethrown. *)
CatchError(r, classified) ==
  /\ pc[r] \in {"calling", "restoring"}
  /\ IF classified THEN DecayShare(r) ELSE UNCHANGED effective
  /\ IF Last(r)
     THEN Close(r)
     ELSE /\ pc' = [pc EXCEPT ![r] = "calling"]
          /\ at' = [at EXCEPT ![r] = @ + 1]
          /\ UNCHANGED <<seen, plan>>
  /\ UNCHANGED <<config, reloads>>

(* /config-reload: the shares that were decayed stay as they are. *)
Reload(c) ==
  /\ reloads < MaxReloads
  /\ c # config
  /\ config' = c
  /\ reloads' = reloads + 1
  /\ UNCHANGED <<effective, requestVars>>

Next ==
  \/ \E r \in Requests :
       \/ \E o \in Orders(config) : Start(r, o)
       \/ \E status \in {"ok", "error"} : UpstreamAnswers(r, status)
       \/ Deliver(r)
       \/ \E classified \in BOOLEAN : CatchError(r, classified)
  \/ \E c \in Configs : Reload(c)

Spec == Init /\ [][Next]_vars

(* Every upstream call ends, if only by its abort signal; clients keep sending requests; and the
   random pick does not pass over the same target for ever. *)
Fairness ==
  \A r \in Requests :
    /\ WF_vars(\/ \E status \in {"ok", "error"} : UpstreamAnswers(r, status)
               \/ Deliver(r)
               \/ \E classified \in BOOLEAN : CatchError(r, classified))
    /\ \A t \in Targets : SF_vars(\E o \in Orders(config) : o[1] = t /\ Start(r, o))

FairSpec == Spec /\ Fairness
-----------------------------------------------------------------------------
TypeOK ==
  /\ config \in Configs
  /\ effective \in [Targets -> Nat]
  /\ pc \in [Requests -> {"idle", "calling", "restoring"}]
  /\ seen \in [Requests -> Configs \cup {NoConfig}]
  /\ DOMAIN plan = Requests /\ DOMAIN at = Requests
  /\ \A r \in Requests :
       IF pc[r] = "idle"
       THEN seen[r] = NoConfig /\ plan[r] = <<>> /\ at[r] = 0
       ELSE /\ seen[r] \in Configs
            /\ plan[r] \in [1..Cardinality(Eligible(seen[r])) -> Eligible(seen[r])]
            /\ at[r] \in DOMAIN plan[r]
  /\ reloads \in 0..MaxReloads

(* Whatever failures, recoveries and reloads meet on a share, a target keeps at least the tenth of
   the smallest share it may be configured with, so a weighted pick can always reach it, and never
   more than the largest (the floor of decayEffectiveCompositeShare, the cap of recover...). *)
SharesBounded == \A t \in Targets : effective[t] = 0 \/ effective[t] \in 4..MaxShare

(* While the configuration is the one the process started with, a primary or fallback target that
   fails has less than its configured share, and it stays so, whatever other requests in flight
   report, until an attempt on it answers: the next request may go elsewhere first. *)
FailureDemotes ==
  [][reloads' = 0 =>
       \A t \in Targets :
         /\ (\E r \in Requests : CatchError(r, TRUE) /\ Current(r) = t /\ Prioritized(config, t))
              => Degraded(config, t)'
         /\ Degraded(config, t) /\ ~Degraded(config, t)'
              => \E r \in Requests, status \in {"ok", "error"} :
                   UpstreamAnswers(r, status) /\ Current(r) = t]_vars

(* A request goes from one candidate to the next, to none of them twice, until one answers and its
   response can be restored, and it fails only when all were tried, a response that was lost being
   one of their failures: the failover every client of an alias relies on. *)
Abstract == INSTANCE Failover WITH
  Candidates <- Targets,
  candidates <- [r \in Requests |-> {plan[r][k] : k \in DOMAIN plan[r]}],
  tried <- [r \in Requests |-> {plan[r][k] : k \in {j \in DOMAIN plan[r] : j < at[r]}}],
  answering <- {r \in Requests : pc[r] = "restoring"}
ImplementsFailover == Abstract!Spec

(* A target that answers from some point on regains its configured share and keeps it, instead of
   staying decayed until a restart (the comment on gradual share recovery in the loop).  Only the
   shares that order the attempts count: the primary's or, without one, the fallbacks'. *)
Fails(t) ==
  \E r \in Requests : /\ pc[r] \in {"calling", "restoring"}
                      /\ Current(r) = t
                      /\ \E classified \in BOOLEAN : CatchError(r, classified)
HealthyTargetRegainsTraffic ==
  \A t \in Targets :
    <>[][~Fails(t)]_vars
      => <>[]((IF HasPrimary(config) THEN t = PrimaryOf[config] ELSE t \in Fallbacks(config))
                => ~Degraded(config, t))
=============================================================================
