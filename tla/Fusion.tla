------------------------------- MODULE Fusion -------------------------------
(***************************************************************************)
(* A request to a fusion alias (src/src/index.ts, runFusion): the plan of  *)
(* its roles, the panel called in batches, each call racing a timer, the   *)
(* bodies read in panel order, the quorum, the judge and the synthesis.    *)
(*                                                                         *)
(* A call that loses against its timer is not aborted: it goes on running  *)
(* beside the later batches and stages, and its answer is dropped.         *)
(* Panel targets are named by their position in the panel.                 *)
(***************************************************************************)
EXTENDS Integers, Sequences, FiniteSets, SequencesExt, FiniteSetsExt

CONSTANTS
  Aliases,        (* the aliases: their entries, in order, and their options    *)
  Depths          (* values of the x-fusion-depth header                        *)

Roles == {"panel", "judge", "synth", "fusion", "plain"}
Options == [min_panel : Nat, max_concurrent : Nat, judge_required : BOOLEAN, token_limit : BOOLEAN]

ASSUME FusionAssumption ==
  /\ \A a \in Aliases : a.entries \in Seq(Roles) /\ a.options \in Options
  /\ Depths \subseteq Nat

VARIABLES
  alias,          (* the alias requested                                       *)
  depth,          (* x-fusion-depth of the request                             *)
  stage,          (* where the request is                                      *)
  from,           (* batchStart: how many panel targets earlier batches held   *)
  calls,          (* per panel target: idle, calling, answered, refused, timedOut *)
  running,        (* panel calls that still run upstream, lost ones included   *)
  panelTexts, panelErrors,   (* positions in the panel, in the order pushed    *)
  analysis        (* did the judge give an analysis                            *)

vars == <<alias, depth, stage, from, calls, running, panelTexts, panelErrors, analysis>>

-----------------------------------------------------------------------------
(* resolveFusionPlan: targets by role; every entry that is neither judge nor synth is a panel target, *)
(* in the order of the alias.                                              *)

With(a, roles) == {k \in DOMAIN a.entries : a.entries[k] \in roles}
Panel(a) == With(a, {"panel", "fusion", "plain"})
HasJudge(a) == With(a, {"judge"}) # {}
IsFusion(a) == With(a, Roles \ {"plain"}) # {}

Size == Cardinality(Panel(alias))
BatchSize == Max({1, Min({alias.options.max_concurrent, Size})})
Batch(start) == (start + 1)..Min({start + BatchSize, Size})
Started(start) == [k \in 1..Size |-> IF k \in Batch(start) THEN "calling" ELSE calls[k]]

Stages == {"route", "panel", "judge", "synth", "answered", "failed", "refused", "composite"}
Ended  == {"answered", "failed", "refused", "composite"}

Init ==
  /\ alias \in Aliases /\ depth \in Depths
  /\ stage = "route" /\ from = 0
  /\ calls = [k \in 1..Size |-> "idle"] /\ running = {}
  /\ panelTexts = <<>> /\ panelErrors = <<>> /\ analysis = FALSE

(* An alias without a plan goes on as a composite one; the token limit is  *)
(* that of the alias, whatever its targets used; then runFusion begins.    *)
Route ==
  /\ stage = "route"
  /\ UNCHANGED <<alias, depth, from, panelTexts, panelErrors, analysis>>
  /\ \/ (~IsFusion(alias) \/ Size = 0) /\ stage' = "composite" /\ UNCHANGED <<calls, running>>
     \/ /\ IsFusion(alias) /\ Size > 0
        /\ \/ alias.options.token_limit /\ stage' = "refused" /\ UNCHANGED <<calls, running>>
           \/ depth >= 1 /\ stage' = "failed" /\ UNCHANGED <<calls, running>>
           \/ depth = 0 /\ stage' = "panel" /\ calls' = Started(0) /\ running' = Batch(0)

-----------------------------------------------------------------------------
(* The panel.                                                              *)

(* runAttempt of a panel call ends: in time with a response or an error,   *)
(* or after its timer, when nobody waits for it.                           *)
Answer(k) ==
  /\ k \in running
  /\ running' = running \ {k}
  /\ IF calls[k] = "calling"
     THEN \E r \in {"answered", "refused"} : calls' = [calls EXCEPT ![k] = r]
     ELSE UNCHANGED calls
  /\ UNCHANGED <<alias, depth, stage, from, panelTexts, panelErrors, analysis>>

NeverTimesOut(k) == FALSE /\ UNCHANGED vars
Timeout(k) ==
  /\ stage = "panel" /\ calls[k] = "calling"
  /\ calls' = [calls EXCEPT ![k] = "timedOut"]
  /\ UNCHANGED <<alias, depth, stage, from, running, panelTexts, panelErrors, analysis>>

Done == Len(panelTexts) + Len(panelErrors)
Settled == \A k \in Batch(from) : calls[k] # "calling"

QuorumOfCalls(texts) ==
  IF Done + 1 < alias.options.min_panel THEN "failed"
  ELSE IF HasJudge(alias) THEN "judge" ELSE "synth"
AfterPanel(texts) ==
  IF Len(texts) < alias.options.min_panel THEN "failed"
  ELSE IF HasJudge(alias) THEN "judge" ELSE "synth"

(* After the last body of a batch: the next batch, or the quorum. *)
NextBatch(k, texts) ==
  IF k # Max(Batch(from)) THEN UNCHANGED <<stage, from, calls, running>>
  ELSE IF k < Size
       THEN /\ from' = from + BatchSize /\ UNCHANGED stage
            /\ calls' = Started(from + BatchSize)
            /\ running' = running \cup Batch(from + BatchSize)
       ELSE stage' = AfterPanel(texts) /\ UNCHANGED <<from, calls, running>>

(* One turn of the loop over the settled batch: the body has text, or has  *)
(* none, or is not JSON.                                                   *)
ReadBody ==
  /\ stage = "panel" /\ Settled
  /\ LET k == Done + 1 IN
     /\ \/ /\ calls[k] = "answered"
           /\ panelTexts' = Append(panelTexts, k) /\ UNCHANGED panelErrors
        \/ panelErrors' = Append(panelErrors, k) /\ UNCHANGED panelTexts
     /\ NextBatch(k, panelTexts')
  /\ UNCHANGED <<alias, depth, analysis>>

-----------------------------------------------------------------------------
(* The judge and the synthesis.                                            *)

(* The judge gives an analysis; or a body that is not JSON, which is not an *)
(* error; or it throws, or its text does not parse.                        *)
Judge ==
  /\ stage = "judge"
  /\ \/ analysis' = TRUE /\ stage' = "synth"
     \/ analysis' = FALSE /\ stage' = "synth"
     \/ analysis' = FALSE /\ stage' = IF alias.options.judge_required THEN "failed" ELSE "synth"
  /\ UNCHANGED <<alias, depth, from, calls, running, panelTexts, panelErrors>>

Synthesise ==
  /\ stage = "synth"
  /\ stage' \in {"answered", "failed"}
  /\ UNCHANGED <<alias, depth, from, calls, running, panelTexts, panelErrors, analysis>>

Finished == stage \in Ended /\ UNCHANGED vars

Next ==
  \/ Route \/ ReadBody \/ Judge \/ Synthesise \/ Finished
  \/ \E k \in 1..Size : Answer(k) \/ Timeout(k)

Spec == Init /\ [][Next]_vars

(* Timers fire and bodies, the judge and the synthesis end; a panel call   *)
(* may never answer.                                                       *)
FairSpec ==
  /\ Spec
  /\ WF_vars(Route \/ ReadBody \/ Judge \/ Synthesise)
  /\ WF_vars(\E k \in 1..Size : Timeout(k))

-----------------------------------------------------------------------------
TypeOK ==
  /\ alias \in Aliases /\ depth \in Depths /\ stage \in Stages
  /\ from \in 0..Size
  /\ calls \in [1..Size -> {"idle", "calling", "answered", "refused", "timedOut"}]
  /\ running \subseteq 1..Size
  /\ panelTexts \in Seq(1..Size) /\ panelErrors \in Seq(1..Size)
  /\ analysis \in BOOLEAN

Ascending(s) == \A i, j \in 1..Len(s) : i < j => s[i] < s[j]

(* Every target of the panel is accounted for exactly once, in the order   *)
(* of the panel, as a text or as an error; a text is of a call that        *)
(* answered before its timer, however late the others answer; the stages   *)
(* after the panel see all of it, with the quorum they need; and no more   *)
(* calls are awaited at once than max_concurrent allows, none of them      *)
(* before the batch before it is settled.                                  *)
FanOutBounded ==
  /\ Cardinality({k \in 1..Size : calls[k] = "calling"}) <= Max({1, alias.options.max_concurrent})
  /\ \A k \in 1..Size : calls[k] = "calling" => Done <= from /\ from < k
PanelAccounted ==
  /\ TypeOK
  /\ Ascending(panelTexts) /\ Ascending(panelErrors)
  /\ Range(panelTexts) \cap Range(panelErrors) = {}
  /\ Range(panelTexts) \cup Range(panelErrors) = 1..Done
  /\ \A k \in Range(panelTexts) : calls[k] = "answered"
  /\ stage \in {"judge", "synth", "answered"} =>
       Done = Size /\ Len(panelTexts) >= alias.options.min_panel
  /\ FanOutBounded

(* The request ends although a panel target never answers. *)
FusionEnds == <>(stage \in Ended)

=============================================================================
