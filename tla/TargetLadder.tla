----------------------------- MODULE TargetLadder -----------------------------
(***************************************************************************)
(* The target ladder: the `targets` the authentication service returns     *)
(* with a request, tried in order by runTargetLadder of src/src/index.ts   *)
(* with the pieces of src/src/utils/target-retry.ts, and what each attempt *)
(* leaves behind: the failure counts of the models and the records posted  *)
(* to the statistics service under a one-time code.                        *)
(*                                                                         *)
(* Requests share nothing but counters that only grow, so the module       *)
(* follows one request after another.  An error has the status its         *)
(* classification gives it, 502 or 504, or 0 when there is none.           *)
(***************************************************************************)
EXTENDS Integers, Sequences, SequencesExt, FiniteSets, FiniteSetsExt

CONSTANTS
  Bodies,              (* the `targets` arrays an authentication may answer with *)
  Statuses,            (* statuses of the responses of upstreams                 *)
  ErrorStatuses,       (* statuses of the errors an attempt may throw            *)
  MaxTargets,          (* [remote] max_targets; 0 = no cap                       *)
  MaxTargetRetries,    (* [remote] max_target_retries                            *)
  BaseCode,            (* the one_time_auth_code header of the authentication    *)
  NoCode,              (* an entry without an otac                               *)
  NoRetry              (* an entry without a retry                               *)

(* An entry: the model it names, its base and key as one place, whether it passes the validation,
   the statuses and the number of its retries, its code, and whether a transform rewrites bodies on
   their way to the client. *)
IsEntry(e) ==
  /\ DOMAIN e = {"target", "place", "valid", "retryOn", "retry", "otac", "egress"}
  /\ e.valid \in BOOLEAN /\ e.egress \in BOOLEAN
  /\ e.retryOn \subseteq Int
  /\ e.retry = NoRetry \/ e.retry \in Nat

ASSUME LadderAssumption ==
  /\ \A b \in Bodies : Len(b) \in Nat /\ DOMAIN b = 1..Len(b) /\ \A k \in DOMAIN b : IsEntry(b[k])
  /\ Statuses \subseteq 200..599
  /\ ErrorStatuses \subseteq {0} \cup 400..599
  /\ MaxTargets \in Nat
  /\ MaxTargetRetries \in Nat

VARIABLES
  body,            (* the array the authentication answered with              *)
  pc,              (* where the request is                                    *)
  i,               (* the rung, as its place in the array                     *)
  n,               (* how often the rung was hit again                        *)
  code,            (* modelUsageOneTimeAuthCode                               *)
  failureRecorded, (* modelFailureRecorded                                    *)
  stream,          (* does the response that is returned stream its usage     *)
  failed,          (* the failures counted so far, a sequence of models       *)
  records,         (* the records posted so far: rung and code                *)
  log,             (* ghost: the attempts of the request                      *)
  restored         (* ghost: did the restore of the response succeed          *)

vars == <<body, pc, i, n, code, failureRecorded, stream, failed, records, log, restored>>

-----------------------------------------------------------------------------
(* validateDescriptorEntries and dedupeAndCap: the ladder is the array without the entries these drop,
   and is given by the places, in the array, of those they keep. *)

Destination(e) == <<e.target, e.place>>
Valid(b) == {k \in DOMAIN b : b[k].valid}
Distinct(b, entries) ==
  {k \in entries : \A j \in entries : j < k => Destination(b[j]) # Destination(b[k])}
Capped(entries) ==
  {k \in entries : MaxTargets > 0 => Cardinality({j \in entries : j <= k}) <= MaxTargets}

CapOnly(b) == Capped(Valid(b))
DedupeAndCap(b) == Capped(Distinct(b, Valid(b)))

Ladder == DedupeAndCap(body)
Rung == body[i]
Later == {k \in Ladder : k > i}
IsFirst(k, rungs) == k \in rungs /\ \A j \in rungs : k <= j

-----------------------------------------------------------------------------
(* One attempt and what follows from its outcome.                          *)

Succeeds(status) == status \in 200..399
Retryable(status) == status = 429 \/ status >= 500

RetriesOf(e) == IF e.retry = NoRetry THEN MaxTargetRetries ELSE e.retry
OneTooMany(e, status) == n <= RetriesOf(e) /\ status \in e.retryOn
HitAgain(e, status) == n < RetriesOf(e) /\ status \in e.retryOn

KeptCode(e) == IF e.otac = NoCode THEN code ELSE e.otac
CodeOf(e) == IF e.otac = NoCode THEN BaseCode ELSE e.otac

NextRung == \E k \in Later : IsFirst(k, Later) /\ i' = k /\ n' = 0 /\ code' = CodeOf(body[k])

Wait == pc' = "waiting" /\ n' = n + 1

(* The catch of the ladder counts a thrown attempt; the outer catch counts the failure of the last
   model, unless a thrown attempt was counted. *)
CountThrown == Append(failed, Rung.target)
CountUnlessRecorded == IF failureRecorded THEN failed ELSE Append(failed, Rung.target)

(* What the two retry axes make of a failed attempt: the same rung again, the next one, or the end
   with the failure in its original form, a response to return or an error to answer with. *)
AfterFailure(status, isResponse) ==
  \/ /\ HitAgain(Rung, status)
     /\ Wait
     /\ UNCHANGED <<i, code>>
  \/ /\ ~HitAgain(Rung, status)
     /\ Retryable(status) /\ Later # {}
     /\ NextRung
     /\ UNCHANGED pc
  \/ /\ ~HitAgain(Rung, status)
     /\ ~Retryable(status) \/ Later = {}
     /\ pc' = IF isResponse THEN "restoring" ELSE "idle"
     /\ UNCHANGED <<i, n, code>>

Tried(status, how) == Append(log, [rung |-> i, status |-> status, how |-> how])
Posted == Append(records, [rung |-> i, code |-> code])

-----------------------------------------------------------------------------
Init ==
  /\ body = <<>> /\ pc = "idle" /\ i = 0 /\ n = 0
  /\ code = BaseCode /\ failureRecorded = FALSE /\ stream = FALSE
  /\ failed = <<>> /\ records = <<>> /\ log = <<>> /\ restored = TRUE

(* A request is authenticated and brings a ladder with at least one rung; without one it is routed
   by the configuration. *)
Authorize(b) ==
  /\ pc = "idle"
  /\ body' = b
  /\ \E k \in DedupeAndCap(b) :
       IsFirst(k, DedupeAndCap(b)) /\ pc' = "calling" /\ i' = k /\ n' = 0 /\ code' = CodeOf(b[k])
  /\ failureRecorded' = FALSE /\ stream' = FALSE
  /\ failed' = <<>> /\ records' = <<>> /\ log' = <<>> /\ restored' = TRUE

(* runAttempt returns a response below 400, a JSON one with or without usage in it, or a stream. *)
Answer(status, kind) ==
  /\ pc = "calling"
  /\ Succeeds(status)
  /\ pc' = "restoring"
  /\ log' = Tried(status, "returned")
  /\ records' = IF kind = "usage" \/ status >= 300 THEN Posted ELSE records
  /\ stream' = (kind = "stream" /\ status < 300)
  /\ UNCHANGED <<body, i, n, code, failureRecorded, failed, restored>>

(* runAttempt returns a response from 400 on: counted, and recorded with zero usage. *)
Refuse(status) ==
  /\ pc = "calling"
  /\ ~Succeeds(status)
  /\ log' = Tried(status, "returned")
  /\ failed' = Append(failed, Rung.target)
  /\ records' = Posted
  /\ AfterFailure(status, TRUE)
  /\ UNCHANGED <<body, failureRecorded, stream, restored>>

(* runAttempt throws before there is a response. *)
Throw(error) ==
  /\ pc = "calling"
  /\ log' = Tried(error, "thrown")
  /\ failed' = CountThrown
  /\ failureRecorded' = TRUE
  /\ AfterFailure(error, FALSE)
  /\ UNCHANGED <<body, records, stream, restored>>

(* The statistics are taken and then the response_egress transforms throw: reading the body breaks off,
   or an operation fails on one the statistics have read whole for its usage. *)
BreakOff(status, usage, error) ==
  /\ pc = "calling"
  /\ Rung.egress
  /\ usage => status < 300 /\ error = 0
  /\ log' = Tried(error, "broken")
  /\ failed' = failed \o (IF Succeeds(status) THEN <<>> ELSE <<Rung.target>>) \o <<Rung.target>>
  /\ records' = IF usage \/ status >= 300 THEN Posted ELSE records
  /\ failureRecorded' = TRUE
  /\ AfterFailure(error, FALSE)
  /\ UNCHANGED <<body, stream, restored>>

(* A wait that takes Retry-After at its word, without the cap, may be longer than any request. *)
WaitsOn == pc = "waiting" /\ UNCHANGED vars

(* The backoff, or what Retry-After asks for up to two seconds, is over. *)
WakeUp ==
  /\ pc = "waiting"
  /\ pc' = "calling"
  /\ UNCHANGED <<body, i, n, code, failureRecorded, stream, failed, records, log, restored>>

(* restorePrivacyResponse succeeds and the response goes to the client. *)
Return ==
  /\ pc = "restoring"
  /\ pc' = IF stream THEN "streaming" ELSE "idle"
  /\ UNCHANGED <<body, i, n, code, failureRecorded, stream, failed, records, log, restored>>

(* Reading the body of a response that does not stream throws: the outer catch answers. *)
BreakReturn ==
  /\ pc = "restoring"
  /\ ~stream
  /\ pc' = "idle"
  /\ failed' = CountUnlessRecorded
  /\ restored' = FALSE
  /\ UNCHANGED <<body, i, n, code, failureRecorded, stream, records, log>>

(* The stream closes, and its usage is posted under the code the request has by then; a stream that
   breaks, or one without usage, posts nothing. *)
EndStream(usage) ==
  /\ pc = "streaming"
  /\ pc' = "idle"
  /\ records' = IF usage THEN Posted ELSE records
  /\ UNCHANGED <<body, i, n, code, failureRecorded, stream, failed, log, restored>>

Attempt ==
  \/ \E status \in Statuses, kind \in {"usage", "none", "stream"} : Answer(status, kind)
  \/ \E status \in Statuses : Refuse(status)
  \/ \E error \in ErrorStatuses : Throw(error)
  \/ \E status \in Statuses, usage \in BOOLEAN, error \in ErrorStatuses :
       BreakOff(status, usage, error)

Finish == Return \/ BreakReturn \/ \E usage \in BOOLEAN : EndStream(usage)

Next == (\E b \in Bodies : Authorize(b)) \/ Attempt \/ WakeUp \/ Finish

Spec == Init /\ [][Next]_vars

(* Every upstream call ends, if only by its deadline, and so do the timer and the stream. *)
FairSpec == Spec /\ WF_vars(Attempt) /\ WF_vars(WakeUp) /\ WF_vars(Finish)
-----------------------------------------------------------------------------
Ended == pc = "idle" /\ log # <<>>
WorthAnother(status) == status = 429 \/ status \in 500..599
FailedAttempt(a) == a.how # "returned" \/ a.status >= 400
AttemptsOn(d) == Cardinality({k \in DOMAIN log : Destination(body[log[k].rung]) = d})
FailuresOf(m) == Cardinality({k \in DOMAIN log : /\ FailedAttempt(log[k])
                                                 /\ body[log[k].rung].target = m})

TypeOK ==
  /\ body \in Bodies \cup {<<>>}
  /\ pc \in {"idle", "calling", "waiting", "restoring", "streaming"}
  /\ IF body = <<>> THEN i = 0 /\ n = 0
     ELSE i \in Ladder /\ n \in 0..RetriesOf(Rung)
  /\ code \in {BaseCode} \cup {body[k].otac : k \in Ladder}
  /\ failureRecorded \in BOOLEAN /\ stream \in BOOLEAN /\ restored \in BOOLEAN
  /\ \A k \in DOMAIN records : records[k].rung \in Ladder
  /\ \A k \in DOMAIN log : log[k].rung \in Ladder /\ log[k].rung <= i

(* The ladder is gone through as its two retry axes say.  No destination is hit more often than its
   first entry allows, its retries and once more, however often the authentication lists it; and a
   request ends in failure only for a reason: its last attempt failed in a way no other target would
   change, or every rung was tried, and no rung before was left while its failure was final
   (dedupeAndCap and runTargetLadder). *)
DestinationWithinBudget ==
  \A k \in DOMAIN body : body[k].valid /\ (\A j \in 1..k - 1 : Destination(body[j]) # Destination(body[k]))
    => AttemptsOn(Destination(body[k])) <= 1 + RetriesOf(body[k])
FailsForAReason ==
  Ended /\ FailedAttempt(Last(log)) =>
    /\ WorthAnother(Last(log).status) => \A k \in Ladder : k <= Last(log).rung
    /\ \A rung \in Ladder :
         LET attempts == {k \in DOMAIN log : log[k].rung = rung}
         IN  rung < Last(log).rung
               => attempts # {} /\ WorthAnother(log[Max(attempts)].status)
LadderIsFollowed == DestinationWithinBudget /\ FailsForAReason

(* The books of the attempts are right.  Every attempt that fails is counted against its model, by
   whichever of the three places that may count it, and exactly once unless a body broke off after
   its response was counted; and a record is posted under the code of the rung whose attempt it
   reports, also when the usage comes with the end of a stream: a code never leaks from one rung to
   another (recordAttemptFailure, modelUsageOneTimeAuthCode). *)
FailuresCounted ==
  \A k \in Ladder :
    LET m == body[k].target
        counted == Cardinality({j \in DOMAIN failed : failed[j] = m})
    IN  /\ FailuresOf(m) <= counted
        /\ restored /\ (\A j \in DOMAIN log : log[j].how # "broken") => counted = FailuresOf(m)
RecordsCarryOwnCode ==
  \A k \in DOMAIN records :
    records[k].code = LET otac == body[records[k].rung].otac
                      IN  IF otac = NoCode THEN BaseCode ELSE otac
BookkeepingIsRight == FailuresCounted /\ RecordsCarryOwnCode

(* Whatever the statuses and the retries, a request ends. *)
RequestEnds == pc # "idle" ~> pc = "idle"
=============================================================================
