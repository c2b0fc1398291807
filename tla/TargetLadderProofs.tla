------------------------- MODULE TargetLadderProofs -------------------------
(* Proofs about the way a request takes through its ladder and the books it keeps of its attempts, for
   any ladder, statuses and codes. *)
EXTENDS TargetLadder, FiniteSetTheorems, TLAPS

Attempts == [rung : Nat, status : Statuses \cup ErrorStatuses, how : {"returned", "thrown", "broken"}]

BookTypes ==
  /\ body \in Bodies \cup {<<>>}
  /\ i \in Nat
  /\ log \in Seq(Attempts)
  /\ failed \in Seq({body[k].target : k \in Nat})
  /\ records \in Seq([rung : Nat, code : {CodeOf(body[k]) : k \in Nat}])

(* While a request runs, the code in force is that of its rung. *)
CodeInForce == pc # "idle" => code = CodeOf(Rung)

(* FailuresCounted, for everything that could be a model. *)
Counted(s, m) == {k \in DOMAIN s : s[k] = m}
Failures(ladder, s, m) == {k \in DOMAIN s : FailedAttempt(s[k]) /\ ladder[s[k].rung].target = m}
Accounted ==
  \A m : LET c == Cardinality(Counted(failed, m))
             f == Cardinality(Failures(body, log, m))
         IN  f <= c /\ (restored /\ (\A j \in DOMAIN log : log[j].how # "broken") => c = f)

Books == BookTypes /\ CodeInForce /\ RecordsCarryOwnCode /\ Accounted

-----------------------------------------------------------------------------
(* What one more element adds to a count. *)

LEMMA SubsetCount ==
  ASSUME NEW len \in Nat, NEW A \in SUBSET (1..len)
  PROVE  /\ Cardinality(A) \in Nat
         /\ Cardinality(A \cup {len + 1}) = Cardinality(A) + 1
<1>1. IsFiniteSet(1..len)
  BY FS_Interval
<1>2. IsFiniteSet(A)
  BY <1>1, FS_Subset, Zenon
<1>3. len + 1 \notin A
  OBVIOUS
<1>4. Cardinality(A) \in Nat
  BY <1>2, FS_CardinalityType
<1>5. Cardinality(A \cup {len + 1}) = Cardinality(A) + 1
  BY <1>2, <1>3, FS_AddElement
<1>. QED  BY <1>4, <1>5

LEMMA CountedAppend ==
  ASSUME NEW S, NEW s \in Seq(S), NEW x \in S, NEW m
  PROVE  /\ Cardinality(Counted(s, m)) \in Nat
         /\ Cardinality(Counted(Append(s, x), m)) = Cardinality(Counted(s, m)) + (IF x = m THEN 1 ELSE 0)
<1>1. Len(s) \in Nat /\ Counted(s, m) \in SUBSET (1..Len(s))
  BY DEF Counted
<1>2. Counted(Append(s, x), m) = IF x = m THEN Counted(s, m) \cup {Len(s) + 1} ELSE Counted(s, m)
  BY DEF Counted
<1>3. /\ Cardinality(Counted(s, m)) \in Nat
      /\ Cardinality(Counted(s, m) \cup {Len(s) + 1}) = Cardinality(Counted(s, m)) + 1
  BY <1>1, SubsetCount
<1>. QED  BY <1>2, <1>3

LEMMA FailuresAppend ==
  ASSUME NEW ladder, NEW s \in Seq(Attempts), NEW a \in Attempts, NEW m
  PROVE  /\ Cardinality(Failures(ladder, s, m)) \in Nat
         /\ Cardinality(Failures(ladder, Append(s, a), m))
              = Cardinality(Failures(ladder, s, m))
                  + (IF FailedAttempt(a) /\ ladder[a.rung].target = m THEN 1 ELSE 0)
<1>. DEFINE fails == FailedAttempt(a) /\ ladder[a.rung].target = m
<1>1. Len(s) \in Nat /\ Failures(ladder, s, m) \in SUBSET (1..Len(s))
  BY DEF Failures
<1>2. /\ DOMAIN Append(s, a) = 1..(Len(s) + 1) /\ DOMAIN s = 1..Len(s)
      /\ \A k \in 1..Len(s) : Append(s, a)[k] = s[k]
      /\ Append(s, a)[Len(s) + 1] = a
  OBVIOUS
<1>3. Failures(ladder, Append(s, a), m)
        = IF fails THEN Failures(ladder, s, m) \cup {Len(s) + 1} ELSE Failures(ladder, s, m)
  BY <1>1, <1>2 DEF Failures
<1>4. /\ Cardinality(Failures(ladder, s, m)) \in Nat
      /\ Cardinality(Failures(ladder, s, m) \cup {Len(s) + 1}) = Cardinality(Failures(ladder, s, m)) + 1
  BY <1>1, SubsetCount
<1>. QED  BY <1>3, <1>4

(* The rungs are places of the array, and no two of them have the same destination. *)
LEMMA LadderPlaces ==
  ASSUME NEW b \in Bodies \cup {<<>>}
  PROVE  /\ DedupeAndCap(b) \subseteq DOMAIN b /\ DedupeAndCap(b) \subseteq Nat
         /\ DedupeAndCap(b) \subseteq Valid(b)
         /\ \A k \in DedupeAndCap(b), j \in Valid(b) : j < k => Destination(b[j]) # Destination(b[k])
         /\ \A k \in DOMAIN b : IsEntry(b[k])
<1>1. DOMAIN b \subseteq Nat /\ \A k \in DOMAIN b : IsEntry(b[k])
  BY LadderAssumption
<1>. QED  BY <1>1 DEF DedupeAndCap, Capped, Distinct, Valid

LEMMA BooksInit == Init => Books
<1>. SUFFICES ASSUME Init  PROVE Books
  OBVIOUS
<1>1. BookTypes /\ CodeInForce /\ RecordsCarryOwnCode
  BY DEF Init, BookTypes, CodeInForce, RecordsCarryOwnCode
<1>2. Accounted
  BY FS_EmptySet DEF Init, Accounted, Counted, Failures
<1>. QED  BY <1>1, <1>2 DEF Books

-----------------------------------------------------------------------------
(* The parts of a step that the actions share. *)

(* The code follows the rung: an attempt that failed is repeated, followed or the last one. *)
LEMMA CodeFollows ==
  ASSUME BookTypes, CodeInForce, pc = "calling", UNCHANGED body,
         NEW status, NEW isResponse, AfterFailure(status, isResponse)
  PROVE  CodeInForce' /\ i' \in Nat
<1>1. CASE UNCHANGED <<i, code>>
  BY <1>1 DEF CodeInForce, Rung, BookTypes, CodeOf
<1>2. CASE NextRung
  BY <1>2, LadderPlaces DEF CodeInForce, Rung, BookTypes, NextRung, Later, IsFirst, Ladder, CodeOf
<1>. QED  BY <1>1, <1>2 DEF AfterFailure

(* What an attempt adds to the log, to the failures and to the records has the types of these. *)
LEMMA Additions ==
  ASSUME BookTypes, CodeInForce, pc # "idle"
  PROVE  /\ Rung.target \in {body[k].target : k \in Nat}
         /\ [rung |-> i, code |-> code] \in [rung : Nat, code : {CodeOf(body[k]) : k \in Nat}]
         /\ \A status \in Statuses \cup ErrorStatuses, how \in {"returned", "thrown", "broken"} :
              [rung |-> i, status |-> status, how |-> how] \in Attempts
BY DEF BookTypes, CodeInForce, Rung, Attempts

(* Records stay true when one of the current rung is posted. *)
LEMMA RecordsTrue ==
  ASSUME BookTypes, CodeInForce, RecordsCarryOwnCode, pc # "idle", UNCHANGED body,
         records' \in {records, Posted}
  PROVE  /\ RecordsCarryOwnCode'
         /\ records' \in Seq([rung : Nat, code : {CodeOf(body[k]) : k \in Nat}])
<1>1. CASE records' = records
  BY <1>1 DEF RecordsCarryOwnCode, BookTypes
<1>2. CASE records' = Posted
  <2>1. records' \in Seq([rung : Nat, code : {CodeOf(body[k]) : k \in Nat}])
    BY <1>2, Additions DEF Posted, BookTypes
  <2>2. ASSUME NEW k \in DOMAIN records'
        PROVE  records'[k].code = CodeOf(body[records'[k].rung])
    <3>1. CASE k \in DOMAIN records
      BY <3>1, <1>2, Additions DEF Posted, BookTypes, RecordsCarryOwnCode, CodeOf
    <3>2. CASE k = Len(records) + 1
      BY <3>2, <1>2, Additions DEF Posted, BookTypes, CodeInForce, Rung
    <3>. QED  BY <3>1, <3>2, <1>2 DEF Posted, BookTypes
  <2>. QED  BY <2>1, <2>2 DEF RecordsCarryOwnCode, CodeOf
<1>. QED  BY <1>1, <1>2

(* Counts stay true when one attempt is logged: one failure is counted for an attempt that fails, none
   for one that does not, and at least one for a body that breaks off. *)
LEMMA CountsTrue ==
  ASSUME BookTypes, CodeInForce, pc # "idle", Accounted, UNCHANGED <<body, restored>>,
         NEW status \in Statuses \cup ErrorStatuses, NEW how \in {"returned", "thrown", "broken"},
         log' = Tried(status, how),
         LET a == [rung |-> i, status |-> status, how |-> how]
         IN  \/ failed' = Append(failed, Rung.target) /\ FailedAttempt(a)
             \/ failed' = failed /\ ~FailedAttempt(a)
             \/ failed' = Append(Append(failed, Rung.target), Rung.target) /\ how = "broken"
  PROVE  /\ Accounted'
         /\ log' \in Seq(Attempts)
         /\ failed' \in Seq({body[k].target : k \in Nat})
<1>. DEFINE a == [rung |-> i, status |-> status, how |-> how]
            targets == {body[k].target : k \in Nat}
            t == Rung.target
<1>1. a \in Attempts /\ t \in targets /\ log' = Append(log, a)
  BY Additions DEF Tried
<1>2. log \in Seq(Attempts) /\ failed \in Seq(targets)
  BY DEF BookTypes
<1>. HIDE DEF targets
<1>3. log' \in Seq(Attempts)
  BY <1>1, <1>2
<1>4. Append(failed, t) \in Seq(targets) /\ Append(Append(failed, t), t) \in Seq(targets)
  BY <1>1, <1>2
<1>5. failed' \in Seq(targets)
  BY <1>2, <1>4
<1>6. (\A j \in DOMAIN log' : log'[j].how # "broken")
        => how # "broken" /\ \A j \in DOMAIN log : log[j].how # "broken"
  <2>1. /\ DOMAIN log = 1..Len(log) /\ DOMAIN log' = 1..(Len(log) + 1) /\ Len(log) \in Nat
        /\ \A j \in 1..Len(log) : log'[j] = log[j]
        /\ log'[Len(log) + 1] = a
    BY <1>1, <1>2
  <2>2. a.how = how
    OBVIOUS
  <2>. QED  BY <2>1, <2>2
<1>7. ASSUME NEW m
      PROVE  LET c == Cardinality(Counted(failed', m))
                 f == Cardinality(Failures(body, log', m))
             IN  f <= c /\ (restored /\ (\A j \in DOMAIN log' : log'[j].how # "broken") => c = f)
  <2>. DEFINE c == Cardinality(Counted(failed, m))
              f == Cardinality(Failures(body, log, m))
              cNext == Cardinality(Counted(failed', m))
              fNext == Cardinality(Failures(body, log', m))
  <2>1. c \in Nat /\ Cardinality(Counted(Append(failed, t), m)) = c + (IF t = m THEN 1 ELSE 0)
    BY <1>1, <1>2, CountedAppend DEF c
  <2>2. Cardinality(Counted(Append(Append(failed, t), t), m))
          = Cardinality(Counted(Append(failed, t), m)) + (IF t = m THEN 1 ELSE 0)
    <3>. DEFINE once == Append(failed, t)
    <3>1. once \in Seq(targets) /\ t \in targets
      BY <1>1, <1>4
    <3>. HIDE DEF once, t
    <3>2. Cardinality(Counted(Append(once, t), m))
            = Cardinality(Counted(once, m)) + (IF t = m THEN 1 ELSE 0)
      BY <3>1, CountedAppend
    <3>. QED  BY <3>2 DEF once
  <2>3. f \in Nat /\ fNext = f + (IF FailedAttempt(a) /\ body[a.rung].target = m THEN 1 ELSE 0)
    BY <1>1, <1>2, FailuresAppend
  <2>4. body[a.rung].target = t
    BY DEF Rung
  <2>5. f <= c /\ (restored /\ (\A j \in DOMAIN log : log[j].how # "broken") => c = f)
    BY DEF Accounted
  <2>. HIDE DEF c, f, cNext, fNext, a, t
  <2>6. CASE failed' = Append(failed, t) /\ FailedAttempt(a)
    <3>1. cNext = c + (IF t = m THEN 1 ELSE 0)
      BY <2>1, <2>6 DEF cNext
    <3>2. fNext = f + (IF t = m THEN 1 ELSE 0)
      BY <2>3, <2>4, <2>6
    <3>. QED  BY <1>6, <2>1, <2>3, <2>5, <3>1, <3>2 DEF cNext, fNext
  <2>7. CASE failed' = failed /\ ~FailedAttempt(a)
    <3>1. cNext = c /\ fNext = f
      BY <2>1, <2>3, <2>7 DEF c, cNext
    <3>. QED  BY <1>6, <2>5, <3>1 DEF cNext, fNext
  <2>8. CASE failed' = Append(Append(failed, t), t) /\ how = "broken"
    <3>1. cNext \in Nat /\ cNext >= c + (IF t = m THEN 1 ELSE 0)
      BY <2>1, <2>2, <2>8 DEF cNext
    <3>2. fNext <= f + (IF t = m THEN 1 ELSE 0)
      BY <2>3, <2>4
    <3>. QED  BY <1>6, <2>1, <2>3, <2>5, <2>8, <3>1, <3>2 DEF cNext, fNext
  <2>. QED  BY <2>6, <2>7, <2>8 DEF a, t
<1>. QED  BY <1>3, <1>5, <1>7 DEF Accounted, targets

-----------------------------------------------------------------------------
(* Each action keeps the books. *)

LEMMA AuthorizeKeeps ==
  ASSUME Books, NEW b \in Bodies, Authorize(b)
  PROVE  Books'
<1>1. BookTypes' /\ RecordsCarryOwnCode'
  BY LadderPlaces DEF Authorize, BookTypes, RecordsCarryOwnCode
<1>2. CodeInForce'
  BY DEF Authorize, CodeInForce, Rung
<1>3. Accounted'
  BY FS_EmptySet DEF Authorize, Accounted, Counted, Failures
<1>. QED  BY <1>1, <1>2, <1>3 DEF Books

LEMMA AnswerKeeps ==
  ASSUME Books, NEW status \in Statuses, NEW kind, Answer(status, kind)
  PROVE  Books'
<1>. DEFINE a == [rung |-> i, status |-> status, how |-> "returned"]
<1>1. ~FailedAttempt(a)
  BY DEF Answer, Succeeds, FailedAttempt
<1>2. /\ Accounted' /\ log' \in Seq(Attempts)
      /\ failed' \in Seq({body[k].target : k \in Nat})
  BY <1>1, CountsTrue DEF Books, Answer
<1>3. /\ RecordsCarryOwnCode'
      /\ records' \in Seq([rung : Nat, code : {CodeOf(body[k]) : k \in Nat}])
  BY RecordsTrue DEF Books, Answer
<1>4. CodeInForce' /\ i' \in Nat
  BY DEF Books, Answer, CodeInForce, Rung, BookTypes
<1>. QED  BY <1>2, <1>3, <1>4 DEF Books, BookTypes, Answer

LEMMA RefuseKeeps ==
  ASSUME Books, NEW status \in Statuses, Refuse(status)
  PROVE  Books'
<1>. DEFINE a == [rung |-> i, status |-> status, how |-> "returned"]
<1>1. FailedAttempt(a)
  BY LadderAssumption DEF Refuse, Succeeds, FailedAttempt
<1>2. /\ Accounted' /\ log' \in Seq(Attempts)
      /\ failed' \in Seq({body[k].target : k \in Nat})
  BY <1>1, CountsTrue DEF Books, Refuse
<1>3. /\ RecordsCarryOwnCode'
      /\ records' \in Seq([rung : Nat, code : {CodeOf(body[k]) : k \in Nat}])
  BY RecordsTrue DEF Books, Refuse
<1>4. CodeInForce' /\ i' \in Nat
  BY CodeFollows DEF Books, Refuse
<1>. QED  BY <1>2, <1>3, <1>4 DEF Books, BookTypes, Refuse

LEMMA ThrowKeeps ==
  ASSUME Books, NEW error \in ErrorStatuses, Throw(error)
  PROVE  Books'
<1>. DEFINE a == [rung |-> i, status |-> error, how |-> "thrown"]
<1>1. FailedAttempt(a)
  BY DEF FailedAttempt
<1>2. /\ Accounted' /\ log' \in Seq(Attempts)
      /\ failed' \in Seq({body[k].target : k \in Nat})
  BY <1>1, CountsTrue DEF Books, Throw, CountThrown
<1>3. /\ RecordsCarryOwnCode'
      /\ records' \in Seq([rung : Nat, code : {CodeOf(body[k]) : k \in Nat}])
  BY RecordsTrue DEF Books, Throw
<1>4. CodeInForce' /\ i' \in Nat
  BY CodeFollows DEF Books, Throw
<1>. QED  BY <1>2, <1>3, <1>4 DEF Books, BookTypes, Throw

LEMMA BreakOffKeeps ==
  ASSUME Books, NEW status \in Statuses, NEW usage \in BOOLEAN, NEW error \in ErrorStatuses,
         BreakOff(status, usage, error)
  PROVE  Books'
<1>. DEFINE a == [rung |-> i, status |-> error, how |-> "broken"]
<1>1. FailedAttempt(a)
  BY DEF FailedAttempt
<1>2. \/ failed' = Append(failed, Rung.target)
      \/ failed' = Append(Append(failed, Rung.target), Rung.target)
  <2>1. failed \in Seq({body[k].target : k \in Nat}) /\ Rung.target \in {body[k].target : k \in Nat}
    BY Additions DEF Books, BookTypes, BreakOff
  <2>2. failed \o <<>> \o <<Rung.target>> = Append(failed, Rung.target)
    BY <2>1
  <2>3. failed \o <<Rung.target>> \o <<Rung.target>> = Append(Append(failed, Rung.target), Rung.target)
    BY <2>1
  <2>. QED  BY <2>2, <2>3 DEF BreakOff
<1>3. /\ Accounted' /\ log' \in Seq(Attempts)
      /\ failed' \in Seq({body[k].target : k \in Nat})
  BY <1>1, <1>2, CountsTrue DEF Books, BreakOff
<1>4. /\ RecordsCarryOwnCode'
      /\ records' \in Seq([rung : Nat, code : {CodeOf(body[k]) : k \in Nat}])
  BY RecordsTrue DEF Books, BreakOff
<1>5. CodeInForce' /\ i' \in Nat
  BY CodeFollows DEF Books, BreakOff
<1>. QED  BY <1>3, <1>4, <1>5 DEF Books, BookTypes, BreakOff

(* After the attempts: the wait, and the end of the request. *)
LEMMA QuietKeeps ==
  ASSUME Books, WakeUp \/ Return \/ UNCHANGED vars
  PROVE  Books'
<1>1. /\ UNCHANGED <<body, i, code, failed, records, log, restored>>
      /\ pc' # "idle" => pc # "idle"
  BY DEF WakeUp, Return, vars
<1>2. BookTypes' /\ RecordsCarryOwnCode' /\ CodeInForce'
  BY <1>1 DEF Books, BookTypes, RecordsCarryOwnCode, CodeInForce, Rung
<1>3. Accounted'
  BY <1>1 DEF Books, Accounted
<1>. QED  BY <1>2, <1>3 DEF Books

(* The failure of the outer catch is one more than the log knows of, and the response is not restored. *)
LEMMA BreakReturnKeeps ==
  ASSUME Books, BreakReturn
  PROVE  Books'
<1>. DEFINE targets == {body[k].target : k \in Nat}
<1>1. /\ UNCHANGED <<body, i, code, records, log>> /\ pc' = "idle" /\ ~restored'
      /\ failed' \in {failed, Append(failed, Rung.target)}
  BY DEF BreakReturn, CountUnlessRecorded
<1>2. failed \in Seq(targets) /\ log \in Seq(Attempts) /\ Rung.target \in targets
  BY Additions DEF Books, BookTypes, BreakReturn
<1>. HIDE DEF targets
<1>3. failed' \in Seq(targets)
  BY <1>1, <1>2
<1>4. ASSUME NEW m
      PROVE  Cardinality(Failures(body, log, m)) <= Cardinality(Counted(failed', m))
  <2>1. Cardinality(Failures(body, log, m)) <= Cardinality(Counted(failed, m))
    BY DEF Books, Accounted
  <2>2. /\ Cardinality(Counted(failed, m)) \in Nat
        /\ Cardinality(Counted(Append(failed, Rung.target), m))
             = Cardinality(Counted(failed, m)) + (IF Rung.target = m THEN 1 ELSE 0)
    BY <1>2, CountedAppend
  <2>3. Cardinality(Failures(body, log, m)) \in Nat
    <3>1. Len(log) \in Nat /\ Failures(body, log, m) \in SUBSET (1..Len(log))
      BY <1>2 DEF Failures
    <3>. QED  BY <3>1, SubsetCount
  <2>4. CASE failed' = failed
    BY <2>1, <2>4
  <2>5. CASE failed' = Append(failed, Rung.target)
    <3>1. Cardinality(Counted(failed', m))
            = Cardinality(Counted(failed, m)) + (IF Rung.target = m THEN 1 ELSE 0)
      BY <2>2, <2>5
    <3>. QED  BY <2>1, <2>2, <2>3, <3>1
  <2>. QED  BY <1>1, <2>4, <2>5
<1>5. Accounted'
  BY <1>1, <1>4 DEF Accounted
<1>6. BookTypes' /\ RecordsCarryOwnCode' /\ CodeInForce'
  BY <1>1, <1>3 DEF Books, BookTypes, RecordsCarryOwnCode, CodeInForce, targets
<1>. QED  BY <1>5, <1>6 DEF Books

LEMMA EndStreamKeeps ==
  ASSUME Books, NEW usage \in BOOLEAN, EndStream(usage)
  PROVE  Books'
<1>1. /\ RecordsCarryOwnCode'
      /\ records' \in Seq([rung : Nat, code : {CodeOf(body[k]) : k \in Nat}])
  BY RecordsTrue DEF Books, EndStream
<1>2. BookTypes' /\ CodeInForce'
  BY <1>1 DEF Books, EndStream, BookTypes, CodeInForce
<1>3. Accounted'
  BY DEF Books, EndStream, Accounted
<1>. QED  BY <1>1, <1>2, <1>3 DEF Books

LEMMA BooksNext == Books /\ [Next]_vars => Books'
<1>. SUFFICES ASSUME Books, [Next]_vars  PROVE Books'
  OBVIOUS
<1>1. CASE \E b \in Bodies : Authorize(b)
  BY <1>1, AuthorizeKeeps
<1>2. CASE Attempt
  BY <1>2, AnswerKeeps, RefuseKeeps, ThrowKeeps, BreakOffKeeps DEF Attempt
<1>3. CASE WakeUp \/ Return \/ UNCHANGED vars
  BY <1>3, QuietKeeps
<1>4. CASE BreakReturn
  BY <1>4, BreakReturnKeeps
<1>5. CASE \E usage \in BOOLEAN : EndStream(usage)
  BY <1>5, EndStreamKeeps
<1>. QED  BY <1>1, <1>2, <1>3, <1>4, <1>5 DEF Next, Finish

(* The books of every request are right, whatever its ladder and however its attempts end: no failure
   is missed, none is counted twice unless a body broke off, and no record carries the code of another
   rung (recordAttemptFailure, modelUsageOneTimeAuthCode). *)
THEOREM BooksAreRight == Spec => []BookkeepingIsRight
<1>1. Init => Books
  BY BooksInit
<1>2. Books /\ [Next]_vars => Books'
  BY BooksNext
<1>3. Books => BookkeepingIsRight
  BY DEF Books, BookkeepingIsRight, Accounted, FailuresCounted, FailuresOf, Counted, Failures
<1>. QED  BY <1>1, <1>2, <1>3, PTL DEF Spec

-----------------------------------------------------------------------------
(* The way through the ladder: what was hit how often, and why it was left. *)

On(s, rung) == {k \in DOMAIN s : s[k].rung = rung}
LeftFor(s, rung) ==
  \E k \in On(s, rung) : (\A j \in On(s, rung) : j <= k) /\ WorthAnother(s[k].status)

WayTypes ==
  /\ pc \in {"idle", "calling", "waiting", "restoring", "streaming"}
  /\ failureRecorded \in BOOLEAN /\ stream \in BOOLEAN /\ restored \in BOOLEAN
  /\ code \in {BaseCode} \cup {body[k].otac : k \in Ladder}
  /\ body = <<>> => pc = "idle" /\ i = 0 /\ n = 0
  /\ body # <<>> => i \in Ladder /\ n \in 0..RetriesOf(Rung)
  /\ \A k \in DOMAIN records : records[k].rung \in Ladder
  /\ \A k \in DOMAIN log : log[k].rung \in Ladder /\ log[k].rung <= i
Behind ==
  \A rung \in Ladder :
    rung < i => Cardinality(On(log, rung)) <= 1 + RetriesOf(body[rung]) /\ LeftFor(log, rung)
Here ==
  body # <<>> =>
    Cardinality(On(log, i)) = IF pc \in {"calling", "waiting"} THEN n ELSE n + 1
Settled ==
  body # <<>> /\ pc \notin {"calling", "waiting"} =>
    /\ log # <<>> /\ log[Len(log)].rung = i
    /\ FailedAttempt(log[Len(log)]) /\ WorthAnother(log[Len(log)].status) => Later = {}
Way == WayTypes /\ Behind /\ Here /\ Settled

LEMMA OnAppend ==
  ASSUME NEW s \in Seq(Attempts), NEW a \in Attempts, NEW rung
  PROVE  /\ Cardinality(On(s, rung)) \in Nat
         /\ a.rung # rung => On(Append(s, a), rung) = On(s, rung)
         /\ a.rung = rung => /\ On(Append(s, a), rung) = On(s, rung) \cup {Len(s) + 1}
                             /\ Cardinality(On(Append(s, a), rung)) = Cardinality(On(s, rung)) + 1
                             /\ WorthAnother(a.status) => LeftFor(Append(s, a), rung)
         /\ a.rung # rung /\ LeftFor(s, rung) => LeftFor(Append(s, a), rung)
<1>1. Len(s) \in Nat /\ On(s, rung) \in SUBSET (1..Len(s))
  BY DEF On
<1>2. /\ DOMAIN Append(s, a) = 1..(Len(s) + 1) /\ DOMAIN s = 1..Len(s)
      /\ \A k \in 1..Len(s) : Append(s, a)[k] = s[k]
      /\ Append(s, a)[Len(s) + 1] = a
  OBVIOUS
<1>3. a.rung # rung => On(Append(s, a), rung) = On(s, rung)
  BY <1>1, <1>2 DEF On
<1>4. a.rung = rung => On(Append(s, a), rung) = On(s, rung) \cup {Len(s) + 1}
  BY <1>1, <1>2 DEF On
<1>5. /\ Cardinality(On(s, rung)) \in Nat
      /\ Cardinality(On(s, rung) \cup {Len(s) + 1}) = Cardinality(On(s, rung)) + 1
  BY <1>1, SubsetCount
<1>6. ASSUME a.rung = rung, WorthAnother(a.status)
      PROVE  LeftFor(Append(s, a), rung)
  <2>1. \A j \in On(s, rung) \cup {Len(s) + 1} : j <= Len(s) + 1
    BY <1>1
  <2>. QED  BY <1>2, <1>4, <1>6, <2>1 DEF LeftFor
<1>7. ASSUME a.rung # rung, LeftFor(s, rung)
      PROVE  LeftFor(Append(s, a), rung)
  BY <1>1, <1>2, <1>3, <1>7 DEF LeftFor
<1>. QED  BY <1>3, <1>4, <1>5, <1>6, <1>7

LEMMA WayAtStart ==
  ASSUME Init
  PROVE  Way
<1>1. /\ body = <<>> /\ i = 0 /\ n = 0 /\ pc = "idle" /\ code = BaseCode
      /\ DOMAIN log = {} /\ DOMAIN records = {}
  BY DEF Init
<1>2. failureRecorded \in BOOLEAN /\ stream \in BOOLEAN /\ restored \in BOOLEAN
  BY DEF Init
<1>3. Ladder = {}
  BY <1>1, LadderPlaces DEF Ladder
<1>. QED  BY <1>1, <1>2, <1>3 DEF Way, WayTypes, Behind, Here, Settled

(* An attempt is logged on its rung, which is then hit again, left for the next one, or the last. *)
LEMMA AttemptKeepsWay ==
  ASSUME Books, Way, pc = "calling", UNCHANGED body,
         NEW status \in Statuses \cup ErrorStatuses, NEW how \in {"returned", "thrown", "broken"},
         log' = Tried(status, how), records' \in {records, Posted},
         failureRecorded' \in BOOLEAN, stream' \in BOOLEAN, restored' \in BOOLEAN,
         \/ /\ UNCHANGED <<i, n, code>> /\ pc' = "restoring"
            /\ ~FailedAttempt([rung |-> i, status |-> status, how |-> how])
         \/ \E isResponse \in BOOLEAN : AfterFailure(status, isResponse)
  PROVE  Way'
<1>. DEFINE a == [rung |-> i, status |-> status, how |-> how]
<1>1. /\ body \in Bodies /\ body # <<>> /\ i \in Ladder /\ n \in 0..RetriesOf(Rung) /\ i \in Nat
      /\ log \in Seq(Attempts) /\ a \in Attempts /\ log' = Append(log, a)
      /\ Len(log) \in Nat
  <2>1. body # <<>> /\ i \in Ladder /\ n \in 0..RetriesOf(Rung)
    BY DEF Way, WayTypes
  <2>2. body \in Bodies \cup {<<>>} /\ i \in Nat /\ log \in Seq(Attempts)
    BY DEF Books, BookTypes
  <2>3. a \in Attempts
    BY <2>2 DEF Attempts
  <2>. QED  BY <2>1, <2>2, <2>3 DEF Tried
<1>2. /\ Ladder' = Ladder /\ Ladder \subseteq Nat
      /\ \A k \in Ladder : IsEntry(body[k])
  BY <1>1, LadderPlaces DEF Ladder
<1>3. \A k \in Ladder : RetriesOf(body[k]) \in Nat
  BY <1>2, LadderAssumption DEF RetriesOf, IsEntry
<1>4. /\ DOMAIN log = 1..Len(log) /\ DOMAIN log' = 1..Len(log) + 1 /\ Len(log') = Len(log) + 1
      /\ \A k \in 1..Len(log) : log'[k] = log[k]
      /\ log'[Len(log) + 1] = a /\ log' # <<>>
  BY <1>1
<1>5. \A k \in DOMAIN log' : log'[k].rung \in Ladder /\ log'[k].rung <= i
  <2>1. a.rung = i
    OBVIOUS
  <2>2. \A k \in DOMAIN log : log[k].rung \in Ladder /\ log[k].rung <= i
    BY DEF Way, WayTypes
  <2>. HIDE DEF a
  <2>. QED  BY <1>1, <1>4, <2>1, <2>2
<1>6. \A k \in DOMAIN records' : records'[k].rung \in Ladder
  <2>1. CASE records' = records
    BY <2>1 DEF Way, WayTypes
  <2>2. CASE records' = Posted
    <3>1. /\ DOMAIN records' = 1..Len(records) + 1 /\ DOMAIN records = 1..Len(records)
          /\ \A k \in 1..Len(records) : records'[k] = records[k]
          /\ records'[Len(records) + 1].rung = i
          /\ Len(records) \in Nat
      BY <2>2 DEF Posted, Books, BookTypes
    <3>2. \A k \in DOMAIN records : records[k].rung \in Ladder
      BY DEF Way, WayTypes
    <3>. QED  BY <1>1, <3>1, <3>2
  <2>. QED  BY <2>1, <2>2
<1>7. /\ Cardinality(On(log', i)) = n + 1
      /\ WorthAnother(status) => LeftFor(log', i)
  <2>1. Cardinality(On(log, i)) = n
    BY <1>1 DEF Way, Here
  <2>. QED  BY <1>1, <2>1, OnAppend
<1>8. \A rung \in Ladder : rung < i =>
        Cardinality(On(log', rung)) <= 1 + RetriesOf(body[rung]) /\ LeftFor(log', rung)
  <2>. SUFFICES ASSUME NEW rung \in Ladder, rung < i
                PROVE  Cardinality(On(log', rung)) <= 1 + RetriesOf(body[rung]) /\ LeftFor(log', rung)
    OBVIOUS
  <2>1. a.rung # rung
    BY <1>1, <1>2
  <2>. QED  BY <1>1, <2>1, OnAppend DEF Way, Behind
<1>9. WorthAnother(status) <=> Retryable(status)
  BY LadderAssumption DEF WorthAnother, Retryable
<1>. HIDE DEF a
<1>10. CASE UNCHANGED <<i, n, code>> /\ pc' = "restoring" /\ ~FailedAttempt(a)
  <2>1. WayTypes'
    BY <1>1, <1>2, <1>5, <1>6, <1>10 DEF Way, WayTypes, Rung
  <2>2. Behind'
    BY <1>2, <1>8, <1>10 DEF Behind
  <2>3. Here'
    BY <1>7, <1>10 DEF Here
  <2>4. Settled'
    BY <1>4, <1>10 DEF Settled, a, FailedAttempt
  <2>. QED  BY <2>1, <2>2, <2>3, <2>4 DEF Way
<1>11. CASE HitAgain(Rung, status) /\ Wait /\ UNCHANGED <<i, code>>
  <2>1. n' = n + 1 /\ n' \in 0..RetriesOf(Rung) /\ pc' = "waiting" /\ i' = i /\ code' = code
    BY <1>1, <1>3, <1>11 DEF HitAgain, Wait, Rung
  <2>2. WayTypes'
    BY <1>1, <1>2, <1>5, <1>6, <2>1 DEF Way, WayTypes, Rung
  <2>3. Behind' /\ Here' /\ Settled'
    BY <1>2, <1>7, <1>8, <2>1 DEF Behind, Here, Settled
  <2>. QED  BY <2>2, <2>3 DEF Way
<1>12. CASE Retryable(status) /\ NextRung /\ UNCHANGED pc
  <2>1. PICK k \in Later : IsFirst(k, Later) /\ i' = k /\ n' = 0 /\ code' = CodeOf(body[k])
    BY <1>12 DEF NextRung
  <2>2. k \in Ladder /\ k > i /\ k \in Nat /\ \A rung \in Ladder : rung < k => rung <= i
    BY <1>1, <1>2, <2>1 DEF Later, IsFirst
  <2>3. WayTypes'
    <3>1. code' \in {BaseCode} \cup {body[j].otac : j \in Ladder}
      BY <2>1, <2>2 DEF CodeOf
    <3>2. n' \in 0..RetriesOf(body[k])
      <4>1. RetriesOf(body[k]) \in Nat /\ n' = 0
        BY <1>3, <2>1, <2>2
      <4>. QED  BY <4>1
    <3>3. ASSUME NEW j \in DOMAIN log'
          PROVE  log'[j].rung \in Ladder /\ log'[j].rung <= k
      <4>. DEFINE rung == log'[j].rung
      <4>1. rung \in Ladder /\ rung <= i
        BY <1>5
      <4>. HIDE DEF rung
      <4>2. rung \in Nat /\ rung <= k
        BY <1>1, <1>2, <2>2, <4>1
      <4>. QED  BY <4>1, <4>2 DEF rung
    <3>. QED  BY <1>1, <1>2, <1>6, <1>12, <2>1, <2>2, <3>1, <3>2, <3>3 DEF Way, WayTypes, Rung
  <2>4. Behind'
    <3>. SUFFICES ASSUME NEW rung \in Ladder, rung < k
                  PROVE  Cardinality(On(log', rung)) <= 1 + RetriesOf(body[rung]) /\ LeftFor(log', rung)
      BY <1>2, <2>1 DEF Behind
    <3>1. CASE rung < i
      BY <1>8, <3>1
    <3>2. CASE rung = i
      BY <1>1, <1>3, <1>7, <1>9, <1>12, <3>2 DEF Rung
    <3>. QED  BY <1>1, <1>2, <2>2, <3>1, <3>2
  <2>5. Here'
    <3>1. On(log', k) = {}
      BY <1>1, <1>2, <1>5, <2>2 DEF On
    <3>. QED  BY <1>12, <2>1, <3>1, FS_EmptySet DEF Here
  <2>6. Settled'
    BY <1>12 DEF Settled
  <2>. QED  BY <2>3, <2>4, <2>5, <2>6 DEF Way
<1>13. CASE /\ ~Retryable(status) \/ Later = {}
            /\ pc' \in {"restoring", "idle"} /\ UNCHANGED <<i, n, code>>
  <2>1. WayTypes'
    BY <1>1, <1>2, <1>5, <1>6, <1>13 DEF Way, WayTypes, Rung
  <2>2. Behind'
    BY <1>2, <1>8, <1>13 DEF Behind
  <2>3. Here'
    BY <1>7, <1>13 DEF Here
  <2>4. Settled'
    BY <1>2, <1>4, <1>9, <1>13 DEF Settled, a, Later
  <2>. QED  BY <2>1, <2>2, <2>3, <2>4 DEF Way
<1>14. ASSUME NEW isResponse \in BOOLEAN, AfterFailure(status, isResponse)
       PROVE  Way'
  BY <1>11, <1>12, <1>13, <1>14 DEF AfterFailure
<1>. QED  BY <1>10, <1>14 DEF a

LEMMA AuthorizeKeepsWay ==
  ASSUME NEW b \in Bodies, Authorize(b), Way
  PROVE  Way'
<1>1. PICK k \in DedupeAndCap(b) :
        IsFirst(k, DedupeAndCap(b)) /\ pc' = "calling" /\ i' = k /\ n' = 0 /\ code' = CodeOf(b[k])
  BY DEF Authorize
<1>2. /\ body' = b /\ Ladder' = DedupeAndCap(b) /\ k \in Ladder' /\ Ladder' \subseteq DOMAIN b
      /\ Ladder' \subseteq Nat /\ \A j \in Ladder' : IsEntry(b[j])
      /\ \A j \in Ladder' : k <= j
  BY <1>1, LadderPlaces DEF Authorize, Ladder, IsFirst
<1>3. /\ log' = <<>> /\ records' = <<>> /\ DOMAIN log' = {} /\ DOMAIN records' = {}
      /\ failureRecorded' = FALSE /\ stream' = FALSE /\ restored' = TRUE
  BY DEF Authorize
<1>4. RetriesOf(b[k]) \in Nat
  BY <1>2, LadderAssumption DEF RetriesOf, IsEntry
<1>5. code' \in {BaseCode} \cup {b[j].otac : j \in Ladder'}
  BY <1>1, <1>2 DEF CodeOf
<1>6. WayTypes'
  <2>1. body' # <<>>
    BY <1>2
  <2>2. n' \in 0..RetriesOf(b[k])
    BY <1>1, <1>4
  <2>3. failureRecorded' \in BOOLEAN /\ stream' \in BOOLEAN /\ restored' \in BOOLEAN
    BY <1>3
  <2>. QED  BY <1>1, <1>2, <1>3, <1>5, <2>1, <2>2, <2>3 DEF WayTypes, Rung
<1>7. Behind'
  <2>1. \A j \in Ladder' : ~ (j < k)
    BY <1>2
  <2>. QED  BY <1>1, <2>1 DEF Behind
<1>8. Here'
  <2>1. On(log', k) = {}
    BY <1>3 DEF On
  <2>. QED  BY <1>1, <2>1, FS_EmptySet DEF Here
<1>9. Settled'
  BY <1>1 DEF Settled
<1>. QED  BY <1>6, <1>7, <1>8, <1>9 DEF Way

(* What follows the attempts leaves the way as it is. *)
LEMMA QuietKeepsWay ==
  ASSUME Books, Way, WakeUp \/ Finish \/ UNCHANGED vars
  PROVE  Way'
<1>1. /\ UNCHANGED <<body, i, n, code, log, failureRecorded, stream>>
      /\ restored' \in BOOLEAN
      /\ pc' \in {"idle", "calling", "waiting", "restoring", "streaming"}
      /\ pc' \in {"calling", "waiting"} <=> pc \in {"calling", "waiting"}
      /\ body = <<>> => pc' = "idle"
      /\ records' = records \/ (records' = Posted /\ body # <<>>)
  BY DEF WakeUp, Finish, Return, BreakReturn, EndStream, vars, Way, WayTypes
<1>2. \A k \in DOMAIN records' : records'[k].rung \in Ladder
  <2>1. CASE records' = records
    BY <2>1 DEF Way, WayTypes
  <2>2. CASE records' = Posted /\ body # <<>>
    <3>1. /\ DOMAIN records' = 1..Len(records) + 1 /\ DOMAIN records = 1..Len(records)
          /\ \A k \in 1..Len(records) : records'[k] = records[k]
          /\ records'[Len(records) + 1].rung = i
          /\ Len(records) \in Nat
      BY <2>2 DEF Posted, Books, BookTypes
    <3>2. i \in Ladder /\ \A k \in DOMAIN records : records[k].rung \in Ladder
      BY <2>2 DEF Way, WayTypes
    <3>. QED  BY <3>1, <3>2
  <2>. QED  BY <1>1, <2>1, <2>2
<1>3. Ladder' = Ladder
  BY <1>1 DEF Ladder
<1>4. WayTypes'
  BY <1>1, <1>2, <1>3 DEF Way, WayTypes, Rung
<1>5. Behind'
  BY <1>1, <1>3 DEF Way, Behind
<1>6. Here'
  BY <1>1 DEF Way, Here
<1>7. Settled'
  BY <1>1, <1>3 DEF Way, Settled, Later
<1>. QED  BY <1>4, <1>5, <1>6, <1>7 DEF Way

LEMMA WayNext == Books /\ Way /\ [Next]_vars => Way'
<1>. SUFFICES ASSUME Books, Way, [Next]_vars  PROVE Way'
  OBVIOUS
<1>0. failureRecorded \in BOOLEAN /\ stream \in BOOLEAN /\ restored \in BOOLEAN
  BY DEF Way, WayTypes
<1>1. CASE \E b \in Bodies : Authorize(b)
  BY <1>1, AuthorizeKeepsWay
<1>2. ASSUME NEW status \in Statuses, NEW kind \in {"usage", "none", "stream"}, Answer(status, kind)
      PROVE  Way'
  <2>1. /\ pc = "calling" /\ UNCHANGED <<body, i, n, code>> /\ pc' = "restoring"
        /\ log' = Tried(status, "returned") /\ records' \in {records, Posted}
    BY <1>2 DEF Answer
  <2>2. ~FailedAttempt([rung |-> i, status |-> status, how |-> "returned"])
    BY <1>2 DEF Answer, Succeeds, FailedAttempt
  <2>3. failureRecorded' \in BOOLEAN /\ stream' \in BOOLEAN /\ restored' \in BOOLEAN
    BY <1>0, <1>2 DEF Answer
  <2>. QED  BY <2>1, <2>2, <2>3, AttemptKeepsWay
<1>3. ASSUME NEW status \in Statuses, Refuse(status)
      PROVE  Way'
  <2>1. /\ pc = "calling" /\ UNCHANGED body /\ AfterFailure(status, TRUE)
        /\ log' = Tried(status, "returned") /\ records' \in {records, Posted}
    BY <1>3 DEF Refuse
  <2>2. failureRecorded' \in BOOLEAN /\ stream' \in BOOLEAN /\ restored' \in BOOLEAN
    BY <1>0, <1>3 DEF Refuse
  <2>. QED  BY <2>1, <2>2, AttemptKeepsWay
<1>4. ASSUME NEW error \in ErrorStatuses, Throw(error)
      PROVE  Way'
  <2>1. /\ pc = "calling" /\ UNCHANGED body /\ AfterFailure(error, FALSE)
        /\ log' = Tried(error, "thrown") /\ records' \in {records, Posted}
    BY <1>4 DEF Throw
  <2>2. failureRecorded' \in BOOLEAN /\ stream' \in BOOLEAN /\ restored' \in BOOLEAN
    BY <1>0, <1>4 DEF Throw
  <2>. QED  BY <2>1, <2>2, AttemptKeepsWay
<1>5. ASSUME NEW status \in Statuses, NEW usage \in BOOLEAN, NEW error \in ErrorStatuses,
             BreakOff(status, usage, error)
      PROVE  Way'
  <2>1. /\ pc = "calling" /\ UNCHANGED body /\ AfterFailure(error, FALSE)
        /\ log' = Tried(error, "broken") /\ records' \in {records, Posted}
    BY <1>5 DEF BreakOff
  <2>2. failureRecorded' \in BOOLEAN /\ stream' \in BOOLEAN /\ restored' \in BOOLEAN
    BY <1>0, <1>5 DEF BreakOff
  <2>. QED  BY <2>1, <2>2, AttemptKeepsWay
<1>6. CASE WakeUp \/ Finish \/ UNCHANGED vars
  BY <1>6, QuietKeepsWay
<1>. QED  BY <1>1, <1>2, <1>3, <1>4, <1>5, <1>6 DEF Next, Attempt

LEMMA WayHolds == Spec => [](Books /\ Way)
<1>1. Init => Books /\ Way
  BY BooksInit, WayAtStart
<1>2. Books /\ Way /\ [Next]_vars => (Books /\ Way)'
  BY BooksNext, WayNext
<1>. QED  BY <1>1, <1>2, PTL DEF Spec

(* Types: the rung is one of the ladder's, and its retries are within what its entry allows. *)
THEOREM TypeCorrect == Spec => []TypeOK
<1>1. Books /\ Way => TypeOK
  BY DEF Books, BookTypes, Way, WayTypes, TypeOK
<1>. QED  BY <1>1, WayHolds, PTL

(* The ladder is followed (dedupeAndCap and runTargetLadder), whatever the array holds and however the
   attempts end: no destination is hit more often than its first entry allows, and a request fails only
   when no other target would change it or every rung was tried. *)
THEOREM LadderHolds == Spec => []LadderIsFollowed
<1>1. ASSUME Books, Way
      PROVE  DestinationWithinBudget
  <2>. SUFFICES ASSUME NEW k \in DOMAIN body, body[k].valid,
                       \A j \in 1..k - 1 : Destination(body[j]) # Destination(body[k])
                PROVE  AttemptsOn(Destination(body[k])) <= 1 + RetriesOf(body[k])
    BY DEF DestinationWithinBudget
  <2>1. /\ body \in Bodies \cup {<<>>} /\ body # <<>> /\ k \in Nat /\ k \in Valid(body)
        /\ DOMAIN body \subseteq Nat \ {0} /\ i \in Ladder /\ n \in 0..RetriesOf(body[i])
        /\ log \in Seq(Attempts)
    <3>1. body \in Bodies \cup {<<>>} /\ log \in Seq(Attempts)
      BY <1>1 DEF Books, BookTypes
    <3>2. body # <<>>
      OBVIOUS
    <3>3. i \in Ladder /\ n \in 0..RetriesOf(body[i])
      BY <1>1, <3>2 DEF Way, WayTypes, Rung
    <3>4. DOMAIN body \subseteq Nat \ {0}
      BY <3>1, <3>2, LadderAssumption
    <3>. QED  BY <3>1, <3>2, <3>3, <3>4 DEF Valid
  <2>2. /\ Ladder \subseteq DOMAIN body /\ Ladder \subseteq Valid(body)
        /\ \A r \in Ladder, j \in Valid(body) : j < r => Destination(body[j]) # Destination(body[r])
        /\ \A r \in DOMAIN body : IsEntry(body[r])
    BY <2>1, LadderPlaces DEF Ladder
  <2>3. RetriesOf(body[k]) \in Nat
    BY <2>2, LadderAssumption DEF RetriesOf, IsEntry
  <2>4. \A r \in Ladder : Destination(body[r]) = Destination(body[k]) => r = k
    <3>. SUFFICES ASSUME NEW r \in Ladder, Destination(body[r]) = Destination(body[k])
                  PROVE  r = k
      OBVIOUS
    <3>1. r \in Nat \ {0}
      BY <2>1, <2>2
    <3>2. ~ (r < k)
      BY <2>1, <3>1
    <3>3. ~ (k < r)
      BY <2>1, <2>2
    <3>. QED  BY <2>1, <3>1, <3>2, <3>3
  <2>5. \A j \in DOMAIN log : log[j].rung \in Ladder /\ log[j].rung <= i
    BY <1>1 DEF Way, WayTypes
  <2>6. {j \in DOMAIN log : Destination(body[log[j].rung]) = Destination(body[k])} = On(log, k)
    BY <2>4, <2>5 DEF On
  <2>7. AttemptsOn(Destination(body[k])) = Cardinality(On(log, k))
    BY <2>6 DEF AttemptsOn
  <2>8. CASE k \in Ladder /\ k < i
    BY <1>1, <2>7, <2>8 DEF Way, Behind
  <2>9. CASE k = i
    <3>1. Cardinality(On(log, i)) = IF pc \in {"calling", "waiting"} THEN n ELSE n + 1
      BY <1>1, <2>1 DEF Way, Here
    <3>. QED  BY <2>1, <2>3, <2>7, <2>9, <3>1
  <2>10. CASE ~ (k \in Ladder /\ k <= i)
    <3>1. On(log, k) = {}
      BY <2>5, <2>10 DEF On
    <3>. QED  BY <2>3, <2>7, <3>1, FS_EmptySet
  <2>11. i \in Nat
    BY <2>1, <2>2
  <2>. QED  BY <2>1, <2>8, <2>9, <2>10, <2>11
<1>2. ASSUME Books, Way
      PROVE  FailsForAReason
  <2>. SUFFICES ASSUME Ended, FailedAttempt(Last(log))
                PROVE  /\ WorthAnother(Last(log).status) => \A k \in Ladder : k <= Last(log).rung
                       /\ \A rung \in Ladder :
                            LET attempts == {k \in DOMAIN log : log[k].rung = rung}
                            IN  rung < Last(log).rung
                                  => attempts # {} /\ WorthAnother(log[Max(attempts)].status)
    BY DEF FailsForAReason
  <2>1. pc = "idle" /\ log # <<>> /\ log \in Seq(Attempts) /\ Last(log) = log[Len(log)]
    BY <1>2 DEF Ended, Books, BookTypes, Last
  <2>2. body # <<>>
    <3>1. Len(log) \in DOMAIN log
      BY <2>1
    <3>2. log[Len(log)].rung \in Ladder
      BY <1>2, <3>1 DEF Way, WayTypes
    <3>. QED  BY <3>2, LadderPlaces DEF Ladder
  <2>3. /\ Last(log).rung = i
        /\ WorthAnother(Last(log).status) => Later = {}
    BY <1>2, <2>1, <2>2 DEF Way, Settled
  <2>4. Ladder \subseteq Nat /\ i \in Nat
    BY <1>2, LadderPlaces DEF Books, BookTypes, Ladder
  <2>5. WorthAnother(Last(log).status) => \A k \in Ladder : k <= Last(log).rung
    BY <2>3, <2>4 DEF Later
  <2>6. ASSUME NEW rung \in Ladder, rung < i
        PROVE  On(log, rung) # {} /\ WorthAnother(log[Max(On(log, rung))].status)
    <3>1. PICK k \in On(log, rung) : (\A j \in On(log, rung) : j <= k) /\ WorthAnother(log[k].status)
      BY <1>2, <2>6 DEF Way, Behind, LeftFor
    <3>2. On(log, rung) \subseteq Int
      BY <2>1 DEF On
    <3>3. \A j \in On(log, rung) : (\A l \in On(log, rung) : j >= l) => j = k
      BY <3>1, <3>2
    <3>4. Max(On(log, rung)) = k
      BY <3>1, <3>2, <3>3 DEF Max
    <3>. QED  BY <3>1, <3>4
  <2>. QED  BY <2>3, <2>5, <2>6 DEF On
<1>3. Books /\ Way => LadderIsFollowed
  BY <1>1, <1>2 DEF LadderIsFollowed
<1>. QED  BY <1>3, WayHolds, PTL
=============================================================================
