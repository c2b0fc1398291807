---------------------------- MODULE FusionProofs ----------------------------
(* Proofs about a fusion request, for aliases of any size and with any options. *)
EXTENDS Fusion, FiniteSetTheorems, TLAPS

-----------------------------------------------------------------------------
(* The sizes of the panel and of its batches. *)

LEMMA MaxOfTwo ==
  ASSUME NEW a \in Nat, NEW b \in Nat
  PROVE  Max({a, b}) = IF a >= b THEN a ELSE b
BY DEF Max

LEMMA MinOfTwo ==
  ASSUME NEW a \in Nat, NEW b \in Nat
  PROVE  Min({a, b}) = IF a <= b THEN a ELSE b
BY DEF Min

LEMMA SizeType ==
  ASSUME alias \in Aliases
  PROVE  Size \in Nat /\ alias.options \in Options
<1>1. alias.entries \in Seq(Roles) /\ alias.options \in Options
  BY FusionAssumption
<1>2. Len(alias.entries) \in Nat /\ Panel(alias) \subseteq 1..Len(alias.entries)
  BY <1>1 DEF Panel, With
<1>3. IsFiniteSet(1..Len(alias.entries))
  BY <1>2, FS_Interval
<1>4. IsFiniteSet(Panel(alias))
  BY <1>2, <1>3, FS_Subset
<1>. QED  BY <1>1, <1>4, FS_CardinalityType DEF Size

LEMMA ConcurrencyType ==
  ASSUME alias \in Aliases
  PROVE  /\ alias.options.max_concurrent \in Nat
         /\ Max({1, alias.options.max_concurrent}) \in Nat
<1>1. alias.options \in Options
  BY SizeType
<1>2. alias.options.max_concurrent \in Nat
  BY <1>1 DEF Options
<1>. QED  BY <1>2, MaxOfTwo

LEMMA BatchSizeType ==
  ASSUME alias \in Aliases
  PROVE  /\ BatchSize \in Nat \ {0}
         /\ BatchSize <= Max({1, alias.options.max_concurrent})
<1>1. Size \in Nat /\ alias.options.max_concurrent \in Nat
  BY SizeType, ConcurrencyType
<1>. QED  BY <1>1, MaxOfTwo, MinOfTwo DEF BatchSize

(* A batch that begins within the panel ends within it, and its last position is its greatest. *)
LEMMA BatchShape ==
  ASSUME alias \in Aliases, NEW start \in Nat, start < Size
  PROVE  /\ Min({start + BatchSize, Size}) \in (start + 1)..Size
         /\ Batch(start) = (start + 1)..Min({start + BatchSize, Size})
         /\ Max(Batch(start)) = Min({start + BatchSize, Size})
         /\ Min({start + BatchSize, Size}) <= start + BatchSize
         /\ Min({start + BatchSize, Size}) < Size => Min({start + BatchSize, Size}) = start + BatchSize
<1>. DEFINE end == Min({start + BatchSize, Size})
<1>1. /\ end \in (start + 1)..Size /\ end <= start + BatchSize
      /\ end < Size => end = start + BatchSize
  BY SizeType, BatchSizeType, MinOfTwo
<1>2. Batch(start) = (start + 1)..end
  BY DEF Batch
<1>3. Max((start + 1)..end) = end
  <2>. HIDE DEF end
  <2>. QED  BY <1>1, SizeType DEF Max
<1>. QED  BY <1>1, <1>2, <1>3

LEMMA BatchesApart ==
  ASSUME TypeOK, NEW start \in Nat, start < Size, NEW j \in 1..start
  PROVE  j \in 1..Size /\ j \notin Batch(start)
<1>1. /\ Batch(start) = (start + 1)..Min({start + BatchSize, Size})
      /\ Min({start + BatchSize, Size}) \in (start + 1)..Size /\ Size \in Nat
  BY BatchShape, SizeType DEF TypeOK
<1>. QED  BY <1>1

LEMMA BatchIsSmall ==
  ASSUME alias \in Aliases, NEW start \in Nat, start < Size
  PROVE  /\ IsFiniteSet(Batch(start))
         /\ Cardinality(Batch(start)) <= Max({1, alias.options.max_concurrent})
<1>. DEFINE end == Min({start + BatchSize, Size})
<1>1. end \in (start + 1)..Size /\ end <= start + BatchSize /\ Batch(start) = (start + 1)..end
  BY BatchShape
<1>. HIDE DEF end
<1>2. IsFiniteSet((start + 1)..end) /\ Cardinality((start + 1)..end) = end - start
  <2>1. start + 1 \in Int /\ end \in Int /\ start + 1 <= end
    BY <1>1, SizeType
  <2>. QED  BY <2>1, FS_Interval
<1>3. end - start <= BatchSize
  BY <1>1, SizeType, BatchSizeType
<1>4. Max({1, alias.options.max_concurrent}) \in Nat
  BY ConcurrencyType
<1>. QED  BY <1>1, <1>2, <1>3, <1>4, SizeType, BatchSizeType

-----------------------------------------------------------------------------
(* The strengthening of PanelAccounted: a call is awaited only while its batch is, before its first
   body is read; the panel goes on only before its end; and nothing was read before it begins. *)

Accounts ==
  /\ Ascending(panelTexts) /\ Ascending(panelErrors)
  /\ Range(panelTexts) \cap Range(panelErrors) = {}
  /\ Range(panelTexts) \cup Range(panelErrors) = 1..Done
  /\ \A k \in Range(panelTexts) : calls[k] = "answered"

Progress ==
  /\ \A k \in 1..Size : calls[k] = "calling" => stage = "panel" /\ k \in Batch(from) /\ Done = from
  /\ stage = "panel" => from <= Done /\ Done < Min({from + BatchSize, Size}) /\ from < Size
  /\ stage = "route" => Done = 0 /\ from = 0
  /\ stage \in {"judge", "synth", "answered"} =>
       Done = Size /\ Len(panelTexts) >= alias.options.min_panel

PanelInv == TypeOK /\ Accounts /\ Progress

LEMMA DoneType ==
  ASSUME TypeOK
  PROVE  /\ alias \in Aliases /\ Size \in Nat /\ from \in Nat
         /\ Done \in Nat /\ Len(panelTexts) \in Nat /\ Len(panelErrors) \in Nat
<1>1. alias \in Aliases /\ Size \in Nat
  BY SizeType DEF TypeOK
<1>. QED  BY <1>1 DEF TypeOK, Done

LEMMA InvSuffices == PanelInv => PanelAccounted
<1>. SUFFICES ASSUME PanelInv PROVE PanelAccounted
  OBVIOUS
<1>. USE DEF PanelInv
<1>1. \A k \in 1..Size : calls[k] = "calling" => Done <= from /\ from < k
  <2>. SUFFICES ASSUME NEW k \in 1..Size, calls[k] = "calling" PROVE Done <= from /\ from < k
    OBVIOUS
  <2>1. k \in Batch(from) /\ Done = from /\ from < Size
    BY DEF Progress
  <2>2. k >= from + 1
    <3>1. /\ Batch(from) = (from + 1)..Min({from + BatchSize, Size})
          /\ Min({from + BatchSize, Size}) \in (from + 1)..Size /\ from \in Nat /\ Size \in Nat
      BY <2>1, BatchShape, DoneType
    <3>. QED  BY <2>1, <3>1
  <2>. QED  BY <2>1, <2>2, DoneType
<1>2. Cardinality({k \in 1..Size : calls[k] = "calling"}) <= Max({1, alias.options.max_concurrent})
  <2>. DEFINE C == {k \in 1..Size : calls[k] = "calling"}
  <2>1. Max({1, alias.options.max_concurrent}) \in Nat
    BY ConcurrencyType DEF TypeOK
  <2>2. CASE C = {}
    BY <2>1, <2>2, FS_EmptySet
  <2>3. CASE C # {}
    <3>1. C \subseteq Batch(from) /\ from < Size /\ from \in Nat
      BY <2>3, DoneType DEF Progress
    <3>2. IsFiniteSet(Batch(from)) /\ Cardinality(Batch(from)) <= Max({1, alias.options.max_concurrent})
      BY <3>1, BatchIsSmall DEF TypeOK
    <3>3. Cardinality(C) <= Cardinality(Batch(from)) /\ IsFiniteSet(C)
      BY <3>1, <3>2, FS_Subset
    <3>4. Cardinality(C) \in Nat /\ Cardinality(Batch(from)) \in Nat
      BY <3>2, <3>3, FS_CardinalityType
    <3>. QED  BY <2>1, <3>2, <3>3, <3>4
  <2>. QED  BY <2>2, <2>3
<1>. QED  BY <1>1, <1>2 DEF PanelAccounted, Accounts, Progress, FanOutBounded

LEMMA InvInit == Init => PanelInv
<1>. SUFFICES ASSUME Init PROVE PanelInv
  OBVIOUS
<1>1. Size \in Nat
  BY SizeType DEF Init
<1>2. TypeOK
  <2>1. <<>> \in Seq(1..Size) /\ 0 \in 0..Size
    BY <1>1
  <2>. QED  BY <1>1, <2>1 DEF Init, TypeOK, Stages
<1>3. Done = 0
  BY DEF Init, Done
<1>4. Accounts
  BY <1>3 DEF Init, Accounts, Ascending, Range
<1>5. Progress
  BY <1>3 DEF Init, Progress
<1>. QED  BY <1>2, <1>4, <1>5 DEF PanelInv

-----------------------------------------------------------------------------
(* The steps.  What only moves calls that are awaited, or the stage, leaves the accounts. *)

LEMMA AccountsKept ==
  ASSUME Accounts, UNCHANGED <<panelTexts, panelErrors>>,
         \A k \in Range(panelTexts) : calls[k] = "answered" => calls'[k] = "answered"
  PROVE  Accounts' /\ Done' = Done
BY DEF Accounts, Done, Ascending

(* A batch that starts calls its positions and no others. *)
LEMMA StartedCalls ==
  ASSUME TypeOK, NEW start \in Nat, start < Size
  PROVE  /\ Started(start) \in [1..Size -> {"idle", "calling", "answered", "refused", "timedOut"}]
         /\ \A k \in 1..Size : Started(start)[k] = IF k \in Batch(start) THEN "calling" ELSE calls[k]
         /\ Batch(start) \subseteq 1..Size
<1>1. Batch(start) \subseteq 1..Size
  <2>1. /\ Batch(start) = (start + 1)..Min({start + BatchSize, Size})
        /\ Min({start + BatchSize, Size}) \in (start + 1)..Size /\ Size \in Nat
    BY BatchShape, DoneType
  <2>. QED  BY <2>1
<1>. QED  BY <1>1 DEF Started, TypeOK

(* The sizes and the batches are those of the alias. *)
LEMMA SameAlias ==
  ASSUME alias' = alias
  PROVE  Size' = Size /\ BatchSize' = BatchSize /\ Batch(from)' = Batch(from')
BY DEF Size, BatchSize, Batch

LEMMA RouteKeeps ==
  ASSUME PanelInv, Route
  PROVE  PanelInv'
<1>. USE DEF PanelInv
<1>1. UNCHANGED <<alias, depth, from, panelTexts, panelErrors, analysis>> /\ stage = "route"
  BY DEF Route
<1>2. Size' = Size /\ Done' = Done /\ Done = 0 /\ from = 0 /\ Size \in Nat
  BY <1>1, DoneType DEF Size, Done, Progress
<1>3. Range(panelTexts) = {}
  <2>1. Len(panelTexts) = 0
    BY <1>2, DoneType DEF Done
  <2>. QED  BY <2>1 DEF Range, TypeOK
<1>4. Accounts'
  BY <1>1, <1>3, AccountsKept
<1>5. CASE stage' # "panel"
  <2>1. stage' \in {"composite", "refused", "failed"} /\ UNCHANGED <<calls, running>>
    BY <1>5 DEF Route
  <2>2. TypeOK'
    BY <1>1, <1>2, <2>1 DEF TypeOK, Stages
  <2>3. Progress'
    BY <1>1, <1>2, <2>1 DEF Progress
  <2>. QED  BY <1>4, <2>2, <2>3
<1>6. CASE stage' = "panel"
  <2>1. Size > 0 /\ calls' = Started(0) /\ running' = Batch(0)
    BY <1>6 DEF Route
  <2>2. /\ calls' \in [1..Size -> {"idle", "calling", "answered", "refused", "timedOut"}]
        /\ Batch(0) \subseteq 1..Size
        /\ 0 < Min({0 + BatchSize, Size})
    BY <1>2, <2>1, StartedCalls, BatchShape, DoneType
  <2>3. TypeOK'
    BY <1>1, <1>2, <1>6, <2>1, <2>2 DEF TypeOK, Stages
  <2>4. \A k \in 1..Size : calls'[k] = "calling" => k \in Batch(0)
    BY <1>1, <1>2, <2>1, StartedCalls DEF Progress
  <2>5. Progress'
    BY <1>1, <1>2, <1>6, <2>1, <2>2, <2>4, SameAlias DEF Progress
  <2>. QED  BY <1>4, <2>3, <2>5
<1>. QED  BY <1>5, <1>6

(* A call that ends, in time or not, is no longer awaited. *)
LEMMA CallEndsKeeps ==
  ASSUME PanelInv, NEW k \in 1..Size, Answer(k) \/ Timeout(k)
  PROVE  PanelInv'
<1>. USE DEF PanelInv
<1>1. /\ UNCHANGED <<alias, depth, stage, from, panelTexts, panelErrors, analysis>>
      /\ running' \subseteq 1..Size
  BY DEF Answer, Timeout, TypeOK
<1>2. /\ calls' \in [1..Size -> {"idle", "calling", "answered", "refused", "timedOut"}]
      /\ \A j \in 1..Size : calls'[j] = calls[j] \/ (calls[j] = "calling" /\ calls'[j] # "calling")
  BY DEF Answer, Timeout, TypeOK
<1>3. Size' = Size /\ BatchSize' = BatchSize /\ Batch(from)' = Batch(from) /\ Done' = Done
  BY <1>1, SameAlias DEF Done
<1>4. TypeOK'
  BY <1>1, <1>2, <1>3 DEF TypeOK
<1>5. Range(panelTexts) \subseteq 1..Size
  <2>1. panelTexts \in Seq(1..Size)
    BY DEF TypeOK
  <2>2. \A j \in DOMAIN panelTexts : panelTexts[j] \in 1..Size
    BY <2>1, DoneType
  <2>. QED  BY <2>2 DEF Range
<1>6. Accounts'
  BY <1>1, <1>2, <1>5, AccountsKept
<1>7. Progress'
  BY <1>1, <1>2, <1>3 DEF Progress
<1>. QED  BY <1>4, <1>6, <1>7

-----------------------------------------------------------------------------
(* The reading of a body. *)

LEMMA AscendingAppend ==
  ASSUME NEW s \in Seq(1..Size), NEW d \in Nat, Ascending(s), Range(s) \subseteq 1..d
  PROVE  Ascending(Append(s, d + 1)) /\ Range(Append(s, d + 1)) = Range(s) \cup {d + 1}
<1>1. \A j \in 1..Len(s) : s[j] \in Nat /\ s[j] <= d
  BY DEF Range
<1>. QED  BY <1>1 DEF Ascending, Range

(* The position read is the next one, of the current batch, whose calls are settled. *)
LEMMA NextBody ==
  ASSUME PanelInv, ReadBody
  PROVE  /\ Done + 1 \in Batch(from) /\ Done + 1 \in 1..Size /\ stage = "panel"
         /\ \A k \in 1..Size : calls[k] # "calling"
         /\ UNCHANGED <<alias, depth, analysis>>
<1>. USE DEF PanelInv
<1>1. stage = "panel" /\ Settled /\ UNCHANGED <<alias, depth, analysis>>
  BY DEF ReadBody
<1>2. from <= Done /\ Done < Min({from + BatchSize, Size}) /\ from < Size
  BY <1>1 DEF Progress
<1>3. Done + 1 \in Batch(from) /\ Done + 1 \in 1..Size
  BY <1>2, BatchShape, DoneType DEF TypeOK
<1>4. \A k \in 1..Size : calls[k] # "calling"
  BY <1>1 DEF Settled, Progress
<1>. QED  BY <1>1, <1>3, <1>4

LEMMA ReadAccounts ==
  ASSUME PanelInv, ReadBody,
         \A k \in 1..(Done + 1) : calls[k] = "answered" => calls'[k] = "answered"
  PROVE  /\ Accounts' /\ Done' = Done + 1
         /\ panelTexts' \in Seq(1..Size) /\ panelErrors' \in Seq(1..Size)
<1>. USE DEF PanelInv
<1>. DEFINE d == Done
<1>1. d \in Nat /\ d + 1 \in 1..Size
  BY NextBody, DoneType
<1>2. /\ panelTexts \in Seq(1..Size) /\ panelErrors \in Seq(1..Size)
      /\ Ascending(panelTexts) /\ Ascending(panelErrors)
      /\ Range(panelTexts) \cap Range(panelErrors) = {}
      /\ Range(panelTexts) \cup Range(panelErrors) = 1..d
      /\ \A k \in Range(panelTexts) : calls[k] = "answered"
      /\ d = Len(panelTexts) + Len(panelErrors)
  BY DEF TypeOK, Accounts, Done
<1>3. \/ calls[d + 1] = "answered" /\ panelTexts' = Append(panelTexts, d + 1) /\ UNCHANGED panelErrors
      \/ panelErrors' = Append(panelErrors, d + 1) /\ UNCHANGED panelTexts
  BY DEF ReadBody
<1>. HIDE DEF d
<1>4. d + 1 \notin 1..d /\ 1..(d + 1) = (1..d) \cup {d + 1}
  BY <1>1
<1>5. CASE calls[d + 1] = "answered" /\ panelTexts' = Append(panelTexts, d + 1) /\ UNCHANGED panelErrors
  <2>1. Ascending(panelTexts') /\ Range(panelTexts') = Range(panelTexts) \cup {d + 1}
    BY <1>1, <1>2, <1>5, AscendingAppend
  <2>2. panelTexts' \in Seq(1..Size) /\ Len(panelTexts') = Len(panelTexts) + 1
    BY <1>1, <1>2, <1>5
  <2>3. Done' = d + 1
    BY <1>2, <1>5, <2>2 DEF Done
  <2>4. \A k \in Range(panelTexts') : calls'[k] = "answered"
    BY <1>2, <1>4, <1>5, <2>1 DEF d
  <2>5. /\ Range(panelTexts') \cap Range(panelErrors') = {}
        /\ Range(panelTexts') \cup Range(panelErrors') = 1..Done'
    BY <1>2, <1>4, <1>5, <2>1, <2>3
  <2>6. Ascending(panelErrors')
    BY <1>2, <1>5
  <2>. QED  BY <1>2, <1>5, <2>1, <2>2, <2>3, <2>4, <2>5, <2>6 DEF Accounts, Ascending, d
<1>6. CASE panelErrors' = Append(panelErrors, d + 1) /\ UNCHANGED panelTexts
  <2>1. Ascending(panelErrors') /\ Range(panelErrors') = Range(panelErrors) \cup {d + 1}
    BY <1>1, <1>2, <1>6, AscendingAppend
  <2>2. panelErrors' \in Seq(1..Size) /\ Len(panelErrors') = Len(panelErrors) + 1
    BY <1>1, <1>2, <1>6
  <2>3. Done' = d + 1
    BY <1>2, <1>6, <2>2 DEF Done
  <2>4. \A k \in Range(panelTexts') : calls'[k] = "answered"
    BY <1>2, <1>4, <1>6 DEF d
  <2>5. /\ Range(panelTexts') \cap Range(panelErrors') = {}
        /\ Range(panelTexts') \cup Range(panelErrors') = 1..Done'
    BY <1>2, <1>4, <1>6, <2>1, <2>3
  <2>6. Ascending(panelTexts')
    BY <1>2, <1>6
  <2>. QED  BY <1>2, <1>6, <2>1, <2>2, <2>3, <2>4, <2>5, <2>6 DEF Accounts, Ascending, d
<1>. QED  BY <1>3, <1>5, <1>6

LEMMA ReadBodyKeeps ==
  ASSUME PanelInv, ReadBody
  PROVE  PanelInv'
<1>. USE DEF PanelInv
<1>. DEFINE k == Done + 1
            last == Min({from + BatchSize, Size})
<1>1. /\ k \in Batch(from) /\ k \in 1..Size /\ stage = "panel"
      /\ \A j \in 1..Size : calls[j] # "calling"
      /\ UNCHANGED <<alias, depth, analysis>>
  BY NextBody
<1>2. /\ Size' = Size /\ BatchSize' = BatchSize /\ Batch(from)' = Batch(from')
      /\ Size \in Nat /\ from \in Nat /\ BatchSize \in Nat \ {0} /\ Done \in Nat
  BY <1>1, SameAlias, DoneType, BatchSizeType DEF TypeOK
<1>3. NextBatch(k, panelTexts')
  BY DEF ReadBody
<1>4. /\ Max(Batch(from)) = last /\ last \in (from + 1)..Size /\ from < Size
      /\ (last < Size => last = from + BatchSize) /\ Done < last /\ from <= Done
  BY <1>1, BatchShape, DoneType DEF Progress, TypeOK
<1>k. k \in Nat /\ Done < k /\ k <= last /\ last \in Nat /\ from <= k
  BY <1>1, <1>2, <1>4
<1>. HIDE DEF k, last
<1>5. CASE k # last
  <2>1. UNCHANGED <<stage, from, calls, running>>
    BY <1>3, <1>4, <1>5 DEF NextBatch
  <2>2. /\ Accounts' /\ Done' = k
        /\ panelTexts' \in Seq(1..Size) /\ panelErrors' \in Seq(1..Size)
    BY <2>1, ReadAccounts DEF k
  <2>3. TypeOK'
    BY <1>1, <1>2, <2>1, <2>2 DEF TypeOK
  <2>4. k < last /\ from <= k
    BY <1>2, <1>4, <1>5, <1>k
  <2>5. Progress'
    BY <1>1, <1>2, <1>4, <2>1, <2>2, <2>4 DEF Progress, last
  <2>. QED  BY <2>2, <2>3, <2>5
<1>6. CASE k = last /\ k < Size
  <2>1. /\ from' = from + BatchSize /\ stage' = stage
        /\ calls' = Started(from + BatchSize) /\ running' = running \cup Batch(from + BatchSize)
    BY <1>3, <1>4, <1>6 DEF NextBatch
  <2>2. k = from' /\ from' \in Nat /\ from' < Size
    BY <1>2, <1>4, <1>6, <1>k, <2>1
  <2>3. /\ calls' \in [1..Size -> {"idle", "calling", "answered", "refused", "timedOut"}]
        /\ \A j \in 1..Size : calls'[j] = IF j \in Batch(from') THEN "calling" ELSE calls[j]
        /\ Batch(from') \subseteq 1..Size
    BY <2>1, <2>2, StartedCalls
  <2>4. /\ Batch(from') = (from' + 1)..Min({from' + BatchSize, Size})
        /\ Min({from' + BatchSize, Size}) \in (from' + 1)..Size
    BY <2>2, BatchShape DEF TypeOK
  <2>5. \A j \in 1..k : calls[j] = "answered" => calls'[j] = "answered"
    <3>1. \A j \in 1..from' : j \in 1..Size /\ j \notin Batch(from')
      BY <2>2, BatchesApart
    <3>2. 1..k = 1..from'
      BY <2>2
    <3>. QED  BY <2>3, <3>1, <3>2
  <2>6. /\ Accounts' /\ Done' = k
        /\ panelTexts' \in Seq(1..Size) /\ panelErrors' \in Seq(1..Size)
    BY <2>5, ReadAccounts DEF k
  <2>7. TypeOK'
    <3>1. from' \in 0..Size
      BY <1>2, <2>2
    <3>2. running' \subseteq 1..Size
      BY <2>1, <2>2, <2>3 DEF TypeOK
    <3>. QED  BY <1>1, <1>2, <2>1, <2>3, <2>6, <3>1, <3>2 DEF TypeOK
  <2>8. Progress'
    <3>1. \A j \in 1..Size : calls'[j] = "calling" => j \in Batch(from')
      BY <1>1, <2>3
    <3>2. k < Min({from' + BatchSize, Size}) /\ from' <= k
      BY <1>2, <2>2, <2>4
    <3>. QED  BY <1>1, <1>2, <2>1, <2>2, <2>6, <3>1, <3>2 DEF Progress
  <2>. QED  BY <2>6, <2>7, <2>8
<1>7. CASE k = last /\ k = Size
  <2>1. stage' = AfterPanel(panelTexts') /\ UNCHANGED <<from, calls, running>>
    BY <1>3, <1>4, <1>7 DEF NextBatch
  <2>2. /\ Accounts' /\ Done' = k
        /\ panelTexts' \in Seq(1..Size) /\ panelErrors' \in Seq(1..Size)
    BY <2>1, ReadAccounts DEF k
  <2>3. /\ stage' \in {"failed", "judge", "synth"}
        /\ stage' \in {"judge", "synth"} => Len(panelTexts') >= alias.options.min_panel
    <3>1. Len(panelTexts') \in Nat /\ alias.options.min_panel \in Nat
      BY <2>2, SizeType DEF TypeOK, Options
    <3>. QED  BY <2>1, <3>1 DEF AfterPanel
  <2>4. TypeOK'
    BY <1>1, <1>2, <2>1, <2>2, <2>3 DEF TypeOK, Stages
  <2>5. Progress'
    BY <1>1, <1>2, <1>7, <2>1, <2>2, <2>3 DEF Progress
  <2>. QED  BY <2>2, <2>4, <2>5
<1>. QED  BY <1>1, <1>2, <1>5, <1>6, <1>7

-----------------------------------------------------------------------------
LEMMA LaterStagesKeep ==
  ASSUME PanelInv, Judge \/ Synthesise \/ UNCHANGED vars
  PROVE  PanelInv'
<1>. USE DEF PanelInv
<1>1. UNCHANGED <<alias, depth, from, calls, running, panelTexts, panelErrors>>
  BY DEF Judge, Synthesise, vars
<1>2. Size' = Size /\ BatchSize' = BatchSize /\ Batch(from)' = Batch(from) /\ Done' = Done
  BY <1>1, SameAlias DEF Done
<1>3. Accounts'
  BY <1>1, AccountsKept
<1>4. \/ UNCHANGED <<stage, analysis>>
      \/ /\ stage \in {"judge", "synth"} /\ stage' \in {"synth", "failed", "answered"}
         /\ analysis' \in BOOLEAN
  BY DEF Judge, Synthesise, vars, TypeOK
<1>5. TypeOK'
  BY <1>1, <1>2, <1>4 DEF TypeOK, Stages
<1>6. Progress'
  BY <1>1, <1>2, <1>4 DEF Progress
<1>. QED  BY <1>3, <1>5, <1>6

(* For an alias of any size, with any options: each target of the panel is accounted for once and in
   order, a text is of a call that answered in time, the later stages see the whole panel with its
   quorum, and no more calls are awaited at once than max_concurrent allows. *)
THEOREM PanelIsAccounted == Spec => []PanelAccounted
<1>1. Init => PanelInv
  BY InvInit
<1>2. PanelInv /\ [Next]_vars => PanelInv'
  BY RouteKeeps, CallEndsKeeps, ReadBodyKeeps, LaterStagesKeep DEF Next, Finished
<1>3. PanelInv => PanelAccounted
  BY InvSuffices
<1>. QED  BY <1>1, <1>2, <1>3, PTL DEF Spec
=============================================================================
