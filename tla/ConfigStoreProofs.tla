-------------------------- MODULE ConfigStoreProofs --------------------------
(* Proofs about the configuration, for any number of overlapping loads, edits and saves, and any names,
   URLs, keys and initial files that fit together (ConfigAssumption). *)
EXTENDS ConfigStore, FiniteSetTheorems, WellFoundedInduction, TLAPS

(* 1. A load does not put back what it parsed before the file was written. *)

(* The file is behind its backup only after a crash in a rewrite, which ended every load; no load that
   starts from the empty file gets as far as a rewrite of its own. *)
NoLoadBehindBackup ==
  /\ DOMAIN load = Loads
  /\ \/ file = committed
     \/ file = Empty /\ backup = committed /\ \A l \in Loads : load[l].at = "idle"

LEMMA BackupInit == Init => NoLoadBehindBackup
BY DEF Init, NoLoadBehindBackup

(* A load that is not idle has a whole file under it. *)
LEMMA InFlight ==
  ASSUME NoLoadBehindBackup, NEW l \in Loads, load[l].at # "idle"
  PROVE  file = committed
BY DEF NoLoadBehindBackup

LEMMA LoadKeeps ==
  ASSUME NoLoadBehindBackup, NEW l \in Loads,
         StartLoad(l) \/ ReadBundle(l) \/ StoreBundle(l) \/ HideAndFinish(l) \/ LoadFails(l)
  PROVE  NoLoadBehindBackup'
<1>1. CASE StartLoad(l)
  <2>1. CASE file.store
    <3>1. file # Empty
      BY <2>1 DEF Empty
    <3>. QED  BY <1>1, <2>1, <3>1 DEF StartLoad, NoLoadBehindBackup
  <2>2. CASE ~file.store
    <3>1. load' = [load EXCEPT ![l] = Idle] /\ UNCHANGED <<file, backup, committed>>
      BY <1>1, <2>2 DEF StartLoad, Finish
    <3>2. Idle.at = "idle"
      BY DEF Idle
    <3>. QED  BY <3>1, <3>2 DEF NoLoadBehindBackup
  <2>. QED  BY <2>1, <2>2
<1>2. CASE ReadBundle(l)
  <2>1. file = committed
    BY <1>2, InFlight DEF ReadBundle
  <2>2. UNCHANGED <<file, committed>> /\ DOMAIN load' = Loads
    BY <1>2 DEF ReadBundle, Finish, NoLoadBehindBackup
  <2>. QED  BY <2>1, <2>2 DEF NoLoadBehindBackup
<1>3. CASE StoreBundle(l) \/ LoadFails(l)
  <2>1. file = committed
    BY <1>3, InFlight DEF StoreBundle, LoadFails
  <2>2. UNCHANGED <<file, committed>> /\ DOMAIN load' = Loads
    BY <1>3 DEF StoreBundle, LoadFails, Finish, NoLoadBehindBackup
  <2>. QED  BY <2>1, <2>2 DEF NoLoadBehindBackup
<1>4. CASE HideAndFinish(l)
  <2>1. file = committed
    BY <1>4, InFlight DEF HideAndFinish
  <2>2. file' = committed' /\ DOMAIN load' = Loads
    BY <1>4, <2>1 DEF HideAndFinish, Rewritten, Finish, NoLoadBehindBackup
  <2>. QED  BY <2>2 DEF NoLoadBehindBackup
<1>. QED  BY <1>1, <1>2, <1>3, <1>4

LEMMA CrashKeeps ==
  ASSUME NoLoadBehindBackup, Crash
  PROVE  NoLoadBehindBackup'
<1>1. file = committed /\ UNCHANGED committed
  BY InFlight DEF Crash
<1>2. DOMAIN load' = Loads /\ \A l \in Loads : load'[l].at = "idle"
  BY DEF Crash, Idle
<1>3. file' = file \/ (file' = Empty /\ backup' = file)
  BY DEF Crash
<1>. QED  BY <1>1, <1>2, <1>3 DEF NoLoadBehindBackup

LEMMA BackupNext == NoLoadBehindBackup /\ [Next]_vars => NoLoadBehindBackup'
<1>. SUFFICES ASSUME NoLoadBehindBackup, [Next]_vars  PROVE NoLoadBehindBackup'
  OBVIOUS
<1>1. CASE Edit
  BY <1>1 DEF Edit, Persist, NoLoadBehindBackup
<1>2. CASE PutConfig
  BY <1>2 DEF PutConfig, Persist, NoLoadBehindBackup
<1>3. CASE FetchPayload \/ Reload \/ UNCHANGED vars
  BY <1>3 DEF FetchPayload, Reload, vars, NoLoadBehindBackup
<1>4. CASE Crash
  BY <1>4, CrashKeeps
<1>5. CASE \E l \in Loads :
             StartLoad(l) \/ ReadBundle(l) \/ StoreBundle(l) \/ HideAndFinish(l) \/ LoadFails(l)
  BY <1>5, LoadKeeps
<1>. QED  BY <1>1, <1>2, <1>3, <1>4, <1>5 DEF Next

(* However loads overlap edits, saves and crashes, none puts back what it parsed earlier: what the last edit
   or save wrote is in the file or, after a crash in the middle of a rewrite, in the backup (config-loader.ts,
   the rewrite that hides keys). That a later save or edit keeps it is not said, and not so. *)
THEOREM LoadsKeepWrites == Spec => []CommittedSurvives
<1>1. NoLoadBehindBackup => CommittedSurvives
  BY DEF NoLoadBehindBackup, CommittedSurvives
<1>. QED  BY <1>1, BackupInit, BackupNext, PTL DEF Spec

-----------------------------------------------------------------------------
(* 2. Resolving a name: what one level of Routes says, and what reaching through aliases means. *)

(* A set of sets of names has one that none of the others contains. *)
LEMMA Largest ==
  ASSUME NEW sets \in SUBSET SUBSET Names, sets # {}
  PROVE  \E S \in sets : \A s \in sets : S \subseteq s => s = S
<1>. DEFINE rests == {Names \ s : s \in sets}
<1>1. IsFiniteSet(Names)
  BY ConfigAssumption
<1>2. IsWellFoundedOn(StrictSubsetOrdering(Names), SUBSET Names)
  BY <1>1, FS_FiniteSubsetsOfFinite, FS_StrictSubsetOrderingWellFounded
<1>3. rests \subseteq SUBSET Names /\ rests # {}
  <2>1. PICK s \in sets : TRUE
    OBVIOUS
  <2>2. Names \ s \in rests
    BY <2>1
  <2>3. \A r \in rests : r \in SUBSET Names
    OBVIOUS
  <2>. HIDE DEF rests
  <2>. QED  BY <2>2, <2>3
<1>. HIDE DEF rests
<1>4. \E s \in rests : \A r \in rests : ~ (<<r, s>> \in StrictSubsetOrdering(Names))
  BY <1>2, <1>3, WFMin, Zenon
<1>. USE DEF rests
<1>5. PICK S \in sets :
        \A s \in sets : ~ (<<Names \ s, Names \ S>> \in StrictSubsetOrdering(Names))
  BY <1>4, Zenon
<1>6. ASSUME NEW s \in sets, S \subseteq s
      PROVE  s = S
  <2>1. Names \ s \subseteq Names \ S
    BY <1>6
  <2>2. Names \ s = Names \ S
    BY <1>5, <2>1 DEF StrictSubsetOrdering
  <2>3. s \subseteq Names /\ S \subseteq Names
    OBVIOUS
  <2>. QED  BY <1>6, <2>2, <2>3
<1>. QED  BY <1>5, <1>6

Step(c, t, R, seen) == [n \in Names |-> Expanded(c, t, R, seen, n)]
Above(seen) == {s \in SUBSET Names : seen \subseteq s}
Resolves(c, t, R, S) == R = [s \in Above(S) |-> Step(c, t, R, s)]

LEMMA StepsAgree ==
  ASSUME NEW c, IsConfig(c), NEW t, NEW seen, NEW R, NEW Q,
         \A e \in Names \ seen : R[seen \cup {e}] = Q[seen \cup {e}]
  PROVE  Step(c, t, R, seen) = Step(c, t, Q, seen)
<1>. DEFINE target(P, e) == IF e \in seen THEN {Cycle}
              ELSE IF e \notin Composites(c) THEN Direct(c, e)
              ELSE Selected(c, e, [x \in DOMAIN Targets(c, e) |-> P[seen \cup {e}][x]])
<1>1. ASSUME NEW e
      PROVE  target(R, e) = target(Q, e)
  <2>1. CASE e \in seen \/ e \notin Composites(c)
    BY <2>1
  <2>2. CASE e \notin seen /\ e \in Composites(c)
    <3>1. e \in Names \ seen
      BY <2>2 DEF IsConfig, AreAliases, Composites
    <3>2. R[seen \cup {e}] = Q[seen \cup {e}]
      BY <3>1
    <3>. QED  BY <3>2
  <2>. QED  BY <2>1, <2>2
<1>. HIDE DEF target
<1>2. ASSUME NEW n \in Names
      PROVE  {target(R, e) : e \in Effective(c, n, t)} = {target(Q, e) : e \in Effective(c, n, t)}
  BY <1>1
<1>3. ASSUME NEW n, NEW P
      PROVE  Expanded(c, t, P, seen, n) = UNION {target(P, e) : e \in Effective(c, n, t)}
  BY DEF Expanded, target
<1>4. ASSUME NEW n \in Names
      PROVE  Expanded(c, t, R, seen, n) = Expanded(c, t, Q, seen, n)
  BY <1>2, <1>3
<1>. QED  BY <1>4 DEF Step

LEMMA ResolutionsAgree ==
  ASSUME NEW c, IsConfig(c), NEW t, NEW S \in SUBSET Names, NEW T \in SUBSET Names, NEW R, NEW Q,
         Resolves(c, t, R, S), Resolves(c, t, Q, T)
  PROVE  \A s \in Above(S) \cap Above(T) : R[s] = Q[s]
<1>. DEFINE differ == {s \in Above(S) \cap Above(T) : R[s] # Q[s]}
<1>. SUFFICES ASSUME differ # {}
              PROVE  FALSE
  OBVIOUS
<1>1. differ \in SUBSET SUBSET Names
  BY DEF Above
<1>. HIDE DEF differ
<1>2. PICK s \in differ : \A r \in differ : s \subseteq r => r = s
  BY <1>1, Largest
<1>3. s \in Above(S) /\ s \in Above(T) /\ R[s] # Q[s] /\ s \in SUBSET Names
  BY DEF differ, Above
<1>4. ASSUME NEW e \in Names \ s
      PROVE  R[s \cup {e}] = Q[s \cup {e}]
  <2>1. s \cup {e} \in Above(S) \cap Above(T) /\ s \cup {e} # s
    BY <1>3 DEF Above
  <2>. QED  BY <1>2, <2>1 DEF differ
<1>5. R[s] = Step(c, t, R, s) /\ Q[s] = Step(c, t, Q, s)
  BY <1>3, Zenon DEF Resolves
<1>6. Step(c, t, R, s) = Step(c, t, Q, s)
  BY <1>4, StepsAgree
<1>. QED  BY <1>3, <1>5, <1>6

LEMMA ResolutionExists ==
  ASSUME NEW c, IsConfig(c), NEW t
  PROVE  \A S \in SUBSET Names : \E R : Resolves(c, t, R, S)
<1>. DEFINE none == {S \in SUBSET Names : ~ \E R : Resolves(c, t, R, S)}
<1>. SUFFICES ASSUME none # {}
              PROVE  FALSE
  OBVIOUS
<1>1. none \in SUBSET SUBSET Names
  OBVIOUS
<1>. HIDE DEF none
<1>2. PICK S \in none : \A s \in none : S \subseteq s => s = S
  BY <1>1, Largest
<1>3. S \in SUBSET Names /\ ~ \E R : Resolves(c, t, R, S)
  BY DEF none
<1>. DEFINE of(s) == CHOOSE R : Resolves(c, t, R, s)
            H == [s \in Above(S) |-> of(s)[s]]
            Q == [s \in Above(S) |-> IF s = S THEN Step(c, t, H, S) ELSE of(s)[s]]
<1>4. ASSUME NEW s \in Above(S), s # S
      PROVE  Resolves(c, t, of(s), s)
  <2>1. s \notin none /\ s \in SUBSET Names
    BY <1>2, <1>4 DEF Above
  <2>2. \E R : Resolves(c, t, R, s)
    BY <2>1 DEF none
  <2>. QED  BY <2>2, Zenon
<1>. HIDE DEF of
<1>5. ASSUME NEW s \in Above(S)
      PROVE  Q[s] = Step(c, t, Q, s)
  <2>1. ASSUME NEW e \in Names \ s
        PROVE  /\ s \cup {e} \in Above(S) /\ s \cup {e} # S
               /\ Q[s \cup {e}] = of(s \cup {e})[s \cup {e}]
               /\ H[s \cup {e}] = of(s \cup {e})[s \cup {e}]
    BY <1>5, <2>1 DEF Above
  <2>2. CASE s = S
    <3>1. \A e \in Names \ s : H[s \cup {e}] = Q[s \cup {e}]
      BY <2>1
    <3>2. Q[s] = Step(c, t, H, s)
      BY <2>2
    <3>. HIDE DEF Q, H
    <3>3. Step(c, t, H, s) = Step(c, t, Q, s)
      BY <3>1, StepsAgree
    <3>. QED  BY <3>2, <3>3
  <2>3. CASE s # S
    <3>1. ASSUME NEW e \in Names \ s
          PROVE  of(s)[s \cup {e}] = Q[s \cup {e}]
      <4>1. Resolves(c, t, of(s), s) /\ Resolves(c, t, of(s \cup {e}), s \cup {e})
        BY <1>4, <2>1, <2>3
      <4>2. s \cup {e} \in Above(s) \cap Above(s \cup {e}) /\ s \in SUBSET Names
            /\ s \cup {e} \in SUBSET Names
        BY <3>1 DEF Above
      <4>3. of(s)[s \cup {e}] = of(s \cup {e})[s \cup {e}]
        BY <4>1, <4>2, ResolutionsAgree
      <4>. QED  BY <4>3, <2>1
    <3>2. Q[s] = of(s)[s]
      BY <2>3
    <3>3. of(s)[s] = Step(c, t, of(s), s)
      <4>1. s \in Above(s)
        BY DEF Above
      <4>2. Resolves(c, t, of(s), s)
        BY <1>4, <2>3
      <4>. QED  BY <4>1, <4>2, Zenon DEF Resolves
    <3>. HIDE DEF Q, H
    <3>4. Step(c, t, of(s), s) = Step(c, t, Q, s)
      BY <3>1, StepsAgree
    <3>. QED  BY <3>2, <3>3, <3>4
  <2>. QED  BY <2>2, <2>3
<1>6. Q = [s \in Above(S) |-> Q[s]]
  BY Zenon
<1>. HIDE DEF Q
<1>7. Q = [s \in Above(S) |-> Step(c, t, Q, s)]
  BY <1>5, <1>6
<1>. QED  BY <1>3, <1>7 DEF Resolves

LEMMA ResolutionUnfolds ==
  ASSUME NEW c, IsConfig(c), NEW t, NEW seen \in SUBSET Names, NEW n \in Names
  PROVE  Resolution(c, t)[seen][n] = Expanded(c, t, Resolution(c, t), seen, n)
<1>1. PICK R : Resolves(c, t, R, {})
  BY ResolutionExists
<1>2. Above({}) = SUBSET Names
  BY DEF Above
<1>3. R = [s \in SUBSET Names |-> [m \in Names |-> Expanded(c, t, R, s, m)]]
  BY <1>1, <1>2 DEF Resolves, Step
<1>4. Resolution(c, t) =
        CHOOSE Q : Q = [s \in SUBSET Names |-> [m \in Names |-> Expanded(c, t, Q, s, m)]]
  BY DEF Resolution
<1>5. Resolution(c, t) =
        [s \in SUBSET Names |-> [m \in Names |-> Expanded(c, t, Resolution(c, t), s, m)]]
  BY <1>3, <1>4, Zenon
<1>6. Resolution(c, t)[seen] = [m \in Names |-> Expanded(c, t, Resolution(c, t), seen, m)]
  BY <1>5, Zenon
<1>. QED  BY <1>6, Zenon

(* What is reached from a name is what it leads to and what is reached from there. *)
LEMMA LeadsInside ==
  ASSUME NEW c, IsConfig(c), NEW t
  PROVE  /\ \A a : Leads(c, t, a) \subseteq Names
         /\ \A n \in Names : Effective(c, n, t) \subseteq Names
<1>1. ASSUME NEW n \in Names
      PROVE  Effective(c, n, t) \subseteq Names
  BY DEF Effective, ScheduleTargets, IsConfig, AreSchedules
<1>2. ASSUME NEW a \in Composites(c)
      PROVE  DOMAIN Targets(c, a) \subseteq Names
  BY DEF Composites, Targets, IsConfig, AreAliases, IsAlias
<1>3. ASSUME NEW a
      PROVE  Leads(c, t, a) \subseteq Names
  BY <1>1, <1>2 DEF Leads
<1>. QED  BY <1>1, <1>3

LEMMA ReachesFurther ==
  ASSUME NEW c, IsConfig(c), NEW t, NEW a
  PROVE  /\ Leads(c, t, a) \subseteq ReachedFrom(c, t, a)
         /\ \A b \in ReachedFrom(c, t, a) : Leads(c, t, b) \subseteq ReachedFrom(c, t, a)
<1>1. Leads(c, t, a) \subseteq ReachedFrom(c, t, a)
  BY LeadsInside DEF ReachedFrom
<1>2. ASSUME NEW b \in ReachedFrom(c, t, a), NEW e \in Leads(c, t, b)
      PROVE  e \in ReachedFrom(c, t, a)
  <2>1. e \in Names
    BY LeadsInside
  <2>2. ASSUME NEW names \in Closed(c, t), Leads(c, t, a) \subseteq names
        PROVE  e \in names
    BY <2>2 DEF ReachedFrom, Closed
  <2>. QED  BY <2>1, <2>2 DEF ReachedFrom
<1>. QED  BY <1>1, <1>2

LEMMA ReachedUnfolds ==
  ASSUME NEW c, IsConfig(c), NEW t, NEW a
  PROVE  ReachedFrom(c, t, a) = UNION {{f} \cup ReachedFrom(c, t, f) : f \in Leads(c, t, a)}
<1>. DEFINE further == UNION {{f} \cup ReachedFrom(c, t, f) : f \in Leads(c, t, a)}
<1>1. ASSUME NEW f \in Leads(c, t, a), NEW e \in {f} \cup ReachedFrom(c, t, f)
      PROVE  e \in ReachedFrom(c, t, a)
  <2>1. e \in Names
    BY LeadsInside DEF ReachedFrom
  <2>2. ASSUME NEW names \in Closed(c, t), Leads(c, t, a) \subseteq names
        PROVE  e \in names
    BY <2>2 DEF ReachedFrom, Closed
  <2>. QED  BY <2>1, <2>2 DEF ReachedFrom
<1>2. further \in Closed(c, t) /\ Leads(c, t, a) \subseteq further
  <2>1. further \subseteq Names
    BY LeadsInside DEF ReachedFrom
  <2>2. ASSUME NEW b \in further
        PROVE  Leads(c, t, b) \subseteq further
    <3>1. PICK f \in Leads(c, t, a) : b \in {f} \cup ReachedFrom(c, t, f)
      OBVIOUS
    <3>2. Leads(c, t, b) \subseteq ReachedFrom(c, t, f)
      BY <3>1, ReachesFurther
    <3>. QED  BY <3>2
  <2>3. Leads(c, t, a) \subseteq further
    OBVIOUS
  <2>. HIDE DEF further
  <2>. QED  BY <2>1, <2>2, <2>3 DEF Closed
<1>3. ReachedFrom(c, t, a) \subseteq further
  <2>. HIDE DEF further
  <2>. QED  BY <1>2 DEF ReachedFrom
<1>. QED  BY <1>1, <1>3

(* Nothing but a cycle is answered with the mark of one. *)
LEMMA DirectIsNoCycle ==
  ASSUME NEW c, IsConfig(c), NEW e \in Names
  PROVE  Cycle \notin Direct(c, e)
BY ConfigAssumption DEF Direct, Patterns, IsConfig, AreModels, Cycle, Default

LEMMA SelectedCycle ==
  ASSUME NEW c, IsConfig(c), NEW e \in Names, NEW below, DOMAIN below = DOMAIN Targets(c, e)
  PROVE  Cycle \in Selected(c, e, below) <=> \E x \in DOMAIN Targets(c, e) : Cycle \in below[x]
<1>1. CASE CycleBelow(below, Targets(c, e))
  BY <1>1 DEF Selected, CycleBelow
<1>2. CASE ~CycleBelow(below, Targets(c, e))
  <2>1. \A x \in DOMAIN Targets(c, e) : Cycle \notin below[x]
    BY <1>2 DEF CycleBelow
  <2>2. Selectable(Targets(c, e)) \subseteq DOMAIN Targets(c, e)
    BY DEF Selectable
  <2>. QED  BY <1>2, <2>1, <2>2, DirectIsNoCycle DEF Selected
<1>. QED  BY <1>1, <1>2

(* Expanding e under the aliases seen comes upon a cycle if it gets to one of these or to a cycle. *)
Meets(c, t, e, names) == ({e} \cup ReachedFrom(c, t, e)) \cap (names \cup OnCycle(c, t)) # {}

LEMMA MeetsUnfolds ==
  ASSUME NEW c, IsConfig(c), NEW t, NEW e \in Names, NEW seen
  PROVE  Meets(c, t, e, seen) <=>
           e \in seen \/ \E f \in Leads(c, t, e) : Meets(c, t, f, seen \cup {e})
<1>. DEFINE reached == ReachedFrom(c, t, e)
            cyclic == OnCycle(c, t)
<1>1. reached = UNION {{f} \cup ReachedFrom(c, t, f) : f \in Leads(c, t, e)}
  BY ReachedUnfolds
<1>2. e \in cyclic <=> e \in reached
  BY DEF OnCycle
<1>. HIDE DEF reached, cyclic
<1>3. (\E f \in Leads(c, t, e) : Meets(c, t, f, seen \cup {e}))
        <=> reached \cap (seen \cup {e} \cup cyclic) # {}
  BY <1>1 DEF Meets, cyclic
<1>4. Meets(c, t, e, seen) <=> ({e} \cup reached) \cap (seen \cup cyclic) # {}
  BY DEF Meets, reached, cyclic
<1>. QED  BY <1>2, <1>3, <1>4

LEMMA CycleIsMet ==
  ASSUME NEW c, IsConfig(c), NEW t
  PROVE  \A seen \in SUBSET Names, n \in Names :
           Cycle \in Resolution(c, t)[seen][n] <=> \E e \in Effective(c, n, t) : Meets(c, t, e, seen)
<1>. DEFINE right(S) == \A n \in Names :
              Cycle \in Resolution(c, t)[S][n] <=> \E e \in Effective(c, n, t) : Meets(c, t, e, S)
            wrong == {S \in SUBSET Names : ~right(S)}
<1>. SUFFICES ASSUME wrong # {}
              PROVE  FALSE
  OBVIOUS
<1>1. wrong \in SUBSET SUBSET Names
  OBVIOUS
<1>. HIDE DEF wrong
<1>2. PICK S \in wrong : \A s \in wrong : S \subseteq s => s = S
  BY <1>1, Largest
<1>3. S \in SUBSET Names /\ ~right(S)
  BY DEF wrong
<1>. DEFINE target(e) == IF e \in S THEN {Cycle}
              ELSE IF e \notin Composites(c) THEN Direct(c, e)
              ELSE Selected(c, e, [x \in DOMAIN Targets(c, e) |-> Resolution(c, t)[S \cup {e}][x]])
<1>4. ASSUME NEW e \in Names
      PROVE  Cycle \in target(e) <=> Meets(c, t, e, S)
  <2>1. CASE e \in S
    BY <2>1, MeetsUnfolds
  <2>2. CASE e \notin S /\ e \notin Composites(c)
    <3>1. Leads(c, t, e) = {}
      BY <2>2 DEF Leads
    <3>2. Cycle \notin target(e)
      BY <2>2, DirectIsNoCycle
    <3>. QED  BY <2>2, <3>1, <3>2, MeetsUnfolds
  <2>3. CASE e \notin S /\ e \in Composites(c)
    <3>. DEFINE below == [x \in DOMAIN Targets(c, e) |-> Resolution(c, t)[S \cup {e}][x]]
    <3>1. S \cup {e} \in SUBSET Names /\ S \cup {e} # S
      BY <1>3, <2>3
    <3>2. right(S \cup {e})
      <4>. HIDE DEF right
      <4>1. S \cup {e} \notin wrong
        BY <1>2, <3>1
      <4>. QED  BY <3>1, <4>1 DEF wrong
    <3>3. DOMAIN Targets(c, e) \subseteq Names
      BY <2>3 DEF Composites, Targets, IsConfig, AreAliases, IsAlias
    <3>4. target(e) = Selected(c, e, below)
      BY <2>3
    <3>5. Cycle \in Selected(c, e, below) <=> \E x \in DOMAIN Targets(c, e) : Cycle \in below[x]
      <4>1. DOMAIN below = DOMAIN Targets(c, e)
        OBVIOUS
      <4>. HIDE DEF below
      <4>. QED  BY <4>1, SelectedCycle
    <3>6. ASSUME NEW x \in DOMAIN Targets(c, e)
          PROVE  Cycle \in below[x]
                   <=> \E f \in Effective(c, x, t) : Meets(c, t, f, S \cup {e})
      BY <3>2, <3>3
    <3>7. Leads(c, t, e) = UNION {Effective(c, x, t) : x \in DOMAIN Targets(c, e)}
      BY <2>3 DEF Leads
    <3>. HIDE DEF below, target, right
    <3>8. (\E f \in Leads(c, t, e) : Meets(c, t, f, S \cup {e}))
            <=> \E x \in DOMAIN Targets(c, e) : \E f \in Effective(c, x, t) : Meets(c, t, f, S \cup {e})
      BY <3>7
    <3>. QED  BY <2>3, <3>4, <3>5, <3>6, <3>8, MeetsUnfolds
  <2>. QED  BY <2>1, <2>2, <2>3
<1>5. ASSUME NEW n \in Names
      PROVE  Resolution(c, t)[S][n] = UNION {target(e) : e \in Effective(c, n, t)}
  BY <1>3, ResolutionUnfolds DEF Expanded
<1>. HIDE DEF target
<1>6. ASSUME NEW n \in Names
      PROVE  Cycle \in Resolution(c, t)[S][n] <=> \E e \in Effective(c, n, t) : Meets(c, t, e, S)
  BY <1>4, <1>5, LeadsInside
<1>. QED  BY <1>3, <1>6

(* Resolving a name reports a cycle exactly where there is one. *)
LEMMA CyclesReported ==
  ASSUME NEW c, IsConfig(c), DOMAIN c.models # {}, NEW t, NEW n \in Names
  PROVE  LET reached == UNION {{e} \cup ReachedFrom(c, t, e) : e \in Effective(c, n, t)}
         IN  (Cycle \in Routes(c, t)[n]) <=> (reached \cap OnCycle(c, t) # {})
<1>1. Routes(c, t)[n] = Resolution(c, t)[{}][n]
  BY DEF Routes
<1>2. Cycle \in Resolution(c, t)[{}][n] <=> \E e \in Effective(c, n, t) : Meets(c, t, e, {})
  BY CycleIsMet
<1>. QED  BY <1>1, <1>2 DEF Meets

-----------------------------------------------------------------------------
(* 3. The shapes: stripping, every edit and every save make a configuration of a configuration. *)

LEMMA WithoutIsPart ==
  ASSUME NEW f, NEW x
  PROVE  /\ DOMAIN Without(f, x) \subseteq DOMAIN f /\ x \notin DOMAIN Without(f, x)
         /\ \A y \in DOMAIN Without(f, x) : Without(f, x)[y] = f[y]
BY DEF Without

LEMMA PlusOne ==
  ASSUME NEW f, NEW x, NEW v
  PROVE  /\ DOMAIN Put(f, x, v) = {x} \cup DOMAIN f
         /\ Put(f, x, v)[x] = v
         /\ \A y \in DOMAIN f \ {x} : Put(f, x, v)[y] = f[y]
BY DEF Put

(* Targets of an alias, and what may be made of them. *)
AreTargets(targets) ==
  DOMAIN targets \subseteq Names /\ \A x \in DOMAIN targets : targets[x] \in TargetEntries

LEMMA TargetsOfAlias ==
  ASSUME NEW alias, IsAlias(alias)
  PROVE  /\ AreTargets(alias.targets)
         /\ \A new : AreTargets(new) => /\ IsAlias([alias EXCEPT !.targets = new])
                                        /\ [alias EXCEPT !.targets = new].targets = new
BY DEF IsAlias, AreTargets

LEMMA TargetsWithout ==
  ASSUME NEW targets, AreTargets(targets), NEW x
  PROVE  AreTargets(Without(targets, x))
BY DEF AreTargets, Without

LEMMA TargetsPut ==
  ASSUME NEW targets, AreTargets(targets), NEW x \in Names, NEW entry \in TargetEntries
  PROVE  AreTargets(Put(targets, x, entry))
BY DEF AreTargets, Put

LEMMA AliasesPut ==
  ASSUME NEW aliases, AreAliases(aliases), NEW a \in Names, NEW alias, IsAlias(alias)
  PROVE  AreAliases(Put(aliases, a, alias))
BY DEF AreAliases, Put

LEMMA EmptyIsConfig == IsConfig(Empty) /\ IsConfig(Idle.config) /\ Idle.config = Empty
<1>1. DOMAIN <<>> = {}
  OBVIOUS
<1>. QED  BY <1>1 DEF Idle, Empty, IsConfig, AreModels, AreAliases, AreSchedules

LEMMA NewAliasIsAlias == IsAlias(NewAlias)
<1>1. DOMAIN <<>> = {}
  OBVIOUS
<1>. QED  BY <1>1 DEF NewAlias, IsAlias

LEMMA StrippedIsConfig ==
  ASSUME NEW c, IsConfig(c)
  PROVE  /\ IsConfig(Stripped(c))
         /\ Stripped(c).models = c.models
         /\ Stripped(c).store = c.store
<1>. DEFINE s == Stripped(c)
<1>1. DOMAIN s = DOMAIN c /\ s.models = c.models /\ s.store = c.store /\ s.limit = c.limit
  BY DEF Stripped, IsConfig
<1>2. /\ DOMAIN s.schedule = DOMAIN c.schedule \ DOMAIN c.models
      /\ \A a \in DOMAIN s.schedule : s.schedule[a] = c.schedule[a]
  BY DEF Stripped, IsConfig, Restrict
<1>3. /\ DOMAIN s.composite = DOMAIN c.composite \ DOMAIN c.models
      /\ \A a \in DOMAIN s.composite :
           s.composite[a] = [c.composite[a] EXCEPT !.targets = Without(@, a)]
  BY DEF Stripped, IsConfig, Restrict
<1>4. AreSchedules(s.schedule)
  BY <1>2 DEF IsConfig, AreSchedules
<1>5. ASSUME NEW a \in DOMAIN s.composite
      PROVE  IsAlias(s.composite[a])
  <2>1. IsAlias(c.composite[a])
    BY <1>3 DEF IsConfig, AreAliases
  <2>. DEFINE new == Without(c.composite[a].targets, a)
  <2>2. s.composite[a] = [c.composite[a] EXCEPT !.targets = new]
    BY <1>3
  <2>3. AreTargets(new)
    BY <2>1, TargetsOfAlias, TargetsWithout
  <2>. HIDE DEF s, new
  <2>. QED  BY <2>1, <2>2, <2>3, TargetsOfAlias
<1>6. AreAliases(s.composite)
  BY <1>3, <1>5 DEF IsConfig, AreAliases
<1>. HIDE DEF s
<1>7. IsConfig(s)
  BY <1>1, <1>4, <1>6 DEF IsConfig
<1>. QED  BY <1>1, <1>7 DEF s

LEMMA StrippedIsUsable ==
  ASSUME NEW c, IsConfig(c)
  PROVE  LET s == Stripped(c)
         IN  /\ (Composites(s) \cup DOMAIN s.schedule) \cap DOMAIN s.models = {}
             /\ \A a \in Composites(s) : a \notin DOMAIN Targets(s, a)
<1>. DEFINE s == Stripped(c)
<1>1. s.models = c.models /\ DOMAIN s.schedule = DOMAIN c.schedule \ DOMAIN c.models
  BY DEF Stripped, IsConfig, Restrict
<1>2. /\ DOMAIN s.composite = DOMAIN c.composite \ DOMAIN c.models
      /\ \A a \in DOMAIN s.composite :
           s.composite[a] = [c.composite[a] EXCEPT !.targets = Without(@, a)]
  BY DEF Stripped, IsConfig, Restrict
<1>. HIDE DEF s
<1>3. ASSUME NEW a \in DOMAIN s.composite
      PROVE  a \notin DOMAIN s.composite[a].targets
  <2>1. IsAlias(c.composite[a])
    BY <1>2 DEF IsConfig, AreAliases
  <2>. DEFINE new == Without(c.composite[a].targets, a)
  <2>2. s.composite[a] = [c.composite[a] EXCEPT !.targets = new]
    BY <1>2
  <2>3. AreTargets(new) /\ a \notin DOMAIN new
    BY <2>1, TargetsOfAlias, TargetsWithout, WithoutIsPart
  <2>. HIDE DEF new
  <2>. QED  BY <2>1, <2>2, <2>3, TargetsOfAlias
<1>4. /\ (Composites(s) \cup DOMAIN s.schedule) \cap DOMAIN s.models = {}
      /\ \A a \in Composites(s) : a \notin DOMAIN Targets(s, a)
  BY <1>1, <1>2, <1>3 DEF Composites, Targets
<1>. QED  BY <1>4 DEF s

(* An edit takes the place of one part of a configuration. *)
LEMMA CopiedIsConfig ==
  ASSUME NEW c, IsConfig(c)
  PROVE  /\ IsConfig(Copied(c))
         /\ Copied(c) = [c EXCEPT !.composite = Copied(c).composite]
         /\ DOMAIN Copied(c).composite = DOMAIN c.composite
         /\ \A a \in DOMAIN c.composite : Copied(c).composite[a].targets = c.composite[a].targets
<1>. DEFINE aliases == [a \in DOMAIN c.composite |-> [c.composite[a] EXCEPT !.tools = "none"]]
<1>1. Copied(c) = [c EXCEPT !.composite = aliases] /\ Copied(c).composite = aliases
  BY DEF Copied, IsConfig
<1>2. ASSUME NEW a \in DOMAIN c.composite
      PROVE  IsAlias(aliases[a]) /\ aliases[a].targets = c.composite[a].targets
  BY DEF IsConfig, AreAliases, IsAlias
<1>3. AreAliases(aliases) /\ DOMAIN aliases = DOMAIN c.composite
  BY <1>2 DEF IsConfig, AreAliases
<1>. HIDE DEF aliases
<1>. QED  BY <1>1, <1>2, <1>3 DEF IsConfig

LEMMA WithAliasIsConfig ==
  ASSUME NEW c, IsConfig(c), NEW a \in Names, NEW alias, IsAlias(alias)
  PROVE  IsConfig(WithAlias(c, a, alias))
<1>. DEFINE aliases == Put(Copied(c).composite, a, alias)
<1>1. IsConfig(Copied(c))
  BY CopiedIsConfig
<1>2. WithAlias(c, a, alias) = [Copied(c) EXCEPT !.composite = aliases]
  BY DEF WithAlias
<1>3. AreAliases(aliases)
  BY <1>1, AliasesPut DEF IsConfig
<1>. HIDE DEF aliases
<1>. QED  BY <1>1, <1>2, <1>3 DEF IsConfig

LEMMA OldAliasIsAlias ==
  ASSUME NEW c, IsConfig(c), NEW a \in DOMAIN c.composite
  PROVE  /\ IsAlias(OldAlias(c, a)) /\ a \in Names
         /\ OldAlias(c, a).targets = c.composite[a].targets
BY CopiedIsConfig DEF OldAlias, IsConfig, AreAliases

LEMMA PartsOfConfig ==
  ASSUME NEW c, IsConfig(c), NEW new
  PROVE  /\ AreModels(new) => IsConfig([c EXCEPT !.models = new])
         /\ AreAliases(new) => IsConfig([c EXCEPT !.composite = new])
         /\ AreSchedules(new) => IsConfig([c EXCEPT !.schedule = new])
         /\ new \in {0, 1} => IsConfig([c EXCEPT !.limit = new])
BY DEF IsConfig

LEMMA SchedulesPut ==
  ASSUME NEW schedules, AreSchedules(schedules), NEW a \in Names, NEW open,
         DOMAIN open \subseteq Names, \A x \in DOMAIN open : open[x] \subseteq Times
  PROVE  AreSchedules(Put(schedules, a, open))
BY DEF AreSchedules, Put

LEMMA AliasEdits ==
  ASSUME NEW c, IsConfig(c),
         NEW next \in AddAlias(c) \cup RemoveAlias(c) \cup SetAliasLimit(c) \cup SetFusionOptions(c)
                      \cup RemoveTarget(c)
  PROVE  IsConfig(next)
<1>0. AliasNames \subseteq Names
  BY ConfigAssumption
<1>1. CASE next \in AddAlias(c)
  BY <1>0, <1>1, WithAliasIsConfig, NewAliasIsAlias DEF AddAlias
<1>2. CASE next \in RemoveAlias(c)
  <2>1. PICK a \in DOMAIN c.composite :
          next = [Copied(c) EXCEPT !.composite = Without(Copied(c).composite, a)]
    BY <1>2 DEF RemoveAlias
  <2>2. IsConfig(Copied(c))
    BY CopiedIsConfig
  <2>3. AreAliases(Without(Copied(c).composite, a))
    BY <2>2, WithoutIsPart DEF IsConfig, AreAliases
  <2>. QED  BY <2>1, <2>2, <2>3, PartsOfConfig
<1>3. CASE next \in SetAliasLimit(c)
  <2>1. PICK a \in DOMAIN c.composite :
          next = WithAlias(c, a, [OldAlias(c, a) EXCEPT !.limit = 1 - @])
    BY <1>3 DEF SetAliasLimit
  <2>2. IsAlias(OldAlias(c, a)) /\ a \in Names
    BY OldAliasIsAlias
  <2>3. IsAlias([OldAlias(c, a) EXCEPT !.limit = 1 - @])
    BY <2>2 DEF IsAlias
  <2>. QED  BY <2>1, <2>2, <2>3, WithAliasIsConfig
<1>4. CASE next \in SetFusionOptions(c)
  <2>1. PICK a \in DOMAIN c.composite :
          next = WithAlias(c, a, [OldAlias(c, a) EXCEPT !.options = 1 - @])
    BY <1>4 DEF SetFusionOptions
  <2>2. IsAlias(OldAlias(c, a)) /\ a \in Names
    BY OldAliasIsAlias
  <2>3. IsAlias([OldAlias(c, a) EXCEPT !.options = 1 - @])
    BY <2>2 DEF IsAlias
  <2>. QED  BY <2>1, <2>2, <2>3, WithAliasIsConfig
<1>5. CASE next \in RemoveTarget(c)
  <2>0. PICK a \in DOMAIN c.composite : \E x \in DOMAIN c.composite[a].targets :
          next = WithAlias(c, a, [OldAlias(c, a) EXCEPT !.targets = Without(OldAlias(c, a).targets, x)])
    BY <1>5 DEF RemoveTarget
  <2>1. PICK x \in DOMAIN c.composite[a].targets :
          next = WithAlias(c, a, [OldAlias(c, a) EXCEPT !.targets = Without(OldAlias(c, a).targets, x)])
    BY <2>0
  <2>2. IsAlias(OldAlias(c, a)) /\ a \in Names
    BY OldAliasIsAlias
  <2>3. IsAlias([OldAlias(c, a) EXCEPT !.targets = Without(OldAlias(c, a).targets, x)])
    BY <2>2, TargetsOfAlias, TargetsWithout
  <2>. QED  BY <2>1, <2>2, <2>3, WithAliasIsConfig
<1>. QED  BY <1>1, <1>2, <1>3, <1>4, <1>5

LEMMA TargetEdits ==
  ASSUME NEW c, IsConfig(c), NEW next \in UpsertTarget(c)
  PROVE  IsConfig(next)
<1>. DEFINE old(a) == IF a \in DOMAIN c.composite THEN OldAlias(c, a) ELSE NewAlias
            others(a, rank) == [x \in DOMAIN old(a).targets |->
              IF rank = "primary" /\ old(a).targets[x].rank = "primary"
              THEN [old(a).targets[x] EXCEPT !.rank = "share"] ELSE old(a).targets[x]]
            ability(a, x) == x \in DOMAIN old(a).targets /\ old(a).targets[x].ability
            targets(a, x, rank) ==
              Put(others(a, rank), x, [rank |-> rank, ability |-> ability(a, x)])
<1>1. PICK a \in AliasNames, x \in Names, rank \in {"primary", "fallback", "share", "off"} :
        next = WithAlias(c, a, [old(a) EXCEPT !.targets = targets(a, x, rank)])
  BY DEF UpsertTarget
<1>2. a \in Names
  BY <1>1, ConfigAssumption
<1>3. IsAlias(old(a))
  BY OldAliasIsAlias, NewAliasIsAlias
<1>. HIDE DEF old
<1>4. AreTargets(others(a, rank))
  <2>1. AreTargets(old(a).targets)
    BY <1>3, TargetsOfAlias
  <2>. QED  BY <2>1 DEF AreTargets, TargetEntries
<1>5. [rank |-> rank, ability |-> ability(a, x)] \in TargetEntries
  <2>1. ability(a, x) \in BOOLEAN
    OBVIOUS
  <2>. HIDE DEF ability
  <2>. QED  BY <2>1 DEF TargetEntries
<1>. HIDE DEF others, ability
<1>6. AreTargets(targets(a, x, rank))
  BY <1>4, <1>5, TargetsPut
<1>. HIDE DEF targets
<1>7. IsAlias([old(a) EXCEPT !.targets = targets(a, x, rank)])
  BY <1>3, <1>6, TargetsOfAlias
<1>. QED  BY <1>1, <1>2, <1>7, WithAliasIsConfig

LEMMA ModelEdits ==
  ASSUME NEW c, IsConfig(c), NEW next \in UpsertModel(c)
  PROVE  IsConfig(next)
<1>. DEFINE adopts(m, url) == \E s \in SentinelSlots(c.models) \ {m} : Related(c.models[s].url, url)
            keyFor(m, url, key) == IF key = Blank /\ adopts(m, url) THEN Sentinel ELSE key
            entry(r) == [url |-> r[2], key |-> keyFor(r[1], r[2], r[3])]
<1>1. PICK r \in ModelNames \X Urls \X (Keys \cup {Blank, Sentinel}) :
        next = [c EXCEPT !.models = Put(c.models, r[1], entry(r))]
  BY Zenon DEF UpsertModel
<1>2. entry(r) \in Entries /\ r[1] \in Names
  BY <1>1, ConfigAssumption DEF Entries
<1>. HIDE DEF entry
<1>3. AreModels(Put(c.models, r[1], entry(r)))
  BY <1>2 DEF IsConfig, AreModels, Put
<1>. QED  BY <1>1, <1>3, PartsOfConfig

LEMMA ScheduleEdits ==
  ASSUME NEW c, IsConfig(c), NEW next \in EditSchedule(c)
  PROVE  IsConfig(next)
<1>. DEFINE old(a) == IF a \in DOMAIN c.schedule THEN c.schedule[a] ELSE <<>>
            opens(f) == DOMAIN f \subseteq Names /\ \A x \in DOMAIN f : f[x] \subseteq Times
<1>1. AreSchedules(c.schedule) /\ ScheduleNames \subseteq Names /\ Configured(c) \subseteq Names
  BY ConfigAssumption DEF IsConfig, AreModels, AreAliases, AreSchedules, Configured
<1>2. opens(<<>>)
  <2>1. DOMAIN <<>> = {}
    OBVIOUS
  <2>. QED  BY <2>1
<1>3. ASSUME NEW a
      PROVE  opens(old(a))
  BY <1>1, <1>2 DEF AreSchedules
<1>4. CASE \E a \in ScheduleNames : next = [c EXCEPT !.schedule = Put(c.schedule, a, <<>>)]
  <2>1. PICK a \in ScheduleNames : next = [c EXCEPT !.schedule = Put(c.schedule, a, <<>>)]
    BY <1>4
  <2>2. AreSchedules(Put(c.schedule, a, <<>>))
    BY <1>1, <1>2, SchedulesPut
  <2>. QED  BY <2>1, <2>2, PartsOfConfig
<1>5. CASE \E a \in DOMAIN c.schedule : next = [c EXCEPT !.schedule = Without(c.schedule, a)]
  <2>1. PICK a \in DOMAIN c.schedule : next = [c EXCEPT !.schedule = Without(c.schedule, a)]
    BY <1>5
  <2>2. AreSchedules(Without(c.schedule, a))
    BY <1>1, WithoutIsPart DEF AreSchedules
  <2>. QED  BY <2>1, <2>2, PartsOfConfig
<1>6. CASE \E a \in ScheduleNames, x \in Configured(c), open \in SUBSET Times :
             next = [c EXCEPT !.schedule = Put(c.schedule, a, Put(old(a), x, open))]
  <2>1. PICK a \in ScheduleNames, x \in Configured(c), open \in SUBSET Times :
          next = [c EXCEPT !.schedule = Put(c.schedule, a, Put(old(a), x, open))]
    BY <1>6
  <2>2. opens(Put(old(a), x, open))
    <3>. HIDE DEF old
    <3>1. opens(old(a)) /\ x \in Names
      BY <1>1, <1>3
    <3>. QED  BY <3>1 DEF Put
  <2>. HIDE DEF old
  <2>3. AreSchedules(Put(c.schedule, a, Put(old(a), x, open)))
    BY <1>1, <2>2, SchedulesPut
  <2>. QED  BY <2>1, <2>3, PartsOfConfig
<1>7. CASE \E a \in DOMAIN c.schedule : \E x \in DOMAIN c.schedule[a] :
             next = [c EXCEPT !.schedule = Put(c.schedule, a, Without(c.schedule[a], x))]
  <2>0. PICK a \in DOMAIN c.schedule : \E x \in DOMAIN c.schedule[a] :
          next = [c EXCEPT !.schedule = Put(c.schedule, a, Without(c.schedule[a], x))]
    BY <1>7
  <2>1. PICK x \in DOMAIN c.schedule[a] :
          next = [c EXCEPT !.schedule = Put(c.schedule, a, Without(c.schedule[a], x))]
    BY <2>0
  <2>2. opens(Without(c.schedule[a], x)) /\ a \in Names
    BY <1>1, WithoutIsPart DEF AreSchedules
  <2>3. AreSchedules(Put(c.schedule, a, Without(c.schedule[a], x)))
    BY <1>1, <2>2, SchedulesPut
  <2>. QED  BY <2>1, <2>3, PartsOfConfig
<1>. QED  BY <1>4, <1>5, <1>6, <1>7 DEF EditSchedule

LEMMA EditIsConfig ==
  ASSUME NEW c, IsConfig(c), NEW next \in EditsOf(c)
  PROVE  IsConfig(next)
<1>1. CASE next \in SetGlobalLimit(c)
  <2>1. next = [c EXCEPT !.limit = 1 - c.limit]
    BY <1>1 DEF SetGlobalLimit
  <2>2. 1 - c.limit \in {0, 1}
    BY DEF IsConfig
  <2>. QED  BY <2>1, <2>2, PartsOfConfig
<1>. QED  BY <1>1, AliasEdits, TargetEdits, ModelEdits, ScheduleEdits DEF EditsOf

-----------------------------------------------------------------------------
(* 4. Keys: where each was entered for, through the bundle, the best match and the order of the slots. *)

LEMMA PayloadIsPage ==
  ASSUME NEW c, IsConfig(c)
  PROVE  IsPage(Payload(c))
<1>. DEFINE urls == [m \in DOMAIN c.models |-> c.models[m].url]
            targets(a) == [x \in DOMAIN c.composite[a].targets |->
                             [c.composite[a].targets[x] EXCEPT !.ability = FALSE]]
            shown(a) == [c.composite[a] EXCEPT !.tools = IF @ = "decision" THEN "none" ELSE @,
                                               !.targets = targets(a)]
            aliases == [a \in DOMAIN c.composite |-> shown(a)]
<1>1. DOMAIN urls \subseteq Names /\ \A m \in DOMAIN urls : urls[m] \in Urls
  BY DEF IsConfig, AreModels, Entries
<1>2. ASSUME NEW a \in DOMAIN c.composite
      PROVE  IsAlias(shown(a))
  <2>1. IsAlias(c.composite[a])
    BY DEF IsConfig, AreAliases
  <2>2. AreTargets(targets(a))
    BY <2>1 DEF AreTargets, IsAlias, TargetEntries
  <2>. HIDE DEF targets
  <2>. QED  BY <2>1, <2>2 DEF AreTargets, IsAlias
<1>3. AreAliases(aliases)
  BY <1>2 DEF IsConfig, AreAliases
<1>4. Payload(c) = [models |-> urls, composite |-> aliases, schedule |-> c.schedule]
  BY DEF Payload
<1>. HIDE DEF urls, aliases
<1>. QED  BY <1>1, <1>3, <1>4 DEF IsPage, IsConfig

LEMMA RevisedIsPage ==
  ASSUME NEW p, IsPage(p), NEW q \in Revised(p)
  PROVE  IsPage(q)
<1>. DEFINE new == [rank |-> "share", ability |-> FALSE]
            more(alias, x) == [alias EXCEPT !.targets = Put(alias.targets, x, new)]
<1>1. CASE \E m \in DOMAIN p.models, u \in Urls : q = [p EXCEPT !.models = Put(p.models, m, u)]
  <2>1. PICK m \in DOMAIN p.models, u \in Urls : q = [p EXCEPT !.models = Put(p.models, m, u)]
    BY <1>1
  <2>2. /\ DOMAIN Put(p.models, m, u) \subseteq Names
        /\ \A x \in DOMAIN Put(p.models, m, u) : Put(p.models, m, u)[x] \in Urls
    BY DEF IsPage, Put
  <2>. QED  BY <2>1, <2>2 DEF IsPage
<1>2. CASE \E a \in DOMAIN p.composite, x \in Names :
             q = [p EXCEPT !.composite = Put(p.composite, a, more(p.composite[a], x))]
  <2>1. PICK a \in DOMAIN p.composite, x \in Names :
          q = [p EXCEPT !.composite = Put(p.composite, a, more(p.composite[a], x))]
    BY <1>2
  <2>2. IsAlias(p.composite[a]) /\ a \in Names
    BY DEF IsPage, AreAliases
  <2>3. new \in TargetEntries
    BY DEF TargetEntries
  <2>. HIDE DEF new
  <2>4. IsAlias(more(p.composite[a], x))
    BY <2>2, <2>3, TargetsOfAlias, TargetsPut
  <2>. HIDE DEF more
  <2>5. AreAliases(Put(p.composite, a, more(p.composite[a], x)))
    BY <2>2, <2>4, AliasesPut DEF IsPage
  <2>. QED  BY <2>1, <2>5 DEF IsPage
<1>. QED  BY <1>1, <1>2 DEF Revised

LEMMA AppliedIsConfig ==
  ASSUME NEW c, IsConfig(c), NEW p, IsPage(p)
  PROVE  IsConfig(Applied(c, p))
<1>. DEFINE models == [m \in DOMAIN p.models |->
                         [url |-> p.models[m],
                          key |-> IF m \in DOMAIN c.models THEN c.models[m].key ELSE Blank]]
<1>1. AreModels(models)
  BY DEF IsPage, IsConfig, AreModels, Entries
<1>2. Applied(c, p) = [c EXCEPT !.models = models, !.composite = p.composite, !.schedule = p.schedule]
  BY DEF Applied
<1>. HIDE DEF models
<1>. QED  BY <1>1, <1>2 DEF IsConfig, IsPage

LEMMA HiddenAreModels ==
  ASSUME NEW models, AreModels(models), NEW keys
  PROVE  /\ AreModels(Hidden(models, keys))
         /\ RawSlots(Hidden(models, keys)) \subseteq RawSlots(models)
         /\ \A m \in RawSlots(Hidden(models, keys)) : Hidden(models, keys)[m] = models[m]
<1>1. AreModels(Hidden(models, keys)) /\ DOMAIN Hidden(models, keys) = DOMAIN models
  BY DEF AreModels, Entries, Hidden
<1>2. ASSUME NEW m \in RawSlots(Hidden(models, keys))
      PROVE  m \in RawSlots(models) /\ Hidden(models, keys)[m] = models[m]
  <2>1. m \in DOMAIN models /\ models[m] \in Entries
    BY DEF RawSlots, Hidden, AreModels
  <2>2. CASE models[m].key \in keys
    <3>1. Hidden(models, keys)[m] = [models[m] EXCEPT !.key = Sentinel]
      BY <2>1, <2>2 DEF Hidden
    <3>2. Hidden(models, keys)[m].key = Sentinel
      BY <2>1, <3>1 DEF Entries
    <3>. QED  BY <3>2 DEF RawSlots
  <2>3. CASE models[m].key \notin keys
    BY <2>1, <2>3 DEF Hidden, RawSlots
  <2>. QED  BY <2>2, <2>3
<1>. QED  BY <1>1, <1>2

(* A key is where it was entered for when one of the pairs has it with a URL of the same beginning. *)
Entered(pairs, key, url) == \E p \in pairs : p[1] = key /\ Head(p[2]) = Head(url)

(* An empty URL is related to all others: with one, only a set that has every pair is any guide. *)
Everything == Keys \X Urls
Rooted(pairs, url) == url = <<>> => Everything \subseteq pairs

AllEntered(pairs, models) ==
  /\ \A m \in RawSlots(models) : Entered(pairs, models[m].key, models[m].url)
  /\ \A m \in DOMAIN models : Rooted(pairs, models[m].url)
BundleEntered(pairs, b) == \A a \in DOMAIN b : Entered(pairs, b[a], a[2]) /\ Rooted(pairs, a[2])

LEMMA AnythingEntered ==
  ASSUME NEW pairs, Everything \subseteq pairs, NEW key \in Keys, NEW url \in Urls
  PROVE  Entered(pairs, key, url)
<1>. DEFINE p == <<key, url>>
<1>1. p \in pairs
  BY DEF Everything
<1>2. p[1] = key /\ p[2] = url
  OBVIOUS
<1>. HIDE DEF p
<1>. QED  BY <1>1, <1>2 DEF Entered

LEMMA RelatedBeginTheSame ==
  ASSUME NEW u \in Urls, NEW v \in Urls, Related(u, v), u # <<>>, v # <<>>
  PROVE  Head(u) = Head(v)
<1>1. u \in Seq(Range(u)) /\ u # <<>> /\ v \in Seq(Range(v)) /\ v # <<>>
  BY ConfigAssumption
<1>2. ASSUME NEW x, NEW S, x \in Seq(S), NEW y, NEW T, y \in Seq(T), x # <<>>, y # <<>>, IsPrefix(x, y)
      PROVE  Head(x) = Head(y)
  <2>1. Len(x) \in Nat \ {0} /\ Len(x) <= Len(y) /\ Len(y) \in Nat
    BY <1>2 DEF IsPrefix
  <2>2. SubSeq(x, 1, Len(x)) = SubSeq(y, 1, Len(x))
    BY <1>2 DEF IsPrefix
  <2>3. SubSeq(x, 1, Len(x))[1] = x[1] /\ SubSeq(y, 1, Len(x))[1] = y[1]
    BY <1>2, <2>1
  <2>. QED  BY <1>2, <2>2, <2>3
<1>. QED  BY <1>1, <1>2 DEF Related

LEMMA KeyForIsEntered ==
  ASSUME NEW pairs, NEW b, IsBundle(b), BundleEntered(pairs, b),
         NEW account, account[2] \in Urls, Rooted(pairs, account[2])
  PROVE  /\ KeyFor(b, account) \in Keys \cup {Blank}
         /\ KeyFor(b, account) \in Keys => Entered(pairs, KeyFor(b, account), account[2])
<1>1. CASE account \in DOMAIN b
  BY <1>1 DEF KeyFor, IsBundle, BundleEntered
<1>2. CASE account \notin DOMAIN b /\ BestMatches(b, account) = {}
  BY <1>2, ConfigAssumption DEF KeyFor
<1>3. CASE account \notin DOMAIN b /\ BestMatches(b, account) # {}
  <2>1. PICK a : a = CHOOSE x \in BestMatches(b, account) : TRUE
    OBVIOUS
  <2>2. a \in BestMatches(b, account)
    BY <1>3, <2>1
  <2>3. a \in DOMAIN b /\ Related(a[2], account[2])
    BY <2>2 DEF BestMatches
  <2>4. KeyFor(b, account) = b[a] /\ b[a] \in Keys /\ a[2] \in Urls
    BY <1>3, <2>1, <2>3 DEF KeyFor, IsBundle
  <2>5. CASE a[2] = <<>> \/ account[2] = <<>>
    <3>1. Everything \subseteq pairs
      BY <2>3, <2>5 DEF BundleEntered, Rooted
    <3>. QED  BY <2>4, <3>1, AnythingEntered
  <2>6. CASE a[2] # <<>> /\ account[2] # <<>>
    <3>1. Head(a[2]) = Head(account[2])
      BY <2>3, <2>4, <2>6, RelatedBeginTheSame
    <3>. QED  BY <2>3, <2>4, <3>1 DEF BundleEntered, Entered
  <2>. QED  BY <2>5, <2>6
<1>. QED  BY <1>1, <1>2, <1>3

LEMMA RawKeysAreEntered ==
  ASSUME NEW pairs, NEW b, IsBundle(b), BundleEntered(pairs, b),
         NEW models, AreModels(models), AllEntered(pairs, models),
         NEW local \in WithRawKeys(b, models)
  PROVE  IsBundle(local) /\ BundleEntered(pairs, local)
<1>. DEFINE added == {Account(models, m) : m \in RawSlots(models)}
            slots(a) == {m \in RawSlots(models) : Account(models, m) = a}
<1>1. PICK last \in [added -> RawSlots(models)] :
        /\ \A a \in added : last[a] \in slots(a)
        /\ local = [a \in DOMAIN b \cup added |-> IF a \in added THEN models[last[a]].key ELSE b[a]]
  BY DEF WithRawKeys
<1>2. ASSUME NEW a \in DOMAIN local
      PROVE  /\ a[2] \in Urls /\ local[a] \in Keys
             /\ Entered(pairs, local[a], a[2]) /\ Rooted(pairs, a[2])
  <2>1. CASE a \in added
    <3>1. last[a] \in RawSlots(models) /\ a = Account(models, last[a])
      BY <1>1, <2>1
    <3>2. models[last[a]] \in Entries /\ models[last[a]].key \notin {Blank, Sentinel}
      BY <3>1 DEF RawSlots, AreModels
    <3>3. a[2] = models[last[a]].url
      BY <3>1 DEF Account
    <3>4. local[a] = models[last[a]].key
      BY <1>1, <2>1
    <3>5. /\ Entered(pairs, models[last[a]].key, models[last[a]].url)
          /\ Rooted(pairs, models[last[a]].url)
      BY <3>1 DEF AllEntered, RawSlots
    <3>. QED  BY <3>2, <3>3, <3>4, <3>5 DEF Entries
  <2>2. CASE a \notin added
    <3>1. a \in DOMAIN b /\ local[a] = b[a]
      BY <1>1, <2>2
    <3>. QED  BY <3>1 DEF IsBundle, BundleEntered
  <2>. QED  BY <2>1, <2>2
<1>. QED  BY <1>2 DEF IsBundle, BundleEntered

(* Of a set of numbers up to N one is the least. *)
LEMMA Least ==
  ASSUME NEW N \in Nat, NEW T \in SUBSET (0..N), T # {}
  PROVE  \E m \in T : \A k \in T : m <= k
<1>. DEFINE upto == {0..k : k \in T}
<1>1. IsWellFoundedOn(StrictSubsetOrdering(0..N), SUBSET (0..N))
  <2>. DEFINE S == 0..N
  <2>1. IsFiniteSet(S)
    BY FS_Interval
  <2>. HIDE DEF S
  <2>2. FiniteSubsetsOf(S) = SUBSET S
    BY <2>1, FS_FiniteSubsetsOfFinite
  <2>3. IsWellFoundedOn(StrictSubsetOrdering(S), SUBSET S)
    BY <2>2, FS_StrictSubsetOrderingWellFounded
  <2>. QED  BY <2>3 DEF S
<1>2. upto \in SUBSET SUBSET (0..N) /\ upto # {}
  <2>1. \A k \in T : 0..k \in SUBSET (0..N)
    OBVIOUS
  <2>. QED  BY <2>1
<1>. HIDE DEF upto
<1>3. \E S \in upto : \A r \in upto : ~ (<<r, S>> \in StrictSubsetOrdering(0..N))
  BY <1>1, <1>2, WFMin, Zenon
<1>. USE DEF upto
<1>4. PICK m \in T : \A k \in T : ~ (<<0..k, 0..m>> \in StrictSubsetOrdering(0..N))
  BY <1>3, Zenon
<1>5. ASSUME NEW k \in T, k < m
      PROVE  FALSE
  <2>1. 0..k \subseteq 0..m /\ m \in 0..m /\ m \notin 0..k
    BY <1>5
  <2>2. 0..k # 0..m
    BY <2>1, Zenon
  <2>3. 0..k \in SUBSET (0..N) /\ 0..m \in SUBSET (0..N)
    OBVIOUS
  <2>. QED  BY <1>4, <2>1, <2>2, <2>3 DEF StrictSubsetOrdering
<1>6. \A k \in T : m <= k
  BY <1>5
<1>. QED  BY <1>6

(* Resolving the sentinels in an order, slot by slot. *)
Resolving(R, b, models, order, isNew, N) ==
  R = [k \in 0..N |-> IF k = 0 THEN [models |-> models, bundle |-> b]
                      ELSE SlotResolved(R[k - 1], order[k], isNew)]

LEMMA ResolvingExists ==
  ASSUME NEW b, NEW models, NEW order, NEW isNew, NEW N \in Nat
  PROVE  \E R : Resolving(R, b, models, order, isNew, N)
<1>. DEFINE none == {n \in 0..N : ~ \E R : Resolving(R, b, models, order, isNew, n)}
            start == [models |-> models, bundle |-> b]
<1>. SUFFICES none = {}
  OBVIOUS
<1>. SUFFICES ASSUME none # {}  PROVE FALSE
  OBVIOUS
<1>1. none \in SUBSET (0..N)
  OBVIOUS
<1>. HIDE DEF none
<1>2. PICK n \in none : \A k \in none : n <= k
  BY <1>1, Least
<1>3. n \in 0..N /\ ~ \E R : Resolving(R, b, models, order, isNew, n)
  BY DEF none
<1>4. CASE n = 0
  <2>. DEFINE R == [k \in 0..0 |-> start]
  <2>1. R = [k \in 0..0 |-> IF k = 0 THEN start ELSE SlotResolved(R[k - 1], order[k], isNew)]
    OBVIOUS
  <2>. QED  BY <1>3, <1>4, <2>1 DEF Resolving
<1>5. CASE n # 0
  <2>1. n - 1 \in 0..N /\ n - 1 \notin none
    BY <1>2, <1>3, <1>5
  <2>2. PICK R : Resolving(R, b, models, order, isNew, n - 1)
    BY <2>1 DEF none
  <2>. DEFINE Q == [k \in 0..n |-> IF k = n THEN SlotResolved(R[n - 1], order[n], isNew) ELSE R[k]]
              next(P, k) == IF k = 0 THEN start ELSE SlotResolved(P[k - 1], order[k], isNew)
  <2>3. ASSUME NEW k \in 0..n
        PROVE  Q[k] = next(Q, k)
    <3>1. CASE k = n
      <4>1. Q[n] = SlotResolved(R[n - 1], order[n], isNew) /\ Q[n - 1] = R[n - 1]
        BY <1>3, <1>5
      <4>. HIDE DEF Q
      <4>. QED  BY <1>5, <3>1, <4>1
    <3>2. CASE k # n
      <4>1. k \in 0..(n - 1)
        BY <1>3, <3>2
      <4>2. R[k] = next(R, k)
        BY <2>2, <4>1, Zenon DEF Resolving
      <4>3. Q[k] = R[k] /\ (k # 0 => Q[k - 1] = R[k - 1])
        BY <1>3, <3>2, <4>1
      <4>. HIDE DEF Q
      <4>. QED  BY <4>2, <4>3
    <3>. QED  BY <3>1, <3>2
  <2>4. Q = [k \in 0..n |-> Q[k]]
    BY Zenon
  <2>. HIDE DEF Q
  <2>5. Q = [k \in 0..n |-> next(Q, k)]
    BY <2>3, <2>4
  <2>. QED  BY <1>3, <2>5 DEF Resolving
<1>. QED  BY <1>4, <1>5

LEMMA ResolvedUnfolds ==
  ASSUME NEW b, NEW models, NEW order, NEW isNew, Len(order) \in Nat
  PROVE  \E R : /\ Resolved(b, models, order, isNew) = R[Len(order)]
                /\ R[0] = [models |-> models, bundle |-> b]
                /\ \A k \in 1..Len(order) : R[k] = SlotResolved(R[k - 1], order[k], isNew)
<1>. DEFINE R == CHOOSE R : Resolving(R, b, models, order, isNew, Len(order))
<1>1. Resolved(b, models, order, isNew) = R[Len(order)]
  BY DEF Resolved, Resolving
<1>2. Resolving(R, b, models, order, isNew, Len(order))
  BY ResolvingExists, Zenon
<1>. HIDE DEF R
<1>3. \A k \in 0..Len(order) :
        R[k] = IF k = 0 THEN [models |-> models, bundle |-> b]
               ELSE SlotResolved(R[k - 1], order[k], isNew)
  BY <1>2, Zenon DEF Resolving
<1>. QED  BY <1>1, <1>3

(* What holds after k slots of an order. *)
Settled(pairs, models, order, s, k) ==
  /\ AreModels(s.models) /\ DOMAIN s.models = DOMAIN models
  /\ AllEntered(pairs, s.models)
  /\ IsBundle(s.bundle) /\ BundleEntered(pairs, s.bundle)
  /\ SentinelSlots(s.models) \subseteq {order[j] : j \in (k + 1)..Len(order)}

LEMMA SlotSettles ==
  ASSUME NEW pairs, NEW models, NEW order, Len(order) \in Nat, NEW k \in 1..Len(order),
         NEW s, Settled(pairs, models, order, s, k - 1), order[k] \in DOMAIN models, NEW isNew
  PROVE  Settled(pairs, models, order, SlotResolved(s, order[k], isNew), k)
<1>. DEFINE m == order[k]
            account == Account(s.models, m)
            key == KeyFor(s.bundle, account)
            entry == [s.models[m] EXCEPT !.key = key]
            new == Put(s.models, m, entry)
            b == IF isNew /\ key # Blank THEN Put(s.bundle, account, key) ELSE s.bundle
<1>1. SlotResolved(s, order[k], isNew) = [models |-> new, bundle |-> b]
  BY DEF SlotResolved
<1>2. m \in DOMAIN s.models /\ m \in Names /\ s.models[m] \in Entries
  BY DEF Settled, AreModels
<1>3. account[2] = s.models[m].url /\ account[2] \in Urls /\ Rooted(pairs, account[2])
  BY <1>2 DEF Account, Entries, Settled, AllEntered
<1>4. /\ key \in Keys \cup {Blank}
      /\ key \in Keys => Entered(pairs, key, account[2])
  BY <1>3, KeyForIsEntered DEF Settled
<1>. HIDE DEF account, key
<1>5. entry \in Entries /\ entry.key = key /\ entry.url = s.models[m].url
  BY <1>2, <1>4 DEF Entries
<1>. HIDE DEF entry
<1>6. AreModels(new) /\ DOMAIN new = DOMAIN models
  BY <1>2, <1>5 DEF AreModels, Put, Settled
<1>7. /\ new[m] = entry
      /\ \A x \in DOMAIN new \ {m} : new[x] = s.models[x] /\ x \in DOMAIN s.models
  BY <1>2 DEF Put
<1>. HIDE DEF new
<1>8. AllEntered(pairs, new)
  <2>1. ASSUME NEW x \in RawSlots(new)
        PROVE  Entered(pairs, new[x].key, new[x].url)
    <3>1. CASE x = m
      <4>1. key \in Keys
        BY <1>4, <1>5, <1>7, <2>1, <3>1 DEF RawSlots
      <4>. QED  BY <1>3, <1>4, <1>5, <1>7, <3>1, <4>1
    <3>2. CASE x # m
      <4>1. x \in RawSlots(s.models) /\ new[x] = s.models[x]
        BY <1>7, <2>1, <3>2 DEF RawSlots
      <4>. QED  BY <4>1 DEF AllEntered, Settled
    <3>. QED  BY <3>1, <3>2
  <2>2. ASSUME NEW x \in DOMAIN new
        PROVE  Rooted(pairs, new[x].url)
    <3>1. CASE x = m
      BY <1>3, <1>5, <1>7, <3>1
    <3>2. CASE x # m
      <4>1. x \in DOMAIN s.models /\ new[x] = s.models[x]
        BY <1>7, <2>2, <3>2
      <4>. QED  BY <4>1 DEF AllEntered, Settled
    <3>. QED  BY <3>1, <3>2
  <2>. QED  BY <2>1, <2>2 DEF AllEntered
<1>9. IsBundle(b) /\ BundleEntered(pairs, b)
  <2>1. CASE isNew /\ key # Blank
    <3>1. key \in Keys
      BY <1>4, <2>1
    <3>2. b = Put(s.bundle, account, key)
      BY <2>1
    <3>. QED  BY <1>3, <1>4, <3>1, <3>2 DEF Put, IsBundle, BundleEntered, Settled
  <2>2. CASE ~ (isNew /\ key # Blank)
    BY <2>2 DEF Settled
  <2>. QED  BY <2>1, <2>2
<1>10. SentinelSlots(new) \subseteq {order[j] : j \in (k + 1)..Len(order)}
  <2>. SUFFICES ASSUME NEW x \in SentinelSlots(new)
                PROVE  x \in {order[j] : j \in (k + 1)..Len(order)}
    OBVIOUS
  <2>1. x # m
    BY <1>4, <1>5, <1>7, ConfigAssumption DEF SentinelSlots, Sentinel, Blank
  <2>2. x \in SentinelSlots(s.models)
    BY <1>7, <2>1 DEF SentinelSlots
  <2>3. PICK j \in (k - 1 + 1)..Len(order) : x = order[j]
    BY <2>2 DEF Settled
  <2>4. j # k
    BY <2>1, <2>3
  <2>5. j \in (k + 1)..Len(order)
    BY <2>3, <2>4
  <2>. QED  BY <2>3, <2>5
<1>. HIDE DEF b
<1>. QED  BY <1>1, <1>6, <1>8, <1>9, <1>10 DEF Settled

LEMMA ResolvedIsSettled ==
  ASSUME NEW pairs, NEW b, IsBundle(b), BundleEntered(pairs, b),
         NEW models, AreModels(models), AllEntered(pairs, models),
         NEW order \in SetToSeqs(SentinelSlots(models)), NEW isNew
  PROVE  LET r == Resolved(b, models, order, isNew)
         IN  /\ AreModels(r.models) /\ AllEntered(pairs, r.models) /\ SentinelSlots(r.models) = {}
             /\ IsBundle(r.bundle) /\ BundleEntered(pairs, r.bundle)
<1>. DEFINE slots == SentinelSlots(models)
            n == Cardinality(slots)
<1>1. IsFiniteSet(slots) /\ n \in Nat
  <2>1. slots \in SUBSET Names
    BY DEF SentinelSlots, AreModels
  <2>2. IsFiniteSet(slots)
    BY <2>1, ConfigAssumption, FS_Subset
  <2>. QED  BY <2>2, FS_CardinalityType
<1>2. order \in [1..n -> slots] /\ \A i, j \in 1..n : i # j => order[i] # order[j]
  BY DEF SetToSeqs
<1>. HIDE DEF slots
<1>3. order \in Injection(1..n, slots)
  BY <1>2 DEF Injection, IsInjective
<1>4. Cardinality(1..n) = n
  BY <1>1, FS_Interval
<1>5. order \in Surjection(1..n, slots)
  BY <1>1, <1>3, <1>4, FS_Injection
<1>6. slots \subseteq {order[j] : j \in 1..n}
  BY <1>5 DEF Surjection
<1>7. Len(order) = n
  BY <1>1, <1>2
<1>8. PICK R : /\ Resolved(b, models, order, isNew) = R[Len(order)]
               /\ R[0] = [models |-> models, bundle |-> b]
               /\ \A k \in 1..Len(order) : R[k] = SlotResolved(R[k - 1], order[k], isNew)
  BY <1>1, <1>7, ResolvedUnfolds
<1>9. Settled(pairs, models, order, R[0], 0)
  <2>1. 0 + 1 = 1
    OBVIOUS
  <2>. QED  BY <1>6, <1>7, <1>8, <2>1 DEF Settled, slots
<1>. DEFINE open == {k \in 0..n : ~Settled(pairs, models, order, R[k], k)}
<1>10. open = {}
  <2>. SUFFICES ASSUME open # {}  PROVE FALSE
    OBVIOUS
  <2>1. open \in SUBSET (0..n)
    OBVIOUS
  <2>. HIDE DEF open
  <2>2. PICK k \in open : \A j \in open : k <= j
    BY <1>1, <2>1, Least
  <2>3. k \in 0..n /\ ~Settled(pairs, models, order, R[k], k)
    BY DEF open
  <2>4. k # 0
    BY <1>9, <2>3
  <2>5. k - 1 \in 0..n /\ k \in 1..n /\ ~(k <= k - 1)
    BY <1>1, <2>3, <2>4
  <2>6. k - 1 \notin open
    BY <2>2, <2>5
  <2>7. Settled(pairs, models, order, R[k - 1], k - 1)
    BY <2>5, <2>6 DEF open
  <2>8. order[k] \in DOMAIN models
    BY <1>2, <2>5 DEF slots, SentinelSlots
  <2>9. Settled(pairs, models, order, SlotResolved(R[k - 1], order[k], isNew), k)
    BY <1>1, <1>7, <2>5, <2>7, <2>8, SlotSettles
  <2>. QED  BY <1>7, <1>8, <2>3, <2>5, <2>9
<1>11. Settled(pairs, models, order, R[n], n)
  BY <1>1, <1>10
<1>12. (n + 1)..Len(order) = {}
  BY <1>1, <1>7
<1>. HIDE DEF n, open
<1>. QED  BY <1>7, <1>8, <1>11, <1>12 DEF Settled

-----------------------------------------------------------------------------
(* 5. The invariant of the whole store. *)

(* A load in flight holds only keys that were entered where they are, and no sentinel once it has read the
   bundle; the cache holds a stripped configuration, without a sentinel where the key store is on. *)
IsLoad(x) ==
  /\ DOMAIN x = {"at", "config", "bundle", "raw"}
  /\ x.at \in {"idle", "reading", "storing", "hiding"}
  /\ IsConfig(x.config) /\ IsBundle(x.bundle) /\ x.raw \subseteq Keys

LoadSound(pairs, x) ==
  /\ IsLoad(x)
  /\ AllEntered(pairs, x.config.models) /\ BundleEntered(pairs, x.bundle)
  /\ x.at \in {"storing", "hiding"} => SentinelSlots(x.config.models) = {}

CacheSound(pairs, c) ==
  /\ IsConfig(c) /\ AllEntered(pairs, c.models)
  /\ (Composites(c) \cup DOMAIN c.schedule) \cap DOMAIN c.models = {}
  /\ \A a \in Composites(c) : a \notin DOMAIN Targets(c, a)
  /\ c.store => SentinelSlots(c.models) = {}

(* The pairs that account for the keys: any pair will do once an entry has no URL. *)
Known == assigned \cup moved \cup IF bare THEN Everything ELSE {}

FilesSound ==
  IsConfig(file) /\ AllEntered(Known, file.models) /\ IsConfig(backup) /\ IsConfig(committed)
CountsSound == edits \in 0..MaxEdits /\ saves \in 0..MaxSaves
LoadsSound == DOMAIN load = Loads /\ \A l \in Loads : LoadSound(Known, load[l])
KeysSound == IsBundle(bundle) /\ BundleEntered(Known, bundle)

(* Where keys are is part of it: a load keeps what it parsed across its awaits, so what its copy and its
   bundle hold must have been entered too, whatever was edited in between. *)
ConfigInv ==
  /\ FilesSound /\ LoadsSound /\ KeysSound /\ CountsSound
  /\ cache = None \/ CacheSound(Known, cache)
  /\ payload = None \/ IsPage(payload)

LEMMA KnownStays == UNCHANGED origins => Known' = Known
BY DEF origins, Known

LEMMA AllOfIts ==
  ASSUME NEW pairs, NEW c, \A p \in RawPairs(c) : Entered(pairs, p[1], p[2]),
         Bare(c) => Everything \subseteq pairs
  PROVE  AllEntered(pairs, c.models)
<1>1. ASSUME NEW m \in RawSlots(c.models)
      PROVE  Entered(pairs, c.models[m].key, c.models[m].url)
  <2>. DEFINE p == <<c.models[m].key, c.models[m].url>>
  <2>1. p \in RawPairs(c)
    BY DEF RawPairs
  <2>2. p[1] = c.models[m].key /\ p[2] = c.models[m].url
    OBVIOUS
  <2>. HIDE DEF p
  <2>. QED  BY <2>1, <2>2
<1>2. ASSUME NEW m \in DOMAIN c.models
      PROVE  Rooted(pairs, c.models[m].url)
  BY DEF Rooted, Bare
<1>. QED  BY <1>1, <1>2 DEF AllEntered

(* What is written is what the file had, or is one of the pairs that count from now on. *)
LEMMA AllOfWritten ==
  ASSUME NEW pairs, NEW next, AllEntered(pairs, file.models), NewPairs(next) \subseteq pairs,
         Bare(next) => Everything \subseteq pairs
  PROVE  AllEntered(pairs, next.models)
<1>1. ASSUME NEW p \in RawPairs(next)
      PROVE  Entered(pairs, p[1], p[2])
  <2>1. CASE p \in RawPairs(file)
    <3>1. PICK m \in RawSlots(file.models) : p = <<file.models[m].key, file.models[m].url>>
      BY <2>1 DEF RawPairs
    <3>2. Entered(pairs, file.models[m].key, file.models[m].url)
      BY DEF AllEntered
    <3>. QED  BY <3>1, <3>2
  <2>2. CASE p \notin RawPairs(file)
    BY <1>1, <2>2 DEF NewPairs, Entered
  <2>. QED  BY <2>1, <2>2
<1>. QED  BY <1>1, AllOfIts

LEMMA RawKeysAreKeys ==
  ASSUME NEW c, IsConfig(c)
  PROVE  RawKeys(c) \subseteq Keys
BY DEF RawKeys, RawSlots, IsConfig, AreModels, Entries

LEMMA MoreEntered ==
  ASSUME NEW pairs, NEW more, pairs \subseteq more
  PROVE  /\ \A models : AllEntered(pairs, models) => AllEntered(more, models)
         /\ \A b : BundleEntered(pairs, b) => BundleEntered(more, b)
         /\ \A x : LoadSound(pairs, x) => LoadSound(more, x)
<1>1. \A k, u : Entered(pairs, k, u) => Entered(more, k, u)
  BY DEF Entered
<1>2. /\ \A models : AllEntered(pairs, models) => AllEntered(more, models)
      /\ \A b : BundleEntered(pairs, b) => BundleEntered(more, b)
  BY <1>1 DEF AllEntered, BundleEntered, Rooted
<1>. QED  BY <1>2 DEF LoadSound

LEMMA IdleIsSound ==
  ASSUME NEW pairs
  PROVE  LoadSound(pairs, Idle) /\ IsBundle(<<>>) /\ BundleEntered(pairs, <<>>) /\ AllEntered(pairs, Empty.models)
<1>1. DOMAIN <<>> = {}
  OBVIOUS
<1>2. Idle = [at |-> "idle", config |-> Empty, bundle |-> <<>>, raw |-> {}] /\ Empty.models = <<>>
  BY DEF Idle, Empty
<1>3. IsBundle(<<>>) /\ BundleEntered(pairs, <<>>) /\ AllEntered(pairs, <<>>)
  BY <1>1 DEF IsBundle, BundleEntered, AllEntered, RawSlots
<1>. QED  BY <1>2, <1>3, EmptyIsConfig DEF LoadSound, IsLoad

LEMMA FinishedIsSound ==
  ASSUME NEW pairs, NEW c, IsConfig(c), AllEntered(pairs, c.models),
         c.store => SentinelSlots(c.models) = {}
  PROVE  CacheSound(pairs, Stripped(c))
BY StrippedIsConfig, StrippedIsUsable DEF CacheSound

LEMMA ConfigInit == Init => ConfigInv
<1>. SUFFICES ASSUME Init  PROVE ConfigInv
  OBVIOUS
<1>1. FilesSound
  <2>1. \A p \in RawPairs(file) : Entered(Known, p[1], p[2])
    BY DEF Init, Known, Entered
  <2>2. Bare(file) => Everything \subseteq Known
    BY DEF Init, Known
  <2>3. AllEntered(Known, file.models)
    BY <2>1, <2>2, AllOfIts
  <2>. QED  BY <2>3, EmptyIsConfig, ConfigAssumption DEF Init, FilesSound
<1>2. LoadsSound
  BY IdleIsSound DEF Init, LoadsSound
<1>3. KeysSound
  BY IdleIsSound DEF Init, KeysSound
<1>4. CountsSound
  BY ConfigAssumption DEF Init, CountsSound
<1>. QED  BY <1>1, <1>2, <1>3, <1>4 DEF Init, ConfigInv

(* What an edit or a save writes: its new pairs are recorded, as entered or as moved. *)
LEMMA PersistSound ==
  ASSUME ConfigInv, NEW next, IsConfig(next), Persist(next),
         \/ assigned' = assigned \cup NewPairs(next) /\ moved' = moved
         \/ moved' = moved \cup NewPairs(next) /\ assigned' = assigned
  PROVE  FilesSound' /\ LoadsSound' /\ KeysSound' /\ cache' = None
<1>1. bare' = (bare \/ Bare(next)) /\ assigned \cup moved \cup NewPairs(next) = assigned' \cup moved'
  BY DEF Persist
<1>2. /\ Known \subseteq Known' /\ NewPairs(next) \subseteq Known'
      /\ Bare(next) => Everything \subseteq Known'
  BY <1>1 DEF Known
<1>3. AllEntered(Known', next.models)
  <2>1. AllEntered(Known', file.models)
    BY <1>2, MoreEntered DEF ConfigInv, FilesSound
  <2>. QED  BY <1>2, <2>1, AllOfWritten
<1>4. FilesSound'
  BY <1>3 DEF ConfigInv, FilesSound, Persist
<1>5. LoadsSound'
  BY <1>2, MoreEntered DEF ConfigInv, LoadsSound, Persist
<1>6. KeysSound'
  BY <1>2, MoreEntered DEF ConfigInv, KeysSound, Persist
<1>. QED  BY <1>4, <1>5, <1>6 DEF Persist

LEMMA EditSound ==
  ASSUME ConfigInv, Edit
  PROVE  ConfigInv'
<1>1. PICK next \in EditsOf(Stripped(file)) : Persist(next) /\ assigned' = assigned \cup NewPairs(next)
  BY DEF Edit
<1>2. IsConfig(next)
  BY <1>1, StrippedIsConfig, EditIsConfig DEF ConfigInv, FilesSound
<1>3. FilesSound' /\ LoadsSound' /\ KeysSound' /\ cache' = None
  <2>1. moved' = moved
    BY DEF Edit
  <2>. QED  BY <1>1, <1>2, <2>1, PersistSound
<1>4. CountsSound'
  BY ConfigAssumption DEF Edit, ConfigInv, CountsSound
<1>5. payload' = None \/ IsPage(payload')
  BY DEF Edit, ConfigInv
<1>. QED  BY <1>3, <1>4, <1>5 DEF ConfigInv

LEMMA SaveSound ==
  ASSUME ConfigInv, PutConfig
  PROVE  ConfigInv'
<1>1. PICK p \in Revised(payload), t \in Times :
        LET next == Applied(Stripped(file), p)
        IN  IF Accepted(next, t) THEN Persist(next) /\ moved' = moved \cup NewPairs(next)
            ELSE UNCHANGED <<file, backup, bundle, cache, load, committed, moved, bare>>
  BY DEF PutConfig
<1>2. IsPage(p)
  BY RevisedIsPage DEF PutConfig, ConfigInv
<1>. DEFINE next == Applied(Stripped(file), p)
<1>3. IsConfig(next)
  BY <1>2, StrippedIsConfig, AppliedIsConfig DEF ConfigInv, FilesSound
<1>4. CountsSound' /\ payload' = None /\ assigned' = assigned
  BY DEF PutConfig, counts, ConfigInv, CountsSound
<1>. HIDE DEF next
<1>5. CASE Persist(next) /\ moved' = moved \cup NewPairs(next)
  BY <1>3, <1>4, <1>5, PersistSound DEF ConfigInv
<1>6. CASE UNCHANGED <<file, backup, bundle, cache, load, committed, moved, bare>>
  <2>1. Known' = Known
    BY <1>4, <1>6, KnownStays DEF origins
  <2>. QED  BY <1>4, <1>6, <2>1 DEF ConfigInv, FilesSound, LoadsSound, KeysSound
<1>. QED  BY <1>1, <1>5, <1>6 DEF next

(* A load that ends fills the cache and changes none of the rest. *)
LEMMA FinishSound ==
  ASSUME ConfigInv, NEW l \in Loads, NEW c, Finish(l, c), UNCHANGED origins,
         IsConfig(c), AllEntered(Known, c.models), c.store => SentinelSlots(c.models) = {}
  PROVE  LoadsSound' /\ CacheSound(Known, cache)'
<1>1. CacheSound(Known, Stripped(c))
  BY FinishedIsSound
<1>0. Known' = Known
  BY KnownStays
<1>2. LoadsSound'
  BY <1>0, IdleIsSound DEF Finish, ConfigInv, LoadsSound
<1>. QED  BY <1>0, <1>1, <1>2 DEF Finish

LEMMA StartSound ==
  ASSUME ConfigInv, NEW l \in Loads, StartLoad(l)
  PROVE  ConfigInv'
<1>0. UNCHANGED origins /\ Known' = Known
  BY KnownStays DEF StartLoad
<1>1. FilesSound' /\ KeysSound' /\ CountsSound' /\ (payload' = None \/ IsPage(payload'))
  BY <1>0 DEF StartLoad, counts, ConfigInv, FilesSound, KeysSound, CountsSound
<1>2. IsConfig(file) /\ AllEntered(Known, file.models)
  BY DEF ConfigInv, FilesSound
<1>3. CASE file.store
  <2>. DEFINE x == [Idle EXCEPT !.at = "reading", !.config = file]
  <2>1. load' = [load EXCEPT ![l] = x] /\ cache' = cache
    BY <1>3 DEF StartLoad
  <2>2. /\ DOMAIN x = {"at", "config", "bundle", "raw"}
        /\ x.at = "reading" /\ x.config = file /\ x.bundle = Idle.bundle /\ x.raw = Idle.raw
    BY DEF Idle
  <2>. HIDE DEF x
  <2>3. LoadSound(Known, x)
    BY <1>2, <2>2, IdleIsSound DEF LoadSound, IsLoad
  <2>4. LoadsSound'
    BY <1>0, <2>1, <2>3 DEF ConfigInv, LoadsSound
  <2>5. cache' = None
    BY <2>1 DEF StartLoad
  <2>. QED  BY <1>0, <1>1, <2>4, <2>5 DEF ConfigInv
<1>4. CASE ~file.store
  <2>1. Finish(l, file)
    BY <1>4 DEF StartLoad
  <2>. QED  BY <1>0, <1>1, <1>2, <1>4, <2>1, FinishSound DEF ConfigInv
<1>. QED  BY <1>3, <1>4

LEMMA ReadSound ==
  ASSUME ConfigInv, NEW l \in Loads, ReadBundle(l)
  PROVE  ConfigInv'
<1>. DEFINE c == load[l].config
            fresh == bundle = <<>>
            r(local, order) == Resolved(local, c.models, order, fresh)
            found(local, order) == [c EXCEPT !.models = r(local, order).models]
            stored(local, order) == [at |-> "storing", config |-> found(local, order),
                                     bundle |-> r(local, order).bundle, raw |-> RawKeys(c)]
<1>0. UNCHANGED origins /\ Known' = Known
  BY KnownStays DEF ReadBundle
<1>1. FilesSound' /\ KeysSound' /\ CountsSound' /\ (payload' = None \/ IsPage(payload'))
  BY <1>0 DEF ReadBundle, counts, ConfigInv, FilesSound, KeysSound, CountsSound
<1>2. IsConfig(c) /\ AllEntered(Known, c.models)
  BY DEF ConfigInv, LoadsSound, LoadSound, IsLoad
<1>3. PICK local \in WithRawKeys(bundle, c.models), order \in SetToSeqs(SentinelSlots(c.models)) :
        \/ load' = [load EXCEPT ![l] = stored(local, order)] /\ UNCHANGED cache
        \/ Finish(l, found(local, order))
  BY DEF ReadBundle
<1>4. AreModels(c.models)
  BY <1>2 DEF IsConfig
<1>5. IsBundle(local) /\ BundleEntered(Known, local)
  BY <1>2, <1>3, <1>4, RawKeysAreEntered DEF ConfigInv, KeysSound
<1>. HIDE DEF c, fresh
<1>6. /\ AreModels(r(local, order).models) /\ AllEntered(Known, r(local, order).models)
      /\ SentinelSlots(r(local, order).models) = {}
      /\ IsBundle(r(local, order).bundle) /\ BundleEntered(Known, r(local, order).bundle)
  BY <1>2, <1>3, <1>4, <1>5, ResolvedIsSettled
<1>. HIDE DEF r
<1>7. IsConfig(found(local, order)) /\ found(local, order).models = r(local, order).models
  BY <1>2, <1>6, PartsOfConfig DEF IsConfig
<1>. HIDE DEF found
<1>8. CASE load' = [load EXCEPT ![l] = stored(local, order)] /\ UNCHANGED cache
  <2>1. LoadSound(Known, stored(local, order))
    BY <1>2, <1>6, <1>7, RawKeysAreKeys DEF LoadSound, IsLoad
  <2>. HIDE DEF stored
  <2>2. LoadsSound'
    BY <1>0, <1>8, <2>1 DEF ConfigInv, LoadsSound
  <2>. QED  BY <1>0, <1>1, <1>8, <2>2 DEF ConfigInv
<1>9. CASE Finish(l, found(local, order))
  <2>1. LoadsSound' /\ CacheSound(Known, cache)'
    BY <1>0, <1>2, <1>6, <1>7, <1>9, FinishSound
  <2>. QED  BY <1>1, <2>1 DEF ConfigInv
<1>. QED  BY <1>3, <1>8, <1>9

LEMMA StoreSound ==
  ASSUME ConfigInv, NEW l \in Loads, StoreBundle(l)
  PROVE  ConfigInv'
<1>. DEFINE x == load[l]
<1>0. UNCHANGED origins /\ Known' = Known
  BY KnownStays DEF StoreBundle
<1>1. FilesSound' /\ CountsSound' /\ (payload' = None \/ IsPage(payload'))
  BY <1>0 DEF StoreBundle, counts, ConfigInv, FilesSound, CountsSound
<1>2. LoadSound(Known, x) /\ x.at = "storing"
  BY DEF StoreBundle, ConfigInv, LoadsSound
<1>3. KeysSound'
  BY <1>0, <1>2 DEF StoreBundle, KeysSound, LoadSound, IsLoad
<1>4. CASE x.raw # {}
  <2>1. load' = [load EXCEPT ![l] = [x EXCEPT !.at = "hiding"]] /\ cache' = cache
    BY <1>4 DEF StoreBundle
  <2>. HIDE DEF x
  <2>2. LoadSound(Known, [x EXCEPT !.at = "hiding"])
    BY <1>2 DEF LoadSound, IsLoad
  <2>3. LoadsSound'
    BY <1>0, <2>1, <2>2 DEF ConfigInv, LoadsSound
  <2>. QED  BY <1>0, <1>1, <1>3, <2>1, <2>3 DEF ConfigInv
<1>5. CASE x.raw = {}
  <2>1. Finish(l, x.config)
    BY <1>5 DEF StoreBundle
  <2>. HIDE DEF x
  <2>2. LoadsSound' /\ CacheSound(Known, cache)'
    BY <1>0, <1>2, <2>1, FinishSound DEF LoadSound, IsLoad
  <2>. QED  BY <1>1, <1>3, <2>2 DEF ConfigInv
<1>. QED  BY <1>4, <1>5

LEMMA HideSound ==
  ASSUME ConfigInv, NEW l \in Loads, HideAndFinish(l)
  PROVE  ConfigInv'
<1>0. UNCHANGED origins /\ Known' = Known
  BY KnownStays DEF HideAndFinish
<1>1. KeysSound' /\ CountsSound' /\ (payload' = None \/ IsPage(payload'))
  BY <1>0 DEF HideAndFinish, counts, ConfigInv, KeysSound, CountsSound
<1>2. LoadSound(Known, load[l]) /\ load[l].at = "hiding" /\ Finish(l, load[l].config)
  BY DEF HideAndFinish, ConfigInv, LoadsSound
<1>3. ASSUME NEW c, IsConfig(c)
      PROVE  LET h == [c EXCEPT !.models = Hidden(c.models, load[l].raw)]
             IN  /\ IsConfig(h)
                 /\ AllEntered(Known, c.models) => AllEntered(Known, h.models)
  <2>. DEFINE new == Hidden(c.models, load[l].raw)
              h == [c EXCEPT !.models = new]
  <2>1. /\ AreModels(new) /\ RawSlots(new) \subseteq RawSlots(c.models)
        /\ \A m \in RawSlots(new) : new[m] = c.models[m]
    BY <1>3, HiddenAreModels DEF IsConfig
  <2>0. DOMAIN new = DOMAIN c.models /\ \A m \in DOMAIN new : new[m].url = c.models[m].url
    BY <1>3 DEF Hidden, IsConfig, AreModels, Entries
  <2>. HIDE DEF new
  <2>2. IsConfig(h) /\ h.models = new
    BY <1>3, <2>1, PartsOfConfig DEF IsConfig
  <2>3. AllEntered(Known, c.models) => AllEntered(Known, new)
    BY <2>0, <2>1 DEF AllEntered
  <2>. QED  BY <2>2, <2>3 DEF new
<1>4. FilesSound'
  BY <1>0, <1>3 DEF HideAndFinish, Rewritten, ConfigInv, FilesSound
<1>5. LoadsSound' /\ CacheSound(Known, cache)'
  BY <1>0, <1>2, FinishSound DEF LoadSound, IsLoad
<1>. QED  BY <1>1, <1>4, <1>5 DEF ConfigInv

LEMMA CrashSound ==
  ASSUME ConfigInv, Crash
  PROVE  ConfigInv'
<1>0. UNCHANGED origins /\ Known' = Known
  BY KnownStays DEF Crash
<1>1. KeysSound' /\ CountsSound' /\ (payload' = None \/ IsPage(payload'))
  BY <1>0 DEF Crash, counts, ConfigInv, KeysSound, CountsSound
<1>2. LoadsSound' /\ cache' = None
  BY <1>0, IdleIsSound DEF Crash, LoadsSound
<1>3. committed' = committed /\ (UNCHANGED <<file, backup>> \/ (backup' = file /\ file' = Empty))
  BY DEF Crash
<1>4. FilesSound'
  BY <1>0, <1>3, IdleIsSound, EmptyIsConfig DEF ConfigInv, FilesSound
<1>. QED  BY <1>1, <1>2, <1>4 DEF ConfigInv

LEMMA ConfigNext == ConfigInv /\ [Next]_vars => ConfigInv'
<1>. SUFFICES ASSUME ConfigInv, [Next]_vars  PROVE ConfigInv'
  OBVIOUS
<1>1. CASE FetchPayload
  <2>1. payload' = Payload(cache) /\ IsConfig(cache)
    BY <1>1 DEF FetchPayload, ConfigInv, CacheSound
  <2>2. IsPage(payload')
    BY <2>1, PayloadIsPage
  <2>3. CountsSound'
    BY <1>1, ConfigAssumption DEF FetchPayload, ConfigInv, CountsSound
  <2>4. UNCHANGED <<file, backup, bundle, cache, load, committed, origins>>
    BY <1>1 DEF FetchPayload
  <2>5. Known' = Known
    BY <2>4, KnownStays
  <2>. QED  BY <2>2, <2>3, <2>4, <2>5 DEF ConfigInv, FilesSound, LoadsSound, KeysSound
<1>2. CASE Reload \/ UNCHANGED vars
  <2>1. /\ UNCHANGED <<file, backup, bundle, load, payload, edits, saves, committed, origins>>
        /\ cache' = None \/ cache' = cache
    BY <1>2 DEF Reload, vars, counts
  <2>2. Known' = Known
    BY <2>1, KnownStays
  <2>. QED  BY <2>1, <2>2 DEF ConfigInv, FilesSound, LoadsSound, KeysSound, CountsSound
<1>3. CASE \E l \in Loads : LoadFails(l)
  <2>1. PICK l \in Loads : load' = [load EXCEPT ![l] = Idle]
    BY <1>3 DEF LoadFails
  <2>2. UNCHANGED <<file, backup, bundle, cache, payload, edits, saves, committed, origins>>
    BY <1>3 DEF LoadFails, counts
  <2>3. Known' = Known
    BY <2>2, KnownStays
  <2>4. LoadsSound'
    BY <2>1, <2>3, IdleIsSound DEF ConfigInv, LoadsSound
  <2>. QED  BY <2>2, <2>3, <2>4 DEF ConfigInv, FilesSound, KeysSound, CountsSound
<1>. QED  BY <1>1, <1>2, <1>3, EditSound, SaveSound, CrashSound, StartSound, ReadSound, StoreSound, HideSound
          DEF Next

(* Every edit, save, load and crash keeps the shape of the file, its backup, the cache, the page a dashboard
   holds, the loads and the bundles. *)
THEOREM TypeCorrect == Spec => []TypeOK
<1>1. ConfigInv => TypeOK
  BY DEF ConfigInv, TypeOK, FilesSound, LoadsSound, LoadSound, IsLoad, KeysSound, CountsSound, CacheSound
<1>. QED  BY <1>1, ConfigInit, ConfigNext, PTL DEF Spec

(* Requests are routed on a configuration whose names are unambiguous and, where the key store is on, whose
   keys are resolved, and resolving a name on it reports a cycle exactly when the name reaches an alias that
   reaches itself (loadConfig and collectTargets of config-loader.ts). *)
THEOREM RoutingHolds == Spec => []RoutingIsSound
<1>1. ASSUME ConfigInv  PROVE CachedIsUsable
  BY <1>1 DEF ConfigInv, CacheSound, CachedIsUsable
<1>2. ASSUME ConfigInv  PROVE CyclesAreReported
  BY <1>2, CyclesReported DEF ConfigInv, CacheSound, CyclesAreReported
<1>3. ConfigInv => RoutingIsSound
  BY <1>1, <1>2 DEF RoutingIsSound
<1>. QED  BY <1>3, ConfigInit, ConfigNext, PTL DEF Spec

(* Whatever loads, edits and saves overlap, a key goes only to a URL that begins like one it was entered with,
   or like one a page had for the entry whose key, in the clear, a save then kept: neither the best match of
   an account nor a save of hidden keys takes it elsewhere, as long as no entry is without a URL
   (key-store.ts, applyDashboardConfigUpdate of config-loader.ts). *)
THEOREM KeysStayHome == Spec => []KeyOfOwnUpstream
<1>1. ASSUME ConfigInv  PROVE KeyOfOwnUpstream
  <2>. SUFFICES ASSUME cache # None, ~bare, NEW m \in DOMAIN cache.models, cache.models[m].key \in Keys
                PROVE  Entered(Known, cache.models[m].key, cache.models[m].url)
    BY DEF KeyOfOwnUpstream, Entered, Known
  <2>1. AllEntered(Known, cache.models)
    BY <1>1 DEF ConfigInv, CacheSound
  <2>2. m \in RawSlots(cache.models)
    BY ConfigAssumption DEF RawSlots
  <2>. QED  BY <2>1, <2>2 DEF AllEntered
<1>. QED  BY <1>1, ConfigInit, ConfigNext, PTL DEF Spec
=============================================================================
