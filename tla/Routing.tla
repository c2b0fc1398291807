------------------------------ MODULE Routing ------------------------------
(***************************************************************************)
(* How a model name becomes an upstream model (config-loader.ts): one hop  *)
(* along a schedule, then the targets of a composite alias, each resolved  *)
(* the same way, then the entries of [models.*] and the default.           *)
(*                                                                         *)
(* A configuration is a record of three partial functions: models maps a   *)
(* name to its entry, composite an alias to a record with its targets, and *)
(* schedule an alias to its targets with the times each is open.           *)
(***************************************************************************)
EXTENDS Naturals, FiniteSets

CONSTANTS Names,        \* everything a request or a target may name
          Times,        \* the times of a week that schedules tell apart
          Covered       \* Covered[w]: the names the pattern w, a model key, matches

Default == "the default route"
Cycle == "a routing cycle"

Composites(c) == DOMAIN c.composite
Targets(c, a) == c.composite[a].targets
Patterns(c) == DOMAIN c.models \cap DOMAIN Covered

\* A window list says when its target is open; an empty one is the fallback.
\* The file's order decides between two open targets: a choice.
ScheduleTargets(c, n, t) ==
    LET open == {x \in DOMAIN c.schedule[n] : t \in c.schedule[n][x]}
        fallback == {x \in DOMAIN c.schedule[n] : c.schedule[n][x] = {}}
    IN  IF open # {} THEN open ELSE fallback

\* One hop: the target of a schedule is not looked up as a schedule again.
Effective(c, n, t) ==
    IF n \in DOMAIN c.schedule /\ ScheduleTargets(c, n, t) # {}
    THEN ScheduleTargets(c, n, t) ELSE {n}

\* An exact entry, else the first pattern that matches, else the default.
Direct(c, n) ==
    LET matching == {w \in Patterns(c) : n \in Covered[w]}
    IN  IF n \in DOMAIN c.models THEN {n}
        ELSE IF matching # {} THEN matching ELSE {Default}

\* The candidates the selection may return: the primary one, the lowest
\* fallback, or any by weight; a share of zero takes a target out.
Selectable(targets) ==
    LET on == {x \in DOMAIN targets : targets[x].rank # "off"}
        primary == {x \in on : targets[x].rank = "primary"}
        fallback == {x \in on : targets[x].rank = "fallback"}
    IN  IF primary # {} THEN primary ELSE IF fallback # {} THEN fallback ELSE on

\* All targets of an alias are resolved before one is selected, so a cycle
\* behind any of them ends the resolution.
BehindSelected(below, targets) == \E x \in Selectable(targets) : Cycle \in below[x]
CycleBelow(below, targets) == \E x \in DOMAIN below : Cycle \in below[x]

Selected(c, e, below) ==
    IF CycleBelow(below, Targets(c, e)) THEN {Cycle}
    ELSE IF Selectable(Targets(c, e)) = {} THEN Direct(c, e)
    ELSE UNION {below[x] : x \in Selectable(Targets(c, e))}

\* What resolving n at time t may return, where seen holds the aliases being
\* expanded and R resolves what is behind them.
Expanded(c, t, R, seen, n) ==
    UNION {IF e \in seen THEN {Cycle}
           ELSE IF e \notin Composites(c) THEN Direct(c, e)
           ELSE Selected(c, e, [x \in DOMAIN Targets(c, e) |-> R[seen \cup {e}][x]])
           : e \in Effective(c, n, t)}

Resolution(c, t) ==
    LET R[seen \in SUBSET Names] == [n \in Names |-> Expanded(c, t, R, seen, n)]
    IN  R

\* Without any model there is only the default.
Routes(c, t) ==
    [n \in Names |-> IF DOMAIN c.models = {} THEN {Default} ELSE Resolution(c, t)[{}][n]]

\* The alias graph at time t, to compare with: an edge to every name a target
\* of an alias stands for.
Leads(c, t, a) == IF a \in Composites(c)
                  THEN UNION {Effective(c, x, t) : x \in DOMAIN Targets(c, a)} ELSE {}

Closed(c, t) == {names \in SUBSET Names : \A a \in names : Leads(c, t, a) \subseteq names}

ReachedFrom(c, t, n) ==
    {e \in Names : \A names \in Closed(c, t) : Leads(c, t, n) \subseteq names => e \in names}

OnCycle(c, t) == {a \in Names : a \in ReachedFrom(c, t, a)}
=============================================================================
