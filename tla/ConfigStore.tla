---------------------------- MODULE ConfigStore ----------------------------
(***************************************************************************)
(* The configuration of the proxy: one file, a cache of what was loaded    *)
(* from it, and the key bundle (config-loader.ts, key-store.ts, the edits  *)
(* of dashboard.ts).  A load parses the file and awaits the key store up   *)
(* to three times before it fills the cache, without a lock: loads overlap *)
(* each other and the edits.  An edit reads the file, changes it, writes   *)
(* it back through a temporary file and clears the cache, all in one turn  *)
(* of the event loop; the dashboard's save sends a whole configuration it  *)
(* fetched earlier.                                                        *)
(*                                                                         *)
(* The file is modelled by what its text parses to.  Serialising keeps all *)
(* that is modelled, so a written configuration is read back unchanged.    *)
(***************************************************************************)
EXTENDS Routing, KeyStore

CONSTANTS ModelNames, AliasNames, ScheduleNames,  \* the names edits may use
          Urls, Keys,       \* base URLs, as sequences of parts, and keys
          Loads,            \* the loads that may be in flight together
          InitialFiles,     \* the configurations a session may start with
          None,             \* no configuration
          MaxEdits,         \* bound: edits in a behaviour
          MaxSaves          \* bound: pages fetched, to be saved once, in a behaviour

VARIABLES
    file, backup,   \* what the file and its .bak copy parse to
    bundle,         \* the key bundle: account -> key
    cache,          \* cachedConfig, or None
    load,           \* the loads in flight
    payload,        \* the configuration a dashboard has fetched, or None
    edits, saves,   \* count towards MaxEdits and MaxSaves
    committed,      \* history: the configuration the last edit or save wrote
    assigned,       \* history: the pairs of key and URL users have entered
    moved,          \* history: the pairs of a key of the file and a URL of a page
    bare            \* history: an entry without a URL has been in the file

counts == <<edits, saves>>
origins == <<assigned, moved, bare>>
vars == <<file, backup, bundle, cache, load, payload, counts, committed, origins>>

Empty == [store |-> FALSE, limit |-> 0, models |-> <<>>, composite |-> <<>>, schedule |-> <<>>]
Idle == [at |-> "idle", config |-> Empty, bundle |-> <<>>, raw |-> {}]
NewAlias == [limit |-> 0, options |-> 0, tools |-> "none", targets |-> <<>>]
Without(f, x) == [y \in DOMAIN f \ {x} |-> f[y]]

(* The shapes of what is kept.                                              *)
Entries == [url : Urls, key : Keys \cup {Sentinel, Blank}]
TargetEntries == [rank : {"primary", "fallback", "share", "off"}, ability : BOOLEAN]

IsAlias(alias) ==
    /\ DOMAIN alias = {"limit", "options", "tools", "targets"}
    /\ alias.limit \in {0, 1} /\ alias.options \in {0, 1}
    /\ alias.tools \in {"none", "toolset", "decision"}
    /\ DOMAIN alias.targets \subseteq Names
    /\ \A x \in DOMAIN alias.targets : alias.targets[x] \in TargetEntries

AreAliases(aliases) == DOMAIN aliases \subseteq Names /\ \A a \in DOMAIN aliases : IsAlias(aliases[a])

AreSchedules(schedules) ==
    /\ DOMAIN schedules \subseteq Names
    /\ \A a \in DOMAIN schedules :
         /\ DOMAIN schedules[a] \subseteq Names
         /\ \A x \in DOMAIN schedules[a] : schedules[a][x] \subseteq Times

AreModels(models) == DOMAIN models \subseteq Names /\ \A m \in DOMAIN models : models[m] \in Entries

IsConfig(c) ==
    /\ DOMAIN c = {"store", "limit", "models", "composite", "schedule"}
    /\ c.store \in BOOLEAN /\ c.limit \in {0, 1}
    /\ AreModels(c.models) /\ AreAliases(c.composite) /\ AreSchedules(c.schedule)

IsPage(p) ==
    /\ DOMAIN p = {"models", "composite", "schedule"}
    /\ DOMAIN p.models \subseteq Names /\ \A m \in DOMAIN p.models : p.models[m] \in Urls
    /\ AreAliases(p.composite) /\ AreSchedules(p.schedule)

IsBundle(b) == \A a \in DOMAIN b : a[2] \in Urls /\ b[a] \in Keys

ASSUME ConfigAssumption ==
    /\ IsFiniteSet(Names) /\ Cycle \notin Names
    /\ ModelNames \cup AliasNames \cup ScheduleNames \subseteq Names
    /\ \A u \in Urls : u \in Seq(Range(u))
    /\ Keys \cap {Sentinel, Blank} = {}
    /\ \A c \in InitialFiles : IsConfig(c)
    /\ MaxEdits \in Nat /\ MaxSaves \in Nat

-----------------------------------------------------------------------------
(* What a load makes of a file: an alias with the name of a model is left   *)
(* out, and so is a target with the name of its alias.                      *)

Stripped(c) ==
    LET free(f) == Restrict(f, DOMAIN f \ DOMAIN c.models)
    IN  [c EXCEPT !.schedule = free(@),
                  !.composite = [a \in DOMAIN free(@) |->
                     [c.composite[a] EXCEPT !.targets = Without(c.composite[a].targets, a)]]]

RawKeys(c) == {c.models[m].key : m \in RawSlots(c.models)}
RawPairs(c) == {<<c.models[m].key, c.models[m].url>> : m \in RawSlots(c.models)}
NewPairs(next) == RawPairs(next) \ RawPairs(file)
Bare(c) == \E m \in DOMAIN c.models : c.models[m].url = <<>>

-----------------------------------------------------------------------------
(* The edits, each from a configuration to the ones it may become; one that *)
(* the code refuses has no successor.  Every composite edit copies all the  *)
(* aliases, and the copy keeps neither toolset nor decision.                *)

Copied(c) ==
    [c EXCEPT !.composite = [a \in DOMAIN @ |-> [c.composite[a] EXCEPT !.tools = "none"]]]
WithAlias(c, a, alias) == [Copied(c) EXCEPT !.composite = Put(@, a, alias)]
OldAlias(c, a) == Copied(c).composite[a]
Configured(c) == DOMAIN c.models \cup DOMAIN c.composite \cup DOMAIN c.schedule

AddAlias(c) ==
    {WithAlias(c, a, NewAlias) : a \in AliasNames \ (DOMAIN c.models \cup DOMAIN c.composite)}

RemoveAlias(c) ==
    {[Copied(c) EXCEPT !.composite = Without(@, a)] : a \in DOMAIN c.composite}

SetAliasLimit(c) ==
    {WithAlias(c, a, [OldAlias(c, a) EXCEPT !.limit = 1 - @]) : a \in DOMAIN c.composite}

SetFusionOptions(c) ==
    {WithAlias(c, a, [OldAlias(c, a) EXCEPT !.options = 1 - @]) : a \in DOMAIN c.composite}

\* A new primary target takes the place of the old one. The alias is created
\* when it is missing, its name unchecked; only new targets must be configured.
UpsertTarget(c) ==
    LET old(a) == IF a \in DOMAIN c.composite THEN OldAlias(c, a) ELSE NewAlias
        others(a, rank) == [x \in DOMAIN old(a).targets |->
            IF rank = "primary" /\ old(a).targets[x].rank = "primary"
            THEN [old(a).targets[x] EXCEPT !.rank = "share"] ELSE old(a).targets[x]]
        ability(a, x) == x \in DOMAIN old(a).targets /\ old(a).targets[x].ability
    IN  {WithAlias(c, r[1], [old(r[1]) EXCEPT !.targets =
            Put(others(r[1], r[3]), r[2], [rank |-> r[3], ability |-> ability(r[1], r[2])])]) :
         r \in {s \in AliasNames \X Names \X {"primary", "fallback", "share", "off"} :
                  s[1] # s[2] /\ (s[2] \in Configured(c) \/ s[2] \in DOMAIN old(s[1]).targets)}}

RemoveTarget(c) ==
    UNION {{WithAlias(c, a, [OldAlias(c, a) EXCEPT !.targets = Without(@, x)]) :
              x \in DOMAIN c.composite[a].targets} : a \in DOMAIN c.composite}

SetGlobalLimit(c) == {[c EXCEPT !.limit = 1 - @]}

\* A blank key adopts the sentinel of a sibling with a related URL; a sentinel
\* is only taken where it already was.  Nothing compares the name with the aliases.
UpsertModel(c) ==
    LET adopts(m, url) == \E s \in SentinelSlots(c.models) \ {m} : Related(c.models[s].url, url)
        keyFor(m, url, key) == IF key = Blank /\ adopts(m, url) THEN Sentinel ELSE key
    IN  {[c EXCEPT !.models = Put(@, r[1], [url |-> r[2], key |-> keyFor(r[1], r[2], r[3])])] :
         r \in {s \in ModelNames \X Urls \X (Keys \cup {Blank, Sentinel}) :
                  s[3] = Sentinel => s[1] \in SentinelSlots(c.models)}}

EditSchedule(c) ==
    LET old(a) == IF a \in DOMAIN c.schedule THEN c.schedule[a] ELSE <<>> IN
    {[c EXCEPT !.schedule = Put(@, a, <<>>)] :
       a \in ScheduleNames \ (DOMAIN c.models \cup DOMAIN c.schedule)}
    \cup {[c EXCEPT !.schedule = Without(@, a)] : a \in DOMAIN c.schedule}
    \cup {[c EXCEPT !.schedule = Put(@, a, Put(old(a), x, open))] :
          a \in ScheduleNames, x \in Configured(c), open \in SUBSET Times}
    \cup UNION {{[c EXCEPT !.schedule = Put(@, a, Without(c.schedule[a], x))] :
                   x \in DOMAIN c.schedule[a]} : a \in DOMAIN c.schedule}

EditsOf(c) == AddAlias(c) \cup RemoveAlias(c) \cup SetAliasLimit(c) \cup SetFusionOptions(c)
              \cup UpsertTarget(c) \cup RemoveTarget(c) \cup SetGlobalLimit(c)
              \cup UpsertModel(c) \cup EditSchedule(c)

-----------------------------------------------------------------------------
(* The dashboard's save. The page shows no key, and drops the decision of   *)
(* an alias and the ability of a target; it sends all it shows back.        *)

Payload(c) ==
    [models |-> [m \in DOMAIN c.models |-> c.models[m].url],
     composite |-> [a \in DOMAIN c.composite |->
        [c.composite[a] EXCEPT
           !.tools = IF @ = "decision" THEN "none" ELSE @,
           !.targets = [x \in DOMAIN @ |-> [c.composite[a].targets[x] EXCEPT !.ability = FALSE]]]],
     schedule |-> c.schedule]

\* What its user may have changed: the URL of an entry, or a target of an alias.
Revised(p) ==
    LET more(alias, x) ==
          [alias EXCEPT !.targets = Put(@, x, [rank |-> "share", ability |-> FALSE])]
    IN  {p} \cup {[p EXCEPT !.models = Put(@, m, u)] : m \in DOMAIN p.models, u \in Urls}
            \cup {[p EXCEPT !.composite = Put(@, a, more(p.composite[a], x))] :
                   a \in DOMAIN p.composite, x \in Names}

\* Models, aliases and schedules are taken from the page, keys from the file.
Applied(base, p) ==
    [base EXCEPT !.models = [m \in DOMAIN p.models |->
                    [url |-> p.models[m],
                     key |-> IF m \in DOMAIN base.models THEN base.models[m].key ELSE Blank]],
                 !.composite = p.composite,
                 !.schedule = p.schedule]

\* A toolset is not among the keys of an alias that are known, so it is taken for
\* a target that is no table; an alias may not be a target of its own.
ValidComposite(c) ==
    \A a \in Composites(c) : c.composite[a].tools # "toolset" /\ a \notin DOMAIN Targets(c, a)

\* Then an alias with the name of a model, and a cycle at the time of the save.
Accepted(c, t) ==
    /\ ValidComposite(c)
    /\ \A a \in Composites(c) : Cycle \notin Routes(c, t)[a]
    /\ (Composites(c) \cup DOMAIN c.schedule) \cap DOMAIN c.models = {}

-----------------------------------------------------------------------------
Init ==
    /\ file \in InitialFiles /\ backup = Empty
    /\ bundle = <<>> /\ cache = None /\ payload = None
    /\ load = [l \in Loads |-> Idle]
    /\ edits = 0 /\ saves = 0
    /\ committed = file
    /\ assigned = RawPairs(file) /\ moved = {} /\ bare = Bare(file)

\* A temporary file, a copy of the old file and a rename: one step for a reader.
Persist(next) ==
    /\ file' = next /\ backup' = file
    /\ cache' = None
    /\ committed' = next /\ bare' = (bare \/ Bare(next))
    /\ UNCHANGED <<bundle, load>>

Edit ==
    /\ edits < MaxEdits /\ edits' = edits + 1
    /\ \E next \in EditsOf(Stripped(file)) :
         Persist(next) /\ assigned' = assigned \cup NewPairs(next)
    /\ UNCHANGED <<payload, saves, moved>>

FetchPayload ==
    /\ payload = None /\ cache # None
    /\ saves < MaxSaves /\ saves' = saves + 1
    /\ payload' = Payload(cache)
    /\ UNCHANGED <<file, backup, bundle, cache, load, edits, committed, origins>>

PutConfig ==
    /\ payload # None /\ payload' = None
    /\ \E p \in Revised(payload), t \in Times :
         LET next == Applied(Stripped(file), p)
         IN  IF Accepted(next, t) THEN Persist(next) /\ moved' = moved \cup NewPairs(next)
             ELSE UNCHANGED <<file, backup, bundle, cache, load, committed, moved, bare>>
    /\ UNCHANGED <<counts, assigned>>

-----------------------------------------------------------------------------
(* A load. What another load or an edit does between its steps it sees only *)
(* in the file it reads again to hide the keys.                             *)

Finish(l, c) ==
    /\ cache' = Stripped(c)
    /\ load' = [load EXCEPT ![l] = Idle]

StartLoad(l) ==
    /\ load[l].at = "idle" /\ cache = None
    /\ IF file.store THEN load' = [load EXCEPT ![l] = [Idle EXCEPT !.at = "reading", !.config = file]]
                          /\ UNCHANGED cache
       ELSE Finish(l, file)
    /\ UNCHANGED <<file, backup, bundle, payload, counts, committed, origins>>

ReadBundle(l) ==
    LET c == load[l].config
        fresh == bundle = <<>>
    IN  /\ load[l].at = "reading"
        /\ \E local \in WithRawKeys(bundle, c.models),
              order \in SetToSeqs(SentinelSlots(c.models)) :
             LET r == Resolved(local, c.models, order, fresh)
                 found == [c EXCEPT !.models = r.models]
             IN  IF RawKeys(c) # {} \/ r.bundle # local
                 THEN /\ load' = [load EXCEPT ![l] =
                            [at |-> "storing", config |-> found, bundle |-> r.bundle, raw |-> RawKeys(c)]]
                      /\ UNCHANGED cache
                 ELSE Finish(l, found)
        /\ UNCHANGED <<file, backup, bundle, payload, counts, committed, origins>>

\* The whole bundle is written, as it was read before.
StoreBundle(l) ==
    /\ load[l].at = "storing"
    /\ bundle' = load[l].bundle
    /\ IF load[l].raw # {} THEN load' = [load EXCEPT ![l].at = "hiding"] /\ UNCHANGED cache
       ELSE Finish(l, load[l].config)
    /\ UNCHANGED <<file, backup, payload, counts, committed, origins>>

AsParsed(l, c) == [load[l].config EXCEPT !.models = Hidden(@, load[l].raw)]
Rewritten(l, c) == [c EXCEPT !.models = Hidden(@, load[l].raw)]

HideAndFinish(l) ==
    /\ load[l].at = "hiding"
    /\ backup' = file
    /\ file' = Rewritten(l, file)
    /\ committed' = [committed EXCEPT !.models = Hidden(@, load[l].raw)]
    /\ Finish(l, load[l].config)
    /\ UNCHANGED <<bundle, payload, counts, origins>>

\* The key store fails: the error is rethrown and nothing is cached.
LoadFails(l) ==
    /\ load[l].at \in {"reading", "storing"}
    /\ load' = [load EXCEPT ![l] = Idle]
    /\ UNCHANGED <<file, backup, bundle, cache, payload, counts, committed, origins>>

\* A reload clears the cache; the load that follows it is a StartLoad.
Reload ==
    /\ cache # None /\ cache' = None
    /\ UNCHANGED <<file, backup, bundle, load, payload, counts, committed, origins>>

\* A crash with no load in flight is no more than a Reload.
Crash ==
    /\ \E l \in Loads : load[l].at # "idle"
    /\ load' = [l \in Loads |-> Idle] /\ cache' = None
    /\ UNCHANGED <<bundle, payload, counts, committed, origins>>
    /\ \/ UNCHANGED <<file, backup>>
       \/ \E l \in Loads : load[l].at = "hiding" /\ backup' = file /\ file' = Empty

Next ==
    \/ Edit \/ FetchPayload \/ PutConfig \/ Reload \/ Crash
    \/ \E l \in Loads : \/ StartLoad(l) \/ ReadBundle(l) \/ StoreBundle(l)
                        \/ HideAndFinish(l) \/ LoadFails(l)

Spec == Init /\ [][Next]_vars

-----------------------------------------------------------------------------
(* Every stored, cached or loaded configuration keeps its shape, and so do   *)
(* the page and the bundles.                                                *)
TypeOK ==
  /\ IsConfig(file) /\ IsConfig(backup) /\ IsConfig(committed)
  /\ cache = None \/ IsConfig(cache)
  /\ payload = None \/ IsPage(payload)
  /\ DOMAIN load = Loads
  /\ \A l \in Loads : /\ load[l].at \in {"idle", "reading", "storing", "hiding"}
                      /\ IsConfig(load[l].config) /\ load[l].raw \subseteq Keys
                      /\ IsBundle(load[l].bundle)
  /\ IsBundle(bundle)
  /\ edits \in 0..MaxEdits /\ saves \in 0..MaxSaves

(* Whatever the file holds, edits interleave with a load, or a save brings  *)
(* in, requests are routed on a configuration without an alias that has the *)
(* name of a model, without an alias among its own targets, and, where the  *)
(* key store is on, with no sentinel left where a key goes. On it,          *)
(* resolving a name reports a cycle exactly when an alias that reaches      *)
(* itself is reached from it, at every time and through schedules, so a     *)
(* name without one is always routed.                                       *)
CachedIsUsable ==
  cache # None =>
    /\ (Composites(cache) \cup DOMAIN cache.schedule) \cap DOMAIN cache.models = {}
    /\ \A a \in Composites(cache) : a \notin DOMAIN Targets(cache, a)
    /\ cache.store => SentinelSlots(cache.models) = {}
CyclesAreReported ==
  cache # None /\ DOMAIN cache.models # {} =>
    \A t \in Times :
      LET routes == Routes(cache, t)
          cyclic == OnCycle(cache, t)
      IN  \A n \in Names :
            LET reached == UNION {{e} \cup ReachedFrom(cache, t, e) : e \in Effective(cache, n, t)}
            IN  (Cycle \in routes[n]) <=> (reached \cap cyclic # {})
RoutingIsSound == CachedIsUsable /\ CyclesAreReported

(* Whatever loads, edits and saves overlap, a key is sent only to a URL that *)
(* starts like one it was entered with: the best match of an account takes  *)
(* it no further, and no save takes a key that is hidden anywhere. A key    *)
(* that stands in the clear in the file is another matter, it goes to the   *)
(* URL a page has for the name of its entry, even when the page is older    *)
(* than the key (moved). And once an entry has no URL nothing is promised:  *)
(* the empty one is a prefix of every other, so it is related to all.       *)
KeyOfOwnUpstream ==
  cache # None /\ ~bare =>
    \A m \in DOMAIN cache.models : cache.models[m].key \in Keys =>
      \E p \in assigned \cup moved :
        p[1] = cache.models[m].key /\ Head(p[2]) = Head(cache.models[m].url)

(* What the last edit or save wrote is in the file, with keys replaced by    *)
(* sentinels at most, or, after a crash in the middle of a rewrite that     *)
(* hides keys, in its backup: a load that parsed the file earlier does not  *)
(* put back what it parsed. (A save does take back edits made since its     *)
(* page was fetched, and an edit after such a crash starts from nothing.)   *)
CommittedSurvives ==
  \/ file = committed
  \/ file = Empty /\ backup = committed
=============================================================================
