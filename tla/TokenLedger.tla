----------------------------- MODULE TokenLedger -----------------------------
(***************************************************************************)
(* The token accounting of src/src/utils/dashboard-stats.ts: the in-memory *)
(* event log that feeds the token limits and the heatmap, the all-time and *)
(* the daily totals per model, the event log of one composite alias, and   *)
(* the JSONL file the process appends to and restores from.                *)
(*                                                                         *)
(* One unit of time is one second, the precision to which the code         *)
(* truncates the timestamps it stores and dumps.  A usage is reduced to    *)
(* its total_tokens.  A crash loses everything but the file.               *)
(***************************************************************************)
EXTENDS Integers, Sequences, FiniteSets, FiniteSetsExt, Functions

CONSTANTS
  Models,          (* model names usage is recorded for                        *)
  Amounts,         (* total_tokens a response may report; 0 = no usage in it   *)
  Windows,         (* lengths of the sliding windows token limits query        *)
  DayLength,       (* seconds in a day                                         *)
  Retention,       (* TOKEN_RETENTION_WINDOW_MS and COMPOSITE_RETENTION_MS     *)
  HeatmapWindow,   (* TOKEN_HEATMAP_WINDOW_MS: the oldest event a dump writes  *)
  RetentionDays,   (* retentionDays given to loadTokenStatsFromLog             *)
  StartTime,       (* the second the process first starts                      *)
  MaxTime,         (* bound: seconds that pass                                 *)
  MaxRecords,      (* bound: usage records in a behaviour                      *)
  MaxRows,         (* bound: rows the file may reach                           *)
  MaxQueries       (* bound: window queries in a behaviour                     *)

ASSUME LedgerAssumption ==
  /\ DayLength \in Nat \ {0} /\ Retention \in Nat /\ RetentionDays \in Nat \ {0}
  /\ Amounts \subseteq Nat
  /\ Windows \subseteq 1..Retention
  /\ HeatmapWindow \in 1..Retention
  /\ RetentionDays * DayLength <= Retention
  /\ StartTime \in Nat /\ StartTime > Retention
  /\ {MaxTime, MaxRecords, MaxRows, MaxQueries} \subseteq Nat

VARIABLES
  now,             (* the wall clock, in seconds                               *)
  up,              (* is the process running                                   *)
  events,          (* tokenHeatmapEvents                                       *)
  modelStats,      (* modelStats: model -> all-time total                      *)
  daily,           (* dailyTokenStats: models seen today -> total              *)
  daySlot,         (* currentDaySlot                                           *)
  alias,           (* compositeAliasStates.get(alias).events                   *)
  dumpTs,          (* lastHeatmapDumpTs                                        *)
  frozen,          (* windowSumFrozen: what left the window of some query      *)
  cutoff,          (* windowSumCutoff                                          *)
  timerTotal,      (* lastDumpTokenCount of the periodic dump                  *)
  timerAt,         (* when the interval of the periodic dump last began        *)
  file,            (* the rows of model_proxy_tokens.jsonl                     *)
  queries,         (* number of window queries so far (bounded)                *)
  history,         (* ghost: the usage the ledger answers for, oldest first    *)
  durable,         (* ghost: how much of history was there at the last write   *)
  regular          (* ghost: the log came back in the order of time and no     *)
                   (* query since went back                                    *)

memory == <<events, modelStats, daily, daySlot, alias, dumpTs, frozen, cutoff,
            timerTotal, timerAt>>
vars == <<now, up, memory, file, queries, history, durable, regular>>

-----------------------------------------------------------------------------
(* Days, sums and the pruning that drops the head of an event array.       *)

Day(t) == t \div DayLength
Retained(day) == day > Day(now) - RetentionDays

(* The sum of the amounts f, counted token by token. *)
Tokens(f) == Cardinality(UNION {{x} \X (1..f[x]) : x \in DOMAIN f})
SumOf(es, positions) == Tokens([i \in positions |-> es[i].values])
Sum(es) == SumOf(es, DOMAIN es)
NoTotals == <<>>
TotalOf(totals, m) == IF m \in DOMAIN totals THEN totals[m] ELSE 0
AddTo(totals, m, v) ==
  [x \in DOMAIN totals \cup {m} |-> TotalOf(totals, x) + (IF x = m THEN v ELSE 0)]

InOrder(es) == \A i, j \in DOMAIN es : i < j => es[i].ts <= es[j].ts

DropOlder(es, horizon) ==
  LET kept == {i \in DOMAIN es : es[i].ts >= horizon}
  IN  IF kept = {} THEN <<>> ELSE SubSeq(es, Min(kept), Len(es))

-----------------------------------------------------------------------------
(* Rows of the file.  dumpDailyTokens writes a full snapshot of a finished *)
(* day, dumpTodayTokens the events after the previous dump; only the first *)
(* carries the alias event log.  The events of a row keep the positions    *)
(* they have in the log: its order is what matters, not the numbers.       *)

DailyRow(day, evs) ==
  [date |-> day, at |-> now, after |-> 0, stats |-> daily, alias |-> <<alias>>,
   events |-> Restrict(evs, {i \in DOMAIN evs : /\ Day(evs[i].ts) = day
                                                /\ evs[i].ts >= now - HeatmapWindow})]

TodayRow(after, totals) ==
  [date |-> Day(now), at |-> now, after |-> after, stats |-> totals, alias |-> <<>>,
   events |-> Restrict(events, {i \in DOMAIN events : /\ Day(events[i].ts) = Day(now)
                                                      /\ events[i].ts > after
                                                      /\ events[i].ts >= now - HeatmapWindow})]

(* One turn of the binary search of getTokensInWindowSince and sumCompositeEventsSince. *)
SearchTurn(es, boundary, range) ==
  LET mid == (range.lo + range.hi) \div 2
  IN  IF range.lo >= range.hi THEN range
      ELSE IF es[mid + 1].ts < boundary THEN [lo |-> mid + 1, hi |-> range.hi]
      ELSE [lo |-> range.lo, hi |-> mid]

(* The search over [0, Len(es)), which ends within Len(es) turns: where it ends is the number of
   events before `boundary` when es is in order. *)
BinarySearch(es, boundary) ==
  LET after[n \in 0..Len(es)] == IF n = 0 THEN [lo |-> 0, hi |-> Len(es)]
                                 ELSE SearchTurn(es, boundary, after[n - 1])
  IN  after[Len(es)].lo

UncachedQuery(es, from) ==
  [frozen |-> frozen + SumOf(es, {i \in DOMAIN es : es[i].ts < from}), result |-> frozen + Sum(es)]

(* getTokensInWindowSince: what one call adds to the frozen sum and what it returns. *)
WindowQuery(es, from) ==
  LET lo == IF cutoff > 0 THEN BinarySearch(es, cutoff) ELSE 0
      live == {i \in lo + 1..Len(es) : es[i].ts >= from}
      split == IF live = {} THEN Len(es) ELSE Min(live) - 1
      sum == frozen + SumOf(es, lo + 1..split)
  IN  [frozen |-> sum, result |-> sum + SumOf(es, split + 1..Len(es))]

(* sumCompositeEventsSince: the usage of the alias from a time on. *)
AliasSum(from) == SumOf(alias, BinarySearch(alias, from) + 1..Len(alias))

-----------------------------------------------------------------------------
Init ==
  /\ now = StartTime
  /\ up = TRUE
  /\ events = <<>> /\ alias = <<>>
  /\ modelStats = NoTotals /\ daily = NoTotals
  /\ daySlot = Day(now)
  /\ dumpTs = 0 /\ frozen = 0 /\ cutoff = 0
  /\ timerTotal = 0 /\ timerAt = now
  /\ file = <<>>
  /\ queries = 0
  /\ history = <<>> /\ durable = 0 /\ regular = TRUE

(* recordModelUsage, and recordCompositeTokenUsage when the request came through the alias.  The
   heatmap event is pushed before recordDailyToken turns the day over. *)
RecordUsage(m, v, viaAlias) ==
  LET evs == IF v > 0
             THEN DropOlder(Append(events, [ts |-> now, values |-> v, model |-> m]), now - Retention)
             ELSE events
      rollover == Day(now) # daySlot
  IN  /\ up
      /\ Len(history) < MaxRecords
      /\ rollover => Len(file) < MaxRows
      /\ events' = evs
      /\ modelStats' = AddTo(modelStats, m, v)
      /\ daily' = AddTo(IF rollover THEN NoTotals ELSE daily, m, v)
      /\ daySlot' = Day(now)
      /\ file' = IF rollover THEN Append(file, DailyRow(daySlot, evs)) ELSE file
      /\ dumpTs' = IF rollover THEN now ELSE dumpTs
      /\ durable' = IF rollover THEN Len(history) ELSE durable
      /\ alias' = IF viaAlias /\ v > 0
                  THEN DropOlder(Append(alias, [ts |-> now, values |-> v]), now - Retention)
                  ELSE alias
      /\ history' = Append(history, [ts |-> now, values |-> v, model |-> m, viaAlias |-> viaAlias])
      /\ UNCHANGED <<now, up, frozen, cutoff, timerTotal, timerAt, queries, regular>>

(* The periodic dump: skipped when today's total is what it was at the previous one, otherwise
   dumpTodayTokens, which first turns the day over. *)
PeriodicDump ==
  LET rollover == Day(now) # daySlot
      totals == IF rollover THEN NoTotals ELSE daily
      after == IF rollover THEN now ELSE dumpTs
      closed == IF rollover THEN Append(file, DailyRow(daySlot, events)) ELSE file
  IN  /\ up
      /\ timerAt < now
      /\ Tokens(daily) # timerTotal
      /\ Len(closed) < MaxRows
      /\ file' = Append(closed, TodayRow(after, totals))
      /\ daily' = totals
      /\ daySlot' = Day(now)
      /\ dumpTs' = now
      /\ timerTotal' = Tokens(daily)
      /\ timerAt' = now
      /\ durable' = Len(history)
      /\ UNCHANGED <<now, up, events, modelStats, alias, frozen, cutoff, queries, history, regular>>

(* getTokensInWindowSince(now - w), called by the limit check, the status poll and the TUI. *)
QueryWindow(w) ==
  /\ up
  /\ queries < MaxQueries
  /\ queries' = queries + 1
  /\ frozen' = WindowQuery(events, now - w).frozen
  /\ cutoff' = now - w
  /\ regular' = (regular /\ cutoff <= now - w)
  /\ UNCHANGED <<now, up, events, modelStats, daily, daySlot, alias, dumpTs, timerTotal, timerAt,
                 file, history, durable>>

PassTime ==
  /\ now < StartTime + MaxTime
  /\ now' = now + 1
  /\ UNCHANGED <<up, memory, file, queries, history, durable, regular>>

(* The process dies; what no write covered is gone with it. *)
Crash ==
  /\ up
  /\ up' = FALSE
  /\ history' = SubSeq(history, 1, durable)
  /\ events' = <<>> /\ alias' = <<>>
  /\ modelStats' = NoTotals /\ daily' = NoTotals
  /\ daySlot' = Day(now)
  /\ dumpTs' = 0 /\ frozen' = 0 /\ cutoff' = 0
  /\ timerTotal' = 0 /\ timerAt' = now
  /\ UNCHANGED <<now, file, queries, durable, regular>>

-----------------------------------------------------------------------------
(* loadTokenStatsFromLog.  Rows are named by their place in the file, and  *)
(* the events in them by the row and their position in it.                 *)

RetainedRows == {r \in DOMAIN file : Retained(file[r].date)}
EarliestRows ==
  {r \in RetainedRows : \A s \in RetainedRows :
     file[s].date = file[r].date => file[s].at >= file[r].at}
LatestRows ==
  {r \in RetainedRows : \A s \in RetainedRows :
     file[s].date = file[r].date => file[s].at <= file[r].at}

(* The events the load reads, in the order of the file: not too old, and in a delta row only those
   after the dump before it. *)
EventInMilliseconds(p) == [file[p[1]].events[p[2]] EXCEPT !.ts = @ * 1000]
EventAt(p) == file[p[1]].events[p[2]]
Readable ==
  {p \in UNION {{r} \X DOMAIN file[r].events : r \in RetainedRows} :
     /\ EventAt(p).ts >= now - Retention
     /\ file[p[1]].after > 0 => EventAt(p).ts > file[p[1]].after}
Before(p, q) == p[1] < q[1] \/ (p[1] = q[1] /\ p[2] < q[2])

(* seenHeatmap: of equal events only the first is pushed. *)
Pushed == {p \in Readable : \A q \in Readable : Before(q, p) => EventAt(q) # EventAt(p)}
Place(p) == Cardinality({q \in Pushed : Before(q, p)}) + 1

RestoredEvents ==
  DropOlder([n \in 1..Cardinality(Pushed) |-> EventAt(CHOOSE p \in Pushed : Place(p) = n)],
            now - RetentionDays * DayLength)

(* The totals of a model are added up over the latest row of each day. *)
RowsWith(m) == {r \in LatestRows : m \in DOMAIN file[r].stats}
RestoredModels == {m \in Models : RowsWith(m) # {}}
RestoredModelStats ==
  [m \in RestoredModels |-> Tokens([r \in RowsWith(m) |-> file[r].stats[m]])]

(* The daily map is set row by row: the last row that has the model stays. *)
RestoredDaily == [m \in RestoredModels |-> file[Max(RowsWith(m))].stats[m]]

(* The alias is set row by row too.  Its log is in the order of time, so that the filter and the sort
   leave its tail. *)
AliasRows == {r \in LatestRows : file[r].alias # <<>>}
RestoredAlias ==
  IF AliasRows = {} THEN <<>> ELSE DropOlder(file[Max(AliasRows)].alias[1], now - Retention)

Restart ==
  /\ ~up
  /\ up' = TRUE
  /\ events' = RestoredEvents
  /\ modelStats' = RestoredModelStats
  /\ daily' = RestoredDaily
  /\ alias' = RestoredAlias
  /\ daySlot' = Day(now)
  /\ timerAt' = now
  /\ regular' = InOrder(RestoredEvents)
  /\ UNCHANGED <<now, dumpTs, frozen, cutoff, timerTotal, file, queries, history, durable>>

Next ==
  \/ \E m \in Models, v \in Amounts, viaAlias \in BOOLEAN : RecordUsage(m, v, viaAlias)
  \/ PeriodicDump
  \/ \E w \in Windows : QueryWindow(w)
  \/ PassTime
  \/ Crash
  \/ Restart

Spec == Init /\ [][Next]_vars
-----------------------------------------------------------------------------
(* The usage of a model on the days that are still retained, how often an event is in the log, how
   often it was recorded, and what an alias used from a time on. *)
RetainedUse(m) ==
  SumOf(history, {h \in DOMAIN history : history[h].model = m /\ Retained(Day(history[h].ts))})
Occurrences(e) == Cardinality({i \in DOMAIN events : events[i] = e})
Records(e, h) == h.ts = e.ts /\ h.values = e.values /\ h.model = e.model
Recorded(e) == Cardinality({h \in DOMAIN history : Records(e, history[h])})
AliasUse(from) ==
  SumOf(history, {h \in DOMAIN history : history[h].viaAlias /\ history[h].ts >= from})

IsTotals(totals) == DOMAIN totals \subseteq Models /\ \A m \in DOMAIN totals : totals[m] \in Nat
IsEvent(e) == e \in [ts : StartTime..now, values : Amounts \ {0}, model : Models]

TypeOK ==
  /\ now \in StartTime..StartTime + MaxTime
  /\ up \in BOOLEAN /\ regular \in BOOLEAN
  /\ \A i \in DOMAIN events : IsEvent(events[i])
  /\ IsTotals(modelStats) /\ IsTotals(daily)
  /\ daySlot \in Nat /\ daySlot <= Day(now)
  /\ dumpTs \in 0..now /\ timerAt \in 0..now
  /\ frozen \in Nat /\ cutoff \in 0..now
  /\ Len(file) <= MaxRows
  /\ durable <= Len(history)

(* A usage is in memory at most as often as it was recorded, whatever mix of cumulative and delta
   rows, crashes and restarts it came through; and no total is missing while the process runs, a
   restart behind it or not: the all-time total of a model, which the limit of an alias without a
   duration is checked against, never falls below what the model used on the days a restart reads
   back, everything up to the last write included (loadTokenStatsFromLog, seenHeatmap, modelStats). *)
NoPhantomEvents == \A i \in DOMAIN events : Occurrences(events[i]) <= Recorded(events[i])
DurableTotalsSurvive == up => \A m \in Models : RetainedUse(m) <= TotalOf(modelStats, m)
RestoreIsFaithful == NoPhantomEvents /\ DurableTotalsSurvive

(* A query of the window counts each usage once, and on its own side of the boundary.  Whatever the
   day's turn, the pruning, the restarts and earlier queries did to the event log and the cursor, what
   it finds still in the window is no more than was used since its boundary, and what it has absorbed
   no more than was used before it, as long as the log came back in the order of time and the queried
   boundary does not go back (getTokensInWindowSince).  That the code returns both parts as the usage
   of the window is taken as it is: README.md says what follows for a sliding limit.  The usage of an
   alias inside any window is never over-stated (getCompositeAliasTokenUsage). *)
UsedBefore(from) == SumOf(history, {h \in DOMAIN history : history[h].ts < from})
UsedSince(from) == SumOf(history, {h \in DOMAIN history : history[h].ts >= from})
QueryIsSplit(query, from) ==
  query.frozen <= UsedBefore(from) /\ query.result - query.frozen <= UsedSince(from)
WindowSplitsUsage ==
  up /\ regular =>
    \A w \in Windows : cutoff <= now - w => QueryIsSplit(WindowQuery(events, now - w), now - w)
AliasUseNeverOverstated == up => \A w \in Windows : AliasSum(now - w) <= AliasUse(now - w)
UsageCountsOnce == WindowSplitsUsage /\ AliasUseNeverOverstated
=============================================================================
