---------------------------- MODULE TrendHistory ----------------------------
(***************************************************************************)
(* The trend data of one store from call to call (TrendStore of            *)
(* internal/stats/trend_store.go): runs are recorded, pinned, deleted and  *)
(* imported, and the file is read again.  What several processes do to one *)
(* file is TrendStore.                                                     *)
(***************************************************************************)
EXTENDS TrendData

CONSTANTS
    HasFile,     \* the store keeps a file (or is in memory only)
    KeepRuns,    \* trend_history_runs, as normalized clamps it
    RunShapes,   \* what a run may bring: sequences of snapshots
    TrendFiles,  \* the content of files: exported elsewhere, edited
    LastRun      \* bound: runs recorded

VARIABLES
    trend,       \* s.data
    newest,      \* the run that the last call recorded, or 0
    trendRuns    \* runs recorded so far

trendVars == <<trend, newest, trendRuns>>

Histories == {S \in SUBSET Nat : IsFiniteSet(S)}

StoredShape == [id : Nat, ns : STRING, eff : Histories, wl : Histories, values : Histories]

\* What a file can hold: any runs, and shapes with any histories.
IsTrendData(d) ==
    /\ d.runs \in Histories /\ d.pinned \subseteq d.runs
    /\ d.shapes \in Seq(StoredShape)
    /\ d = [runs |-> d.runs, pinned |-> d.pinned, shapes |-> d.shapes]

RunSnapshot == [id : Nat, ns : STRING, eff : BOOLEAN, wl : BOOLEAN, values : BOOLEAN]

\* One snapshot for each shape, and each with a history (CurrentTrendBaselines).
IsRunShapes(cur) ==
    /\ cur \in Seq(RunSnapshot)
    /\ \A i \in DOMAIN cur : cur[i].eff \/ cur[i].wl
    /\ \A i, j \in DOMAIN cur : cur[i].id = cur[j].id => i = j

ASSUME TrendAssumption ==
    /\ {TrendMaxPinnedRuns, TrendMaxShapeBaselines, MaxTrendHistoryRuns} \subseteq Nat \ {0}
    /\ TrendStoreMaxSize \in Nat /\ KeepRuns \in 1..MaxTrendHistoryRuns
    /\ \A cur \in RunShapes : IsRunShapes(cur)
    /\ \A x \in TrendFiles : IsTrendData(x)

TrendInit == trend = EmptyTrendData /\ newest = 0 /\ trendRuns = 0

\* readTrendFile: writeTrendFile has put a newline after the data, and a file
\* above the limit is moved aside.
ReadBack(d, invalid) ==
    IF Size(d) + 1 > TrendStoreMaxSize THEN EmptyTrendData ELSE SanitizeTrendData(d, invalid)

\* mutate: what a change starts from, and what it saves.
Current == IF HasFile THEN ReadBack(trend, {}) ELSE trend

SaveTrend(data, run) == trend' = BoundTrendSize(data) /\ newest' = run

\* Record: no snapshots, no change.
Record(cur) ==
    /\ trendRuns < LastRun /\ trendRuns' = trendRuns + 1
    /\ cur # <<>>
    /\ SaveTrend(MergeTrendBaselines(Current, trendRuns', cur, KeepRuns), trendRuns')

\* UpdateRun: nothing is pruned.
Pin(run) ==
    /\ run \in Current.runs
    /\ run \in Current.pinned \/ Cardinality(Current.pinned) < TrendMaxPinnedRuns
    /\ SaveTrend([Current EXCEPT !.pinned = @ \cup {run}], 0)
    /\ UNCHANGED trendRuns

Unpin(run) ==
    /\ run \in Current.runs
    /\ SaveTrend([Current EXCEPT !.pinned = @ \ {run}], 0)
    /\ UNCHANGED trendRuns

DeleteRun(run) ==
    /\ run \in Current.runs
    /\ SaveTrend(RemoveTrendRun(Current, run), 0)
    /\ UNCHANGED trendRuns

\* Import, of a file in which some runs are not valid.
Import(x, invalid) ==
    /\ ~ImportRejected(x, invalid)
    /\ SaveTrend(ImportTrends(Current, SanitizeTrendData(x, invalid), KeepRuns), 0)
    /\ UNCHANGED trendRuns

\* refreshLocked, or a new process: the file is read, in which someone may have
\* made runs invalid, or which someone replaced by another.
Refresh(x, invalid) ==
    /\ HasFile
    /\ trend' = ReadBack(x, invalid) /\ newest' = 0
    /\ UNCHANGED trendRuns

Reset ==
    /\ trend' = EmptyTrendData /\ newest' = 0
    /\ UNCHANGED trendRuns

TrendNext ==
    \/ \E cur \in RunShapes : Record(cur)
    \/ \E run \in Current.runs : Pin(run) \/ Unpin(run) \/ DeleteRun(run)
    \/ \E x \in TrendFiles : Import(x, {}) \/ \E run \in x.runs : Import(x, {run})
    \/ \E x \in TrendFiles \cup {trend} : \E invalid \in {{}} \cup {{run} : run \in x.runs} :
          Refresh(x, invalid)
    \/ Reset

TrendSpec == TrendInit /\ [][TrendNext]_trendVars

-----------------------------------------------------------------------------
\* The newest of the data is kept, so a run that was recorded is listed with
\* its shapes, but where an imported run is newer, or where shapes with pinned
\* runs leave no room for others (pruneTrendData).
RecordedStays ==
    newest # 0 =>
        \/ newest \in trend.runs
        \/ \E r \in trend.runs : r > newest
        \/ \A i \in DOMAIN trend.shapes : Recorded(trend.shapes[i]) \cap trend.pinned # {}

\* What a save recorded is within the history setting, and a run that is listed
\* has shapes to compare, unless it is pinned or the size limit took them.
ListedRunsCompare ==
    newest # 0 =>
        /\ Cardinality(trend.runs \ trend.pinned) <= KeepRuns
        /\ \A r \in trend.runs \ trend.pinned :
              TrendRunSummaries(trend)[r] > 0 \/ trend.runs \ trend.pinned = {r}

\* The data is within the size limit, or is the least that it can be.
SizeBounded(d) ==
    \/ Size(d) <= TrendStoreMaxSize
    \/ /\ Len(d.shapes) <= 1
       /\ \A r \in Older(d) : r \in d.pinned /\ \A i \in DOMAIN d.shapes : r \notin d.shapes[i].values

\* The limits on counts hold, and the snapshots are of the runs that are listed.
CountsBounded(d) ==
    /\ d.pinned \subseteq d.runs /\ Cardinality(d.pinned) <= TrendMaxPinnedRuns
    /\ Cardinality(d.runs) <= TrendMaxPinnedRuns + MaxTrendHistoryRuns
    /\ Len(d.shapes) <= TrendMaxShapeBaselines
    /\ \A i, j \in DOMAIN d.shapes : d.shapes[i].id = d.shapes[j].id => i = j
    /\ \A i \in DOMAIN d.shapes : Recorded(d.shapes[i]) # {}
    /\ Referenced(d.shapes) \subseteq d.runs

\* However runs are recorded, imported, pinned and read, what the store keeps is
\* within every limit, and the limits take the oldest first (pruneTrendData,
\* boundTrendSize, TrendStore.Import).
TrendDataBounded ==
    CountsBounded(trend) /\ SizeBounded(trend) /\ RecordedStays /\ ListedRunsCompare

=============================================================================
