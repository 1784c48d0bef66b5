------------------------------ MODULE TrendData ------------------------------
(***************************************************************************)
(* The data of the trend store as pure operators: what a record, a delete, *)
(* an import and a read of the file make of it, and the limits they apply  *)
(* (internal/stats/trends.go, trend_store.go, trend_share.go).             *)
(*                                                                         *)
(* A run is known by its id, and a greater id was recorded later.  A       *)
(* history is the set of the runs with a snapshot in it: sorted newest     *)
(* first, with one snapshot for each run, it is this set.                  *)
(***************************************************************************)
EXTENDS Naturals, Sequences, FiniteSets, FiniteSetsExt

CONSTANTS
    TrendMaxPinnedRuns,       \* 10
    TrendMaxRuns,             \* 64: the limit of an import
    TrendMaxShapeBaselines,   \* 500
    MaxTrendHistoryRuns,      \* 50: the limit of a read
    TrendStoreMaxSize         \* trendStoreMaxBytes, in entries

\* runs: the ids, pinned: those pinned.
EmptyTrendData == [runs |-> {}, pinned |-> {}, shapes |-> <<>>]

Recorded(s) == s.eff \cup s.wl

Referenced(shapes) == UNION {Recorded(shapes[i]) : i \in DOMAIN shapes}

\* The runs with a snapshot or with values.
Mentioned(shapes) == UNION {Recorded(shapes[i]) \cup shapes[i].values : i \in DOMAIN shapes}

\* The indexes I of a sequence, listed in the order R.
Ranked(I, R) ==
    [k \in 1..Cardinality(I) |->
        CHOOSE i \in I : Cardinality({j \in I : <<j, i>> \in R}) = k - 1]

Listing(shapes, I, R) == [k \in 1..Cardinality(I) |-> shapes[Ranked(I, R)[k]]]

Ascending(I) == {p \in I \X I : p[1] < p[2]}

\* filterHistory on the three histories of a shape.
Filter(s, keep) == [s EXCEPT !.eff = @ \cap keep, !.wl = @ \cap keep, !.values = @ \cap keep]

FilterEach(shapes, keep) == [i \in DOMAIN shapes |-> Filter(shapes[i], keep)]

WithHistory(shapes) == {i \in DOMAIN shapes : Recorded(shapes[i]) # {}}

FilterAll(shapes, keep) ==
    LET each == FilterEach(shapes, keep)
    IN  Listing(each, WithHistory(each), Ascending(WithHistory(each)))

RemoveTrendRun(d, id) ==
    [runs |-> d.runs \ {id}, pinned |-> d.pinned \ {id},
     shapes |-> FilterAll(d.shapes, Mentioned(d.shapes) \ {id})]

-----------------------------------------------------------------------------
(* Pruning. *)

NewestOf(S, n) == {r \in S : Cardinality({q \in S : q > r}) < n}

\* Mutant: the newest runs count, with the pinned ones among them.
PruneTrendDataTogether(d, keepRuns) ==
    LET kept == NewestOf(d.runs, keepRuns)
    IN  [runs |-> kept, pinned |-> d.pinned \cap kept, shapes |-> FilterAll(d.shapes, kept)]

\* Pinned shapes first, then the last recorded ones, then by id.
Precedes(s, t, pinned) ==
    LET Pins(x) == Recorded(x) \cap pinned # {}
    IN  \/ Pins(s) /\ ~Pins(t)
        \/ /\ Pins(s) <=> Pins(t)
           /\ \/ Max(Recorded(s)) > Max(Recorded(t))
              \/ Max(Recorded(s)) = Max(Recorded(t)) /\ s.id < t.id

\* The first of the shapes of each id that have a history.
FirstOfId(shapes) ==
    {i \in WithHistory(shapes) : \A j \in WithHistory(shapes) : shapes[j].id = shapes[i].id => i <= j}

ShapesOrder(shapes, I, pinned) ==
    {p \in I \X I : Precedes(shapes[p[1]], shapes[p[2]], pinned)}

PrunedShapes(shapes, kept, pinned) ==
    LET each  == FilterEach(shapes, kept)
        order == Listing(each, FirstOfId(each), ShapesOrder(each, FirstOfId(each), pinned))
    IN  SubSeq(order, 1, Min({Len(order), TrendMaxShapeBaselines}))

PruneTrendData(d, keepRuns) ==
    LET pinned   == NewestOf(d.pinned, TrendMaxPinnedRuns)
        unpinned == NewestOf((d.runs \ pinned) \cap Referenced(d.shapes), keepRuns)
        shapes   == PrunedShapes(d.shapes, pinned \cup unpinned, pinned)
    IN  [runs |-> pinned \cup (unpinned \cap Referenced(shapes)),
         pinned |-> pinned, shapes |-> shapes]

\* sanitizeTrendData: what a read keeps of a file, without the invalid runs.
SanitizeTrendData(d, invalid) ==
    PruneTrendData([runs |-> d.runs \ invalid, pinned |-> d.pinned \ invalid,
                    shapes |-> FilterAll(d.shapes, Mentioned(d.shapes) \ invalid)],
                   MaxTrendHistoryRuns)

-----------------------------------------------------------------------------
(* Recording a run.  A snapshot of it is [id, ns, eff, wl, values]; there  *)
(* is one for each shape.                                                  *)

IndexOf(shapes, id) == CHOOSE i \in DOMAIN shapes : shapes[i].id = id

Has(shapes, id) == \E i \in DOMAIN shapes : shapes[i].id = id

\* The entries of more whose shape is new.
NewIn(shapes, more) == {i \in DOMAIN more : ~Has(shapes, more[i].id)}

NewOf(shapes, more) == Listing(more, NewIn(shapes, more), Ascending(NewIn(shapes, more)))

NewShape(c) == [id |-> c.id, ns |-> c.ns, eff |-> {}, wl |-> {}, values |-> {}]

\* The shape that a snapshot of run r adds to; another namespace starts anew.
Add(s, c, r) ==
    LET base == IF s.ns = c.ns THEN s ELSE NewShape(c)
        Put(b) == IF b THEN {r} ELSE {}
    IN  [base EXCEPT !.eff = @ \cup Put(c.eff), !.wl = @ \cup Put(c.wl),
                     !.values = @ \cup Put(c.values /\ (c.eff \/ c.wl))]

MergeSnapshots(shapes, r, cur) ==
    [i \in DOMAIN shapes |->
        IF Has(cur, shapes[i].id) THEN Add(shapes[i], cur[IndexOf(cur, shapes[i].id)], r) ELSE shapes[i]]
    \o NewOf(shapes, [k \in DOMAIN cur |-> Add(NewShape(cur[k]), cur[k], r)])

MergeTrendBaselines(d, r, cur, keepRuns) ==
    LET old == RemoveTrendRun(d, r)
    IN  PruneTrendData([runs |-> old.runs \cup {r}, pinned |-> old.pinned,
                        shapes |-> MergeSnapshots(old.shapes, r, cur)],
                       keepRuns)

-----------------------------------------------------------------------------
(* The size limit. *)

\* A run, a snapshot, and the values of a snapshot weigh one entry each.
EntriesOf(s) == ({"eff"} \X s.eff) \cup ({"wl"} \X s.wl) \cup ({"values"} \X s.values)

Entries(shapes) == UNION {{i} \X EntriesOf(shapes[i]) : i \in DOMAIN shapes}

Size(d) == Cardinality(d.runs) + Cardinality(Entries(d.shapes))

StripValues(s, runs) == [s EXCEPT !.values = @ \ runs]

StripTrendRunValues(d, runs) ==
    [d EXCEPT !.shapes = [i \in DOMAIN @ |-> StripValues(@[i], runs)]]

OldestOf(S, n) == {r \in S : Cardinality({q \in S : q < r}) < n}

\* The smallest number of the oldest of S for which Drop leaves enough room.
Needed(S, Drop(_)) ==
    LET fits == {n \in 0..Cardinality(S) : Size(Drop(OldestOf(S, n))) <= TrendStoreMaxSize}
    IN  OldestOf(S, IF fits = {} THEN Cardinality(S) ELSE Min(fits))

\* removeTrendRun for each of S.
RemoveTrendRuns(d, S) ==
    [runs |-> d.runs \ S, pinned |-> d.pinned \ S,
     shapes |-> FilterAll(d.shapes, Mentioned(d.shapes) \ S)]

Older(d) == {r \in d.runs : \E q \in d.runs : q > r}

\* The values of the oldest runs go first, ...
StripToSize(d) ==
    LET Strip(S) == StripTrendRunValues(d, S)
        withVals == (UNION {d.shapes[i].values : i \in DOMAIN d.shapes}) \cap Older(d)
    IN  Strip(Needed(withVals, Strip))

\* ... then the oldest unpinned runs, ...
DropToSize(d) ==
    LET Drop(S) == RemoveTrendRuns(d, S)
    IN  Drop(Needed(Older(d) \ d.pinned, Drop))

\* ... then the last shapes, a tenth at a time.
CutShapes(d, n) == [d EXCEPT !.shapes = SubSeq(@, 1, n)]

CutToSize(d) ==
    LET Length[n \in 0..Len(d.shapes)] ==
            IF n <= 1 \/ Size(CutShapes(d, n)) <= TrendStoreMaxSize THEN n ELSE Length[(n * 9) \div 10]
    IN  CutShapes(d, Length[Len(d.shapes)])

\* Mutant: when no more runs can go, the shapes stay.
BoundTrendSizeByRuns(d) == DropToSize(StripToSize(d))

BoundTrendSize(d) == CutToSize(DropToSize(StripToSize(d)))

-----------------------------------------------------------------------------
(* Sharing. *)

\* BuildTrendExport: the runs asked for, or all.
BuildTrendExport(d, ids) ==
    LET keep == IF ids = {} THEN d.runs ELSE d.runs \cap ids
    IN  [runs |-> keep, pinned |-> d.pinned \cap keep,
         shapes |-> FilterAll(d.shapes, IF ids = {} THEN Mentioned(d.shapes) ELSE ids)]

\* ParseTrendImport rejects a file, or gives what sanitizing leaves of it.
ImportRejected(x, invalid) ==
    \/ Size(x) > TrendStoreMaxSize
    \/ Cardinality(x.runs) > TrendMaxRuns
    \/ Len(x.shapes) > TrendMaxShapeBaselines
    \/ \E i \in DOMAIN x.shapes :
          \E h \in {"eff", "wl", "values"} : Cardinality(x.shapes[i][h]) > TrendMaxRuns
    \/ SanitizeTrendData(x, invalid).runs = {}

\* A stored shape with the histories that an import brings; the same shape of
\* another namespace is skipped.
Extend(s, t) ==
    IF s.ns # t.ns THEN s
    ELSE [s EXCEPT !.eff = @ \cup t.eff, !.wl = @ \cup t.wl, !.values = @ \cup t.values]

ImportShapes(shapes, imported) ==
    [i \in DOMAIN shapes |->
        IF Has(imported, shapes[i].id) THEN Extend(shapes[i], imported[IndexOf(imported, shapes[i].id)])
        ELSE shapes[i]]
    \o NewOf(shapes, imported)

\* Import: stored runs are skipped, and pins stop at the limit.
ImportTrends(d, x, keepRuns) ==
    LET added == x.runs \ d.runs
        pins  == NewestOf(x.pinned \cap added,
                          IF Cardinality(d.pinned) >= TrendMaxPinnedRuns THEN 0
                          ELSE TrendMaxPinnedRuns - Cardinality(d.pinned))
    IN  PruneTrendData([runs |-> d.runs \cup added, pinned |-> d.pinned \cup pins,
                        shapes |-> ImportShapes(d.shapes, FilterAll(x.shapes, added))],
                       keepRuns)

\* trendRunSummaries: for each run the number of its shapes.
TrendRunSummaries(d) ==
    [r \in d.runs |-> Cardinality({i \in DOMAIN d.shapes : r \in Recorded(d.shapes[i])})]

=============================================================================
