----------------------------- MODULE InsightEvents -----------------------------
(***************************************************************************)
(* What a collector keeps of the operations for the insights               *)
(* (internal/stats: insights.go, impact.go, capture.go,                    *)
(* explain_coverage.go): full-run totals of every shape, a bounded sample  *)
(* of each shape's executable queries, a ring of sampled events, and the   *)
(* report made of them, kept until the next operation.  All of it is       *)
(* guarded by insightsMu, so a call is one step.                           *)
(***************************************************************************)
EXTENDS Integers, Sequences, FiniteSets, Functions

CONSTANTS
    Groups,             \* keys: [id, db]; id stands for operation, collection, shape
    MaxGroups,          \* insights_max_groups
    SamplesPerShape,    \* captureSamplesPerShape
    MaxSampleBytes, MaxRetainedBytes,
    MaxEvents,          \* insights_max_events: the ring
    SamplePeriod, SampleShare,  \* 1000 and the sampling rate in permille
    Durations, QueryBytes,
    MaxOperations       \* bound

ASSUME InsightAssumption ==
    /\ IsFiniteSet(Groups) /\ MaxEvents \in Nat \ {0}
    /\ {MaxGroups, SamplesPerShape, MaxSampleBytes, MaxRetainedBytes, SamplePeriod, SampleShare,
        MaxOperations} \subseteq Nat
    /\ Durations \subseteq Nat /\ QueryBytes \subseteq Nat

NoCapture == [eligible |-> 0, admitted |-> 0, oversized |-> 0, overBudget |-> 0,
              reservoir |-> <<>>, slowest |-> <<>>]
NoAggregate == [count |-> 0, errors |-> 0, sum |-> 0, max |-> 0, capture |-> NoCapture]
NoReport == [none |-> TRUE]

VARIABLES
    tracked,        \* impact.groups: the keys with an aggregate
    aggregate,      \* of each key; NoAggregate when not tracked
    observed,       \* totalOps, totalNs, overflowOps, overflowNs, and the capture's counters
    ring, ringWrite, ringCount, sampledIn,
    cachedReport,   \* finalInsights
    eligibleOps,    \* history: the eligible operations of each key
    sampledOps      \* history: the sampled operations in order

insightVars == <<tracked, aggregate, observed, ring, ringWrite, ringCount, sampledIn,
                 cachedReport, eligibleOps, sampledOps>>

IInit ==
    /\ tracked = {} /\ aggregate = [k \in Groups |-> NoAggregate]
    /\ observed = [ops |-> 0, ns |-> 0, overflowOps |-> 0, overflowNs |-> 0, eligible |-> 0,
                   failed |-> 0, noQuery |-> 0, untracked |-> 0, admitted |-> 0, evicted |-> 0,
                   oversized |-> 0, overBudget |-> 0, retained |-> 0]
    /\ ring = [i \in 0..(MaxEvents - 1) |-> 0] /\ ringWrite = 0 /\ ringCount = 0 /\ sampledIn = 0
    /\ cachedReport = NoReport
    /\ eligibleOps = [k \in Groups |-> {}] /\ sampledOps = <<>>

-----------------------------------------------------------------------------
(***************************************************************************)
(* Samples of a shape                                                      *)
(***************************************************************************)
Bytes(samples) == SumFunction([i \in DOMAIN samples |-> samples[i].bytes])

IsSlowest(sc, ns) == sc.slowest = <<>> \/ ns > sc.slowest[1].ns

\* Where the reservoir may put the next sample: the next free place, or while
\* it is full any place or none.
Slots(sc) ==
    IF Len(sc.reservoir) < SamplesPerShape THEN {Len(sc.reservoir) + 1}
    ELSE 0..(IF sc.eligible < SamplesPerShape THEN sc.eligible ELSE SamplesPerShape)

Replaced(sc, slot) == IF slot \in DOMAIN sc.reservoir THEN <<sc.reservoir[slot]>> ELSE <<>>

Put(reservoir, slot, sample) ==
    CASE slot = 0                   -> reservoir
      [] slot \in DOMAIN reservoir  -> [reservoir EXCEPT ![slot] = sample]
      [] OTHER                      -> Append(reservoir, sample)

\* captureState.observe of an eligible operation, with the counters c: the new
\* samples and counters.  Mutant: the sample that was slowest is not freed.
AdmitWithoutFreeing(sc, c, slot, sample) ==
    LET added == (IF slot = 0 THEN 0 ELSE sample.bytes) + (IF IsSlowest(sc, sample.ns) THEN sample.bytes ELSE 0)
        freed == Bytes(Replaced(sc, slot))
    IN  IF c.retained + added - freed > MaxRetainedBytes THEN [sc |-> sc, c |-> c]
        ELSE [sc |-> [sc EXCEPT !.reservoir = Put(@, slot, sample), !.admitted = @ + 1,
                                !.slowest = IF IsSlowest(sc, sample.ns) THEN <<sample>> ELSE @],
              c |-> [c EXCEPT !.retained = @ + added - freed, !.admitted = @ + 1]]

Admit(sc, c, slot, sample) ==
    LET slowest == IsSlowest(sc, sample.ns)
        added == (IF slot = 0 THEN 0 ELSE sample.bytes) + (IF slowest THEN sample.bytes ELSE 0)
        gone == Replaced(sc, slot) \o (IF slowest THEN sc.slowest ELSE <<>>)
    IN  IF slot = 0 /\ ~slowest THEN [sc |-> sc, c |-> c]
        ELSE IF sample.bytes > MaxSampleBytes
        THEN [sc |-> [sc EXCEPT !.oversized = @ + 1], c |-> [c EXCEPT !.oversized = @ + 1]]
        ELSE IF c.retained + added - Bytes(gone) > MaxRetainedBytes
        THEN [sc |-> [sc EXCEPT !.overBudget = @ + 1], c |-> [c EXCEPT !.overBudget = @ + 1]]
        ELSE [sc |-> [sc EXCEPT !.reservoir = Put(@, slot, sample), !.admitted = @ + 1,
                                !.slowest = IF slowest THEN <<sample>> ELSE @],
              c  |-> [c EXCEPT !.retained = @ + added - Bytes(gone),
                               !.evicted = @ + Len(gone), !.admitted = @ + 1]]

\* retained(): the reservoir, and the slowest when it is not in it.
RetainedOf(sc) ==
    LET kept == Range(sc.reservoir)
    IN  kept \cup {s \in Range(sc.slowest) : \A r \in kept : r.op # s.op}

-----------------------------------------------------------------------------
(***************************************************************************)
(* RecordOperationEvent                                                    *)
(***************************************************************************)
Recorded(agg, ok, ns) ==
    [agg EXCEPT !.count = @ + 1, !.errors = IF ok THEN @ ELSE @ + 1, !.sum = @ + ns,
                !.max = IF ns > @ THEN ns ELSE @]

Fits(k) == k \in tracked \/ Cardinality(tracked) < MaxGroups

ShouldSample(op) == SampleShare >= SamplePeriod \/ op % SamplePeriod < SampleShare

RingAppend(op) ==
    IF ShouldSample(op)
    THEN /\ ring' = [ring EXCEPT ![ringWrite] = op]
         /\ ringWrite' = (ringWrite + 1) % MaxEvents
         /\ ringCount' = IF ringCount < MaxEvents THEN ringCount + 1 ELSE ringCount
         /\ sampledIn' = sampledIn + 1 /\ sampledOps' = Append(sampledOps, op)
    ELSE UNCHANGED <<ring, ringWrite, ringCount, sampledIn, sampledOps>>

\* Operation op of key k: failed or not, with a query of so many bytes or none.
RecordOperationEvent(k, ok, query, ns, slot) ==
    LET op == observed.ops + 1
        fits == Fits(k)
        eligible == ok /\ query > 0 /\ fits
        sc == [aggregate[k].capture EXCEPT !.eligible = IF eligible THEN @ + 1 ELSE @]
        c == [observed EXCEPT !.ops = op, !.ns = @ + ns,
                !.overflowOps = IF fits THEN @ ELSE @ + 1, !.overflowNs = IF fits THEN @ ELSE @ + ns,
                !.failed = IF ok THEN @ ELSE @ + 1,
                !.noQuery = IF ok /\ query = 0 THEN @ + 1 ELSE @,
                !.untracked = IF ok /\ query > 0 /\ ~fits THEN @ + 1 ELSE @,
                !.eligible = IF eligible THEN @ + 1 ELSE @]
        admitted == IF eligible THEN Admit(sc, c, slot, [op |-> op, ns |-> ns, bytes |-> query])
                    ELSE [sc |-> sc, c |-> c]
    IN  /\ op <= MaxOperations
        /\ slot \in (IF eligible THEN Slots(sc) ELSE {0})
        /\ observed' = admitted.c
        /\ tracked' = IF fits THEN tracked \cup {k} ELSE tracked
        /\ aggregate' = IF fits THEN [aggregate EXCEPT ![k] =
                                        [Recorded(@, ok, ns) EXCEPT !.capture = admitted.sc]]
                        ELSE aggregate
        /\ eligibleOps' = IF eligible THEN [eligibleOps EXCEPT ![k] = @ \cup {op}] ELSE eligibleOps
        /\ RingAppend(op)
        /\ cachedReport' = NoReport

-----------------------------------------------------------------------------
(***************************************************************************)
(* The report                                                              *)
(***************************************************************************)
\* Mutant: the events as they lie in the ring.
EventsUnrotated == [i \in 1..ringCount |-> ring[i - 1]]

\* snapshotInsightEventsLocked: the ring from its oldest event.
Events ==
    LET start == (ringWrite + MaxEvents - ringCount) % MaxEvents
    IN  [i \in 1..ringCount |-> ring[(start + i - 1) % MaxEvents]]

\* SnapshotExplainInventory: keys of one shape id are one shape.
ShapeIds == {k.id : k \in tracked}
KeysOf(id) == {k \in tracked : k.id = id}
SamplesOf(id) == UNION {RetainedOf(aggregate[k].capture) : k \in KeysOf(id)}

Dropped(sc) == sc.oversized > 0 \/ sc.overBudget > 0

SampleScope(id) ==
    LET keys == KeysOf(id)
        eligible == SumFunctionOnSet([k \in Groups |-> aggregate[k].capture.eligible], keys)
        places == SumFunctionOnSet([k \in Groups |-> Len(aggregate[k].capture.reservoir)], keys)
    IN  IF SamplesOf(id) = {} THEN "none"
        ELSE IF \E k \in keys : Dropped(aggregate[k].capture) THEN "reservoir_with_drops"
        ELSE IF eligible <= places THEN "all_operations"
        ELSE "uniform_reservoir"

\* captureUnavailableReason of a key without samples.
Unavailable(k) ==
    LET a == aggregate[k] IN
    IF a.capture.eligible = 0
    THEN IF a.errors = a.count THEN "no_successful_operations" ELSE "no_executable_query"
    ELSE IF a.capture.oversized > 0 THEN "command_exceeds_sample_byte_limit"
    ELSE "retained_byte_budget_exhausted"

Inventory ==
    {[id |-> id, scope |-> SampleScope(id), samples |-> SamplesOf(id),
      count |-> SumFunctionOnSet([k \in Groups |-> aggregate[k].count], KeysOf(id)),
      sum |-> SumFunctionOnSet([k \in Groups |-> aggregate[k].sum], KeysOf(id)),
      reasons |-> IF SamplesOf(id) = {} THEN {Unavailable(k) : k \in KeysOf(id)} ELSE {}] :
        id \in ShapeIds}

\* buildInsightsReport, buildImpactView and buildQueryCaptureView of this state.
FreshReport ==
    [none |-> FALSE, events |-> Events, sampledIn |-> sampledIn, observed |-> observed,
     groups |-> {[key |-> k, count |-> aggregate[k].count, sum |-> aggregate[k].sum,
                  retained |-> Cardinality(RetainedOf(aggregate[k].capture))] : k \in tracked}]

GetFinalInsights ==
    /\ cachedReport = NoReport
    /\ cachedReport' = FreshReport
    /\ UNCHANGED <<tracked, aggregate, observed, ring, ringWrite, ringCount, sampledIn,
                   eligibleOps, sampledOps>>

INext ==
    \/ \E k \in Groups, ok \in BOOLEAN, query \in QueryBytes, ns \in Durations,
          slot \in 0..SamplesPerShape : RecordOperationEvent(k, ok, query, ns, slot)
    \/ GetFinalInsights

ISpec == IInit /\ [][INext]_insightVars

-----------------------------------------------------------------------------
ITypeOK ==
    /\ tracked \subseteq Groups /\ Cardinality(tracked) <= MaxGroups
    /\ ringWrite \in 0..(MaxEvents - 1) /\ ringCount \in 0..MaxEvents
    /\ \A k \in Groups : Len(aggregate[k].capture.reservoir) <= SamplesPerShape

\* The retained bytes are those of the samples kept, within the limit.
BytesAccounted ==
    /\ observed.retained =
          SumFunctionOnSet([k \in Groups |-> Bytes(aggregate[k].capture.reservoir)
                                            + Bytes(aggregate[k].capture.slowest)], Groups)
    /\ observed.retained <= MaxRetainedBytes

\* Every operation is counted once: in its group, or as one of no group.
OperationsAccounted ==
    /\ observed.ops = observed.overflowOps + SumFunctionOnSet([k \in Groups |-> aggregate[k].count], tracked)
    /\ observed.ns = observed.overflowNs + SumFunctionOnSet([k \in Groups |-> aggregate[k].sum], tracked)
    /\ observed.ops = observed.eligible + observed.failed + observed.noQuery + observed.untracked

\* A shape is said to be sampled in full only when its samples are all the
\* eligible operations it had, over all its databases (SnapshotExplainInventory).
AllOperationsMeansAll ==
    \A id \in ShapeIds :
        SampleScope(id) = "all_operations" =>
            {s.op : s \in SamplesOf(id)} = UNION {eligibleOps[k] : k \in KeysOf(id)}

\* A report that is kept is the one that would be made now, and its events are
\* the newest sampled ones in order (GetFinalInsights).
ReportIsCurrent ==
    /\ cachedReport # NoReport => cachedReport = FreshReport
    /\ Events = SubSeq(sampledOps, Len(sampledOps) - ringCount + 1, Len(sampledOps))

\* The samples, the counters and the report of the insights account for every
\* operation of the run, whichever groups, samples and bytes were full
\* (RecordOperationEvent, GetFinalInsights).
InsightsAccount ==
    BytesAccounted /\ OperationsAccounted /\ AllOperationsMeansAll /\ ReportIsCurrent
=============================================================================
