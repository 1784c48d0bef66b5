---------------------------- MODULE Efficiency -----------------------------
(* The execution counters of an explain result, of every layout that a      *)
(* server or a router gives one (the totals of a plan, a pipeline with a    *)
(* $cursor, the plans of the shards under a router's, a pipeline per        *)
(* shard), and the ratings of a query shape after the explains: its scan    *)
(* efficiency from the counters of the sample commands, its latency against *)
(* the targets, its sorts and spills, and its $lookup.                      *)
(*                                                                          *)
(* An explain document is its fields that the counters come from; -1 is a   *)
(* field that is not there, or a value that was not measured. execution is  *)
(* the chain of inputStages from the root.                                  *)
(*                                                                          *)
(* A penalty of p in the code is a cost of 100 * p points here. The         *)
(* logarithm is taken at the powers of ten only.                            *)
EXTENDS Integers, Sequences, SequencesExt, FiniteSets, FiniteSetsExt

(* The counters. *)
Nil == [value |-> -1, lower |-> FALSE]
Known(c) == c.value # -1
explainCounter(n) == [value |-> n, lower |-> FALSE]

pipelineReducingStages == {"GROUP"}
writeStages == {"UPDATE", "DELETE", "BATCHED_DELETE", "EXPRESS_UPDATE", "EXPRESS_DELETE"}
WriteOps == {"updateOne", "updateMany", "deleteOne", "deleteMany"}

\* What the access stage gave: below the lowest reducing stage its input. A
\* $lookup in the plan makes it ambiguous.
accessStageCounter(execution, pushed) ==
    LET reducing == {i \in DOMAIN execution : execution[i].stage \in pipelineReducingStages}
        lowest   == CHOOSE i \in reducing : \A j \in reducing : j <= i
    IN  IF execution = <<>> \/ pushed \/ Len(execution) \in reducing THEN Nil
        ELSE explainCounter(execution[IF reducing = {} THEN 1 ELSE lowest + 1].ret)

\* A root whose $lookup is pushed down says so.
Ambiguous(x) == x.execution # <<>> /\ x.pushed

\* What a write matched; the express path gives only what it would modify.
writeMatchedCounter(execution, op) ==
    LET i == SelectInSeq(execution, LAMBDA s : s.stage \in writeStages)
        s == execution[i]
    IN  IF i = 0 THEN Nil
        ELSE IF op \in {"deleteOne", "deleteMany"} THEN explainCounter(s.wouldDelete)
        ELSE IF s.matched = -1 /\ s.wouldModify # -1 THEN [value |-> s.wouldModify, lower |-> TRUE]
        ELSE explainCounter(s.matched)

\* Mutant: a shard that does not report a counter adds nothing.
sumReported(counters, want) ==
    IF ~\E i \in DOMAIN counters : Known(counters[i]) THEN Nil
    ELSE [value |-> FoldSeq(LAMBDA c, n : n + (IF Known(c) THEN c.value ELSE 0), 0, counters),
          lower |-> \E i \in DOMAIN counters : counters[i].lower]

\* One counter over the shards, unknown if a shard does not report it.
sumShardCounters(counters, want) ==
    IF counters = <<>> \/ Len(counters) # want \/ \E i \in DOMAIN counters : ~Known(counters[i])
    THEN Nil
    ELSE [value |-> FoldSeq(LAMBDA c, n : n + c.value, 0, counters),
          lower |-> \E i \in DOMAIN counters : counters[i].lower]

-----------------------------------------------------------------------------
NoLookup == [stages |-> 0, docs |-> Nil, keys |-> Nil]
ExplainMetrics(layout) ==
    [layout |-> layout, shards |-> 0, docs |-> Nil, keys |-> Nil, returned |-> Nil, access |-> Nil,
     matched |-> Nil, unsupported |-> "", notes |-> {}, lookup |-> NoLookup]

\* The totals cover the whole plan.
fillPlanCounters(m, x, op) ==
    LET counted == [m EXCEPT !.docs = explainCounter(x.docs), !.keys = explainCounter(x.keys)]
    IN  IF op \in WriteOps THEN [counted EXCEPT !.matched = writeMatchedCounter(x.execution, op)]
        ELSE IF op = "aggregate"
        THEN [counted EXCEPT !.returned = explainCounter(x.ret),
                             !.access = accessStageCounter(x.execution, x.pushed),
                             !.notes = @ \cup IF Ambiguous(x) THEN {"lookup_pushdown"} ELSE {}]
        ELSE [counted EXCEPT !.returned = explainCounter(x.ret)]

lookupMetrics(lookups) ==
    LET Sum(Of(_)) == sumShardCounters([i \in DOMAIN lookups |-> explainCounter(Of(lookups[i]))],
                                       Len(lookups))
    IN  [stages |-> Len(lookups), docs |-> Sum(LAMBDA l : l.docs), keys |-> Sum(LAMBDA l : l.keys)]

\* An aggregate with "stages": the counters are those of the leading $cursor,
\* the output is that of the last stage.
normalizePipelineStages(x) ==
    LET m == IF x.lookups = <<>> THEN ExplainMetrics("pipeline")
             ELSE [ExplainMetrics("pipeline") EXCEPT !.notes = {"lookup_not_scored"},
                                                     !.lookup = lookupMetrics(x.lookups)]
        counted == IF x.stats THEN fillPlanCounters(m, x, "aggregate") ELSE m
    IN  IF ~x.cursor THEN [ExplainMetrics("unsupported") EXCEPT !.unsupported = "no_cursor"]
        ELSE [counted EXCEPT !.returned = explainCounter(x.last)]

\* The plans of the shards under the router's: its total, or its root stage's,
\* or the sum of the shards; what it returned is after the merge, never a sum.
normalizeShardedPlan(x, op) ==
    LET docs == SelectSeq(x.shards, LAMBDA s : s.doc)
        want == Len(x.shards)
        Sum(Of(_)) == sumShardCounters([i \in DOMAIN docs |-> Of(docs[i])], want)
        RouterOrShards(total, root, Of(_)) ==
            IF total # -1 THEN explainCounter(total)
            ELSE IF root # -1 THEN explainCounter(root)
            ELSE Sum(LAMBDA s : explainCounter(Of(s)))
        Access(s) == accessStageCounter(s.execution, s.pushed)
        m == [ExplainMetrics("sharded_plan") EXCEPT
                 !.shards = want,
                 !.docs = RouterOrShards(x.docs, x.rootDocs, LAMBDA s : s.docs),
                 !.keys = RouterOrShards(x.keys, x.rootKeys, LAMBDA s : s.keys)]
    IN  IF op \in WriteOps
        THEN [m EXCEPT !.matched = Sum(LAMBDA s : writeMatchedCounter(s.execution, op))]
        ELSE IF op = "aggregate"
        THEN [m EXCEPT !.returned = explainCounter(x.ret),
                       !.access = Sum(Access),
                       !.notes = {"lookup_pushdown" : i \in {j \in DOMAIN docs :
                           /\ Len(docs) = want /\ Ambiguous(docs[j])
                           /\ \A k \in 1..j - 1 : Known(Access(docs[k]))}}]
        ELSE [m EXCEPT !.returned = explainCounter(x.ret)]

normalizeNodeExplain(x, op) ==
    IF x.kind = "pipeline" THEN normalizePipelineStages(x)
    ELSE IF ~x.stats THEN ExplainMetrics("planner_only")
    ELSE IF x.kind = "sharded_plan" THEN normalizeShardedPlan(x, op)
    ELSE fillPlanCounters(ExplainMetrics("plan"), x, op)

\* A pipeline per shard: the sums, and the output only of a pipeline that ran
\* on one shard as a whole.
JoinShards(x, subs) ==
    LET Sum(Of(_)) == sumShardCounters([i \in DOMAIN subs |-> Of(subs[i])], Len(subs))
        bad == {i \in DOMAIN x.parts : ~x.parts[i].doc \/ subs[i].layout = "unsupported"}
        Notes(S) == UNION {subs[i].notes : i \in S}
    IN  IF bad # {}
        THEN [ExplainMetrics("unsupported") EXCEPT
                 !.shards = Len(subs), !.unsupported = "shard",
                 !.notes = Notes({i \in DOMAIN subs : \A j \in bad : i < j})]
        ELSE [ExplainMetrics("sharded_pipeline") EXCEPT
                 !.shards = Len(subs), !.notes = Notes(DOMAIN subs),
                 !.docs = Sum(LAMBDA s : s.docs), !.keys = Sum(LAMBDA s : s.keys),
                 !.access = Sum(LAMBDA s : s.access),
                 !.returned = IF Len(subs) = 1 /\ ~x.split THEN subs[1].returned ELSE Nil]

normalizeShardedPipeline(x, op) ==
    JoinShards(x, [i \in DOMAIN x.parts |-> normalizeNodeExplain(x.parts[i], op)])

normalizeExplainMetrics(x, op) ==
    IF x.kind = "sharded_pipeline" THEN normalizeShardedPipeline(x, op)
    ELSE normalizeNodeExplain(x, op)

-----------------------------------------------------------------------------
(* The ratings. *)
efficiencyWorkFloor == 100
efficiencyCollscanCost == 62
efficiencyEfficientMin == 75
efficiencyModerateMin == 50

insertOps == {"insert", "insertOne", "insertMany"}

ratioPenalty(examined, result) ==
    IF examined >= 1000 * result THEN 100
    ELSE IF examined >= 100 * result THEN 67
    ELSE IF examined >= 10 * result THEN 33
    ELSE 0

efficiencyBand(score) ==
    IF score >= efficiencyEfficientMin THEN "efficient"
    ELSE IF score >= efficiencyModerateMin THEN "moderate"
    ELSE "inefficient"
upperBoundBand(bound) == IF bound >= efficiencyEfficientMin THEN "unconfirmed" ELSE efficiencyBand(bound)

\* What the results of an operation are.
efficiencyResultCounter(m, op) ==
    CASE op \in WriteOps    -> m.matched
      [] op = "aggregate" -> m.access
      [] OTHER            -> m.returned

\* The cost of a ratio, -1 without evidence. No result counts as one, and
\* little work costs nothing.
ratioDimension(examined, result, missing) ==
    IF missing \/ ~Known(examined) THEN -1
    ELSE IF examined.value < efficiencyWorkFloor THEN 0
    ELSE ratioPenalty(examined.value, Max({result.value, 1}))

\* Mutant: what was not reported costs nothing, and the score is no bound.
ratioDimensionZero(examined, result, missing) == Max({0, ratioDimension(examined, result, missing)})
RatioCost(examined, result, missing) == ratioDimension(examined, result, missing)

-----------------------------------------------------------------------------
(* One sample: d is the plan, [collscan, unfiltered, stats, sort, disk,     *)
(* metrics].                                                                *)

\* The rating by the costs of its three dimensions, the worst of which counts.
RatingByCosts(costs, worst, s, result) ==
    LET partial == \E i \in 1..3 : costs[i] = -1
        score   == 100 - worst
    IN  [status |-> IF partial THEN "partial" ELSE "rated", role |-> s.role, score |-> score,
         upper |-> partial, band |-> IF partial THEN upperBoundBand(score) ELSE efficiencyBand(score),
         limiting |-> IF worst = 0 THEN "" ELSE
             <<"docs_per_result", "keys_per_result", "collscan">>[SelectInSeq(costs, LAMBDA c : c = worst)],
         approximate |-> result.lower, sharded |-> s.d.metrics.shards > 0]

scoreEfficiencySample(s, op) ==
    LET m       == s.d.metrics
        result  == efficiencyResultCounter(m, op)
        missing == ~s.d.stats \/ m.unsupported # "" \/ ~Known(result)
        ByCosts(costs) == RatingByCosts(costs, Max({costs[i] : i \in 1..3}), s, result)
    IN  IF s.status # "explained"
        THEN [status |-> "unassessed", role |-> s.role, score |-> -1]
        ELSE ByCosts(<< RatioCost(m.docs, result, missing), RatioCost(m.keys, result, missing),
                        IF s.d.collscan /\ ~s.d.unfiltered THEN efficiencyCollscanCost ELSE 0 >>)

Unrated(status) ==
    [status |-> status, score |-> -1, upper |-> FALSE, band |-> "", confidence |-> "", limiting |-> "",
     role |-> ""]

\* The worst sample decides, at equal scores one that is a bound; one bound
\* makes the score of the shape one.
RatingByWorst(scored, lowest) ==
    LET worst   == SelectSeq(scored, LAMBDA e : e.score = lowest)
        bound   == SelectInSeq(worst, LAMBDA e : e.upper)
        det     == worst[Max({1, bound})]
        partial == \E i \in DOMAIN scored : scored[i].upper
        doubt   == \/ Len(scored) < 2 \/ \E i, j \in DOMAIN scored : scored[i].band # scored[j].band
                   \/ \E i \in DOMAIN scored : scored[i].approximate \/ scored[i].sharded
    IN  [status |-> IF partial THEN "partial" ELSE "rated", score |-> lowest, upper |-> partial,
         band |-> IF partial THEN upperBoundBand(lowest) ELSE efficiencyBand(lowest),
         confidence |-> IF partial THEN "low" ELSE IF doubt THEN "medium" ELSE "high",
         limiting |-> det.limiting, role |-> det.role]

BuildQueryEfficiency(cs) ==
    LET all == [i \in DOMAIN cs.samples |-> scoreEfficiencySample(cs.samples[i], cs.op)]
        OfScored(scored) ==
            IF scored = <<>> THEN Unrated("unassessed")
            ELSE RatingByWorst(scored, Min({scored[i].score : i \in DOMAIN scored}))
    IN  IF cs.op \in insertOps THEN Unrated("not_applicable")
        ELSE IF cs.status # "explained" THEN Unrated("unassessed")
        ELSE OfScored(SelectSeq(all, LAMBDA e : e.score # -1))

\* How the table says why a shape has no score.
RowCoverage(cs) ==
    LET e == BuildQueryEfficiency(cs)
    IN  IF e.status = "rated" THEN "assessed"
        ELSE IF e.status # "unassessed" THEN e.status
        ELSE CASE cs.status = "excluded" -> "budget_excluded"
               [] cs.status \in {"failed", "cancelled", "not_supported"} -> cs.status
               [] OTHER -> "unavailable"

\* The order of the table: scores first, the lowest of them, a measured score
\* before a bound, then the rank of the impact (0 is none), then the id.
RowBefore(a, b) ==
    LET Group(r)  == IF r.score # -1 THEN 0 ELSE IF r.status = "not_applicable" THEN 2 ELSE 1
        Rank(r)   == IF r.rank = 0 THEN 1000 ELSE r.rank
        Impact    == Rank(a) < Rank(b) \/ (Rank(a) = Rank(b) /\ a.id < b.id)
    IN  IF Group(a) # Group(b) THEN Group(a) < Group(b)
        ELSE IF a.score # b.score THEN a.score < b.score
        ELSE IF a.score # -1 /\ a.upper # b.upper THEN b.upper
        ELSE Impact

-----------------------------------------------------------------------------
(* The other ratings.                                                       *)

\* Targets and measures are [avg, p95, p99]; a target of 0 is none.
rateLatency(measured, target) ==
    LET asked == {k \in {"avg", "p95", "p99"} : target[k] > 0}
    IN  IF asked = {} THEN "not_assessed"
        ELSE IF \E k \in asked : measured[k] > target[k] THEN "above_target"
        ELSE IF \E k \in asked : measured[k] = -1 THEN "not_assessed"
        ELSE "within_target"

\* A spill is only reported with execution statistics.
classifyExecutionOverhead(op, samples) ==
    LET explained == {i \in DOMAIN samples : samples[i].status = "explained"}
    IN  IF op \in insertOps THEN "not_applicable"
        ELSE IF explained = {} THEN "not_assessed"
        ELSE IF \E i \in explained : samples[i].d.disk THEN "spilled_to_disk"
        ELSE IF \E i \in explained : samples[i].d.sort THEN "in_memory_sort"
        ELSE IF \E i \in explained : ~samples[i].d.stats THEN "not_assessed"
        ELSE "none_observed"

\* The largest sums of the samples that report one.
lookupMeasurement(op, samples) ==
    LET explained == {i \in DOMAIN samples : samples[i].status = "explained"}
        lookups   == {samples[i].d.metrics.lookup : i \in explained}
        Largest(Of(_)) == Max({-1} \cup {Of(l).value : l \in lookups})
        notes     == UNION {samples[i].d.metrics.notes : i \in explained}
        unreported == \E l \in lookups : l.stages > 0 /\ ~Known(l.docs) /\ ~Known(l.keys)
        most == [docs |-> Largest(LAMBDA l : l.docs), keys |-> Largest(LAMBDA l : l.keys)]
        Measurement(status) == [status |-> status] @@ most
        unscored == \E i \in explained : /\ "lookup_not_scored" \in samples[i].d.metrics.notes
                                         /\ samples[i].d.metrics.lookup = NoLookup
    IN  IF op # "aggregate" THEN Measurement("not_applicable")
        ELSE IF explained = {} THEN Measurement("not_assessed")
        ELSE IF most.docs # -1 \/ most.keys # -1 THEN Measurement("measured")
        ELSE IF "lookup_pushdown" \in notes \/ unreported \/ unscored THEN Measurement("not_measured")
        ELSE Measurement("not_applicable")
=============================================================================
