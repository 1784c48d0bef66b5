---------------------------- MODULE TrendCompare ----------------------------
(***************************************************************************)
(* How the trend view compares a shape of this run with stored snapshots:  *)
(* the choice of the baseline, the compatibility gates, and the three      *)
(* verdicts (internal/stats/trends.go).  Latencies are tenths of a         *)
(* millisecond, shares are per mille, times are days, -1 is an absent      *)
(* value.  A text is kept where the code branches on it.                   *)
(***************************************************************************)
EXTENDS Integers, Sequences, FiniteSets, SequencesExt, FiniteSetsExt

TrendMinEfficiencyCommands == 2
TrendMaterialScoreDelta    == 15
TrendMinOperations         == 30
MinImpactPercentileSamples == 20
LatencyMaterialAbs         == 10      \* 1 ms
LatencyMaterialRelative    == 2000    \* 20 %, of 10000
ImpactMaterialShareAbs     == 50      \* 5 points
ImpactMaterialRelative     == 2500
WorkloadCountRelative      == 2500

AbsOf(n) == IF n < 0 THEN -n ELSE n

\* roundTo(a / b, 4), in ten thousandths, for b > 0.
Relative(a, b) ==
    LET half == (2 * 10000 * AbsOf(a) + b) \div (2 * b) IN IF a < 0 THEN -half ELSE half

-----------------------------------------------------------------------------
(* The gates.  ctx is what newTrendCompareCtx keeps of the run: [run, si,  *)
(* sv, now, maxAge, pinned, runs].                                         *)

\* gateSnapshot: "" when the snapshot is compatible, otherwise the reason.
GateSnapshot(s, ctx) ==
    CASE s.at = -1                               -> "baseline_timestamp_invalid"
      [] s.at # -1 /\ s.si # ctx.si              -> "shape_identity_version_changed"
      [] s.at > ctx.now /\ s.si = ctx.si         -> "baseline_recorded_in_future"
      [] /\ s.at \in 0..ctx.now /\ s.si = ctx.si
         /\ s.run \notin ctx.pinned /\ ctx.maxAge > 0
         /\ ctx.now - s.at > ctx.maxAge          -> "baseline_outdated"
      [] OTHER                                   -> ""

EfficiencyGate(e, ctx) ==
    IF GateSnapshot(e, ctx) = "" /\ e.sv # ctx.sv THEN "score_version_changed"
    ELSE GateSnapshot(e, ctx)

WorkloadGate(w, ctx) == GateSnapshot(w, ctx)

-----------------------------------------------------------------------------
(* The baseline. *)

\* resolveTrendSelection; runs: newest first.  0 stands for no run.
ResolveTrendSelection(mode, wanted, runs, pinned, current) ==
    LET others == SelectSeq(runs, LAMBDA r : r # current)
        pins   == SelectSeq(others, LAMBDA r : r \in pinned)
    IN  CASE mode = "run"                    -> [mode |-> "run", run |-> wanted]
          [] mode = "pinned" /\ pins # <<>>  -> [mode |-> "pinned", run |-> pins[1]]
          [] OTHER                           -> [mode |-> "previous", run |-> 0]

\* The first of a history that Test accepts, or an empty sequence.
FirstOf(h, Test(_)) ==
    LET ok == SelectSeq(h, Test) IN IF ok = <<>> THEN <<>> ELSE <<ok[1]>>

SelectRunBaseline(s, id) ==
    [eff |-> FirstOf(s.eff, LAMBDA e : e.run = id), wl |-> FirstOf(s.wl, LAMBDA w : w.run = id)]

Rank(coverage) == CASE coverage = "assessed" -> 2 [] coverage = "partial" -> 1 [] OTHER -> 0

\* Mutant: better coverage counts before the gate.
SelectPreviousBaselineUngated(s, ctx) ==
    LET eff  == SelectSeq(s.eff, LAMBDA e : e.run # ctx.run)
        best == Max({-1} \cup {Rank(eff[i].coverage) : i \in DOMAIN eff})
        wl   == SelectSeq(s.wl, LAMBDA w : w.run # ctx.run)
    IN  [eff |-> FirstOf(eff, LAMBDA e : Rank(e.coverage) = best), wl |-> FirstOf(wl, LAMBDA w : TRUE)]

\* For each metric the newest compatible snapshot, efficiency by coverage
\* first; the newest one when none is compatible.
SelectPreviousBaseline(s, ctx) ==
    LET eff  == SelectSeq(s.eff, LAMBDA e : e.run # ctx.run)
        wl   == SelectSeq(s.wl, LAMBDA w : w.run # ctx.run)
        good == SelectSeq(eff, LAMBDA e : EfficiencyGate(e, ctx) = "")
        best == Max({-1} \cup {Rank(good[i].coverage) : i \in DOMAIN good})
        fit  == FirstOf(wl, LAMBDA w : WorkloadGate(w, ctx) = "")
    IN  [eff |-> IF good = <<>> THEN FirstOf(eff, LAMBDA e : TRUE)
                 ELSE FirstOf(good, LAMBDA e : Rank(e.coverage) = best),
         wl  |-> IF fit = <<>> THEN FirstOf(wl, LAMBDA w : TRUE) ELSE fit]

HasOtherRun(s, current) ==
    \E h \in {s.eff, s.wl} : \E i \in DOMAIN h : h[i].run # current

-----------------------------------------------------------------------------
(* The verdicts. *)

\* side(...) of compareTrendEfficiency: the evidence of one run is enough.
Assessed(e) ==
    /\ e.score # -1 /\ ~e.upper /\ e.coverage # "partial"
    /\ e.cmds >= TrendMinEfficiencyCommands /\ e.confidence = "high"

CompareTrendEfficiency(be, ce) ==
    IF ce = <<>> THEN "insufficient_evidence"
    ELSE LET b == be[1]
             c == ce[1]
             delta == c.score - b.score
         IN  CASE "not_applicable" \in {b.status, c.status}      -> "not_comparable"
               [] /\ "not_applicable" \notin {b.status, c.status}
                  /\ ~(Assessed(b) /\ Assessed(c))               -> "insufficient_evidence"
               [] OTHER -> IF delta >= TrendMaterialScoreDelta THEN "improved"
                           ELSE IF -delta >= TrendMaterialScoreDelta THEN "regressed"
                           ELSE "no_material_change"

MaterialLatency(from, to) ==
    /\ AbsOf(to - from) >= LatencyMaterialAbs
    /\ AbsOf(Relative(to - from, from)) >= LatencyMaterialRelative

\* The p95 is not rounded, and a change from zero is not relative.
P95Material(b, c) ==
    /\ b.p95 # -1 /\ c.p95 # -1
    /\ b.samples >= MinImpactPercentileSamples /\ c.samples >= MinImpactPercentileSamples
    /\ AbsOf(c.p95 - b.p95) >= LatencyMaterialAbs
    /\ b.p95 > 0 /\ 10000 * AbsOf(c.p95 - b.p95) >= LatencyMaterialRelative * b.p95

\* Mutant: the change is taken relative to the greater average.
CompareTrendLatencyByGreater(b, c) ==
    CASE b.ops < TrendMinOperations \/ c.ops < TrendMinOperations \/ b.avg <= 0
           -> "insufficient_evidence"
      [] OTHER -> IF ~MaterialLatency(Max({b.avg, c.avg}), Min({b.avg, c.avg}))
                  THEN "no_material_change"
                  ELSE IF c.avg > b.avg THEN "improved" ELSE "regressed"

CompareTrendLatency(b, c) ==
    CASE b.ops < TrendMinOperations \/ c.ops < TrendMinOperations \/ b.avg <= 0
           -> "insufficient_evidence"
      [] OTHER ->
           IF ~MaterialLatency(b.avg, c.avg) THEN "no_material_change"
           ELSE IF P95Material(b, c) /\ (c.avg > b.avg) # (c.p95 > b.p95)
                THEN "insufficient_evidence"
           ELSE IF c.avg > b.avg THEN "regressed" ELSE "improved"

CompareTrendImpact(b, c) ==
    LET delta == c.share - b.share
        material == /\ AbsOf(delta) >= ImpactMaterialShareAbs
                    /\ b.share > 0 => AbsOf(Relative(delta, b.share)) >= ImpactMaterialRelative
    IN  IF ~b.complete \/ ~c.complete \/ b.ops < TrendMinOperations \/ c.ops < TrendMinOperations
           \/ b.share = -1 \/ c.share = -1
        THEN "insufficient_evidence"
        ELSE IF ~material THEN "no_material_change"
        ELSE IF delta > 0 THEN "increased" ELSE "decreased"

-----------------------------------------------------------------------------
(* The row of a shape: the snapshots of this run against base.             *)

Missing == [comparability |-> "missing", efficiency |-> "no_baseline",
            latency |-> "no_baseline", impact |-> "no_baseline"]

Incompatible == [comparability |-> "incompatible", efficiency |-> "not_comparable",
                 latency |-> "not_comparable", impact |-> "not_comparable"]

CompareTrendMetrics(cur, base, ctx) ==
    LET eg == IF base.eff = <<>> THEN <<>> ELSE <<EfficiencyGate(base.eff[1], ctx)>>
        wg == IF base.wl = <<>> THEN <<>> ELSE <<WorkloadGate(base.wl[1], ctx)>>
        gates == eg \o wg
        OnWorkload(Compare(_, _)) ==
            IF wg = <<>> THEN "no_baseline"
            ELSE IF wg[1] # "" THEN "not_comparable"
            ELSE IF cur.wl = <<>> THEN "insufficient_evidence"
            ELSE Compare(base.wl[1], cur.wl[1])
    IN  IF gates = <<>> THEN Missing
        ELSE IF base.ns # cur.ns THEN Incompatible
        ELSE [comparability |->
                IF \E i \in DOMAIN gates : gates[i] = "shape_identity_version_changed"
                THEN "incompatible"
                ELSE IF \A i \in DOMAIN gates : gates[i] = "baseline_outdated" THEN "outdated"
                ELSE IF Len(gates) < 2 \/ \E i \in DOMAIN gates : gates[i] # "" THEN "partial"
                ELSE "comparable",
              efficiency |->
                IF eg = <<>> THEN "no_baseline"
                ELSE IF eg[1] # "" THEN "not_comparable"
                ELSE CompareTrendEfficiency(base.eff, cur.eff),
              latency |-> OnWorkload(CompareTrendLatency),
              impact  |-> OnWorkload(CompareTrendImpact)]

\* trendInterventions and trendWorkloadChanges: what else changed.  A run
\* context is [versions, topology, source, sampling, workload, replay, traffic].
TrendInterventions(be, ce, ref, run) ==
    {k \in {"plan_changed", "indexes_used_changed", "index_inventory_changed",
            "run_context_unavailable", "server_version_changed", "topology_changed",
            "sampling_settings_changed"} :
        LET both == be # <<>> /\ ce # <<>>
            explained == both /\ be[1].plans # {} /\ ce[1].plans # {}
            servers == ref # <<>> /\ ref[1].source # "none" /\ run.source # "none"
        IN  CASE k = "plan_changed" -> explained /\ be[1].plans # ce[1].plans
              [] k = "indexes_used_changed" -> explained /\ be[1].indexes # ce[1].indexes
              [] k = "index_inventory_changed" ->
                   /\ both /\ be[1].fetched /\ ce[1].fetched
                   /\ be[1].nsIndexes # ce[1].nsIndexes
              [] k = "run_context_unavailable" -> ref = <<>>
              [] k = "server_version_changed" -> servers /\ ref[1].versions # run.versions
              [] k = "topology_changed" -> servers /\ ref[1].topology # run.topology
              [] OTHER -> ref # <<>> /\ ref[1].sampling # run.sampling}

TrendWorkloadChanges(bw, cw, ref, run) ==
    {k \in {"operation_count_changed", "workload_config_changed", "same_recorded_workload",
            "same_generated_traffic"} :
        CASE k = "operation_count_changed" ->
               /\ bw # <<>> /\ cw # <<>> /\ bw[1].ops > 0
               /\ 10000 * AbsOf(cw[1].ops - bw[1].ops) >= WorkloadCountRelative * bw[1].ops
          [] k = "workload_config_changed" -> ref # <<>> /\ ref[1].workload # run.workload
          [] k = "same_recorded_workload" ->
               ref # <<>> /\ run.replay # "" /\ ref[1].replay = run.replay
          [] OTHER -> ref # <<>> /\ run.traffic # "" /\ ref[1].traffic = run.traffic}

\* BuildTrendView, for the shapes of this run (a function from ids to their
\* snapshots) and the stored ones.
BuildTrendView(cur, base, selection, ctx) ==
    LET known == {id \in DOMAIN base : HasOtherRun(base[id], ctx.run)}
        Baseline(id) ==
            IF id \notin known THEN [ns |-> cur[id].ns, eff |-> <<>>, wl |-> <<>>]
            ELSE LET sel == IF selection.mode = "previous"
                            THEN SelectPreviousBaseline(base[id], ctx)
                            ELSE SelectRunBaseline(base[id], selection.run)
                 IN  [ns |-> base[id].ns, eff |-> sel.eff, wl |-> sel.wl]
    IN  [status |-> IF known = {} THEN "no_baseline" ELSE "ready",
         rows   |-> [id \in DOMAIN cur |-> CompareTrendMetrics(cur[id], Baseline(id), ctx)],
         unseen |-> Cardinality(known \ DOMAIN cur)]

=============================================================================
