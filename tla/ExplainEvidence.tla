-------------------------- MODULE ExplainEvidence --------------------------
(* What the report says after the explain commands: the features of a plan, *)
(* the diagnosis of a sample, the finding of a shape, its place in the      *)
(* coverage, and what becomes of the index issues that were guessed before. *)
(*                                                                          *)
(* A plan is a document: [key, value] pairs where a value is a scalar or a  *)
(* document. The features are those the diagnosis tells apart.              *)
EXTENDS Integers, Sequences, FiniteSets, SequencesExt

CONSTANTS
    SelectiveMinDocs,   \* selectiveScanMinDocs
    SelectiveRatio      \* selectiveScanRatio

Greater(a, b) == IF a > b THEN a ELSE b
Least(S) == CHOOSE x \in S : \A y \in S : x <= y

-----------------------------------------------------------------------------
(* parseExplainSignals: a node of the plan is a record [path, stage], path  *)
(* the keys from the top to it. Nodes under a rejected plan, the statistics *)
(* of all plans or the command itself are skipped, and a $-key counts as a  *)
(* stage only as a member of an aggregate's "stages".                       *)

SkippedKeys == {"rejectedPlans", "allPlansExecution", "command", "parsedQuery", "originalCommand"}
Visited(node) == ToSet(node.path) \cap SkippedKeys = {}
\* A plausible mistake: only what is directly below a skipped key is left out.
VisitedBelow(node) == node.path = <<>> \/ Last(node.path) \notin SkippedKeys
VisitedNodes(node) == Visited(node)
\* What is not under a skipped key.
Shown(plan) == {plan[i] : i \in {j \in DOMAIN plan : Visited(plan[j])}}

parseExplainSignals(plan) ==
    LET nodes == {i \in DOMAIN plan : VisitedNodes(plan[i])}
        stages == {plan[i].stage : i \in {j \in nodes : plan[j].kind = "stage"
                                            \/ (plan[j].kind = "dollar" /\ plan[j].path # <<>> /\ Last(plan[j].path) = "stages")}}
    IN  [collscan |-> "COLLSCAN" \in stages,
         ixscan |-> stages \cap {"IXSCAN", "IDHACK"} # {},
         group |-> "GROUP" \in stages,
         sort |-> \E i \in nodes : plan[i].kind = "stage" /\ plan[i].stage = "SORT",
         spills |-> "SPILL" \in stages]

-----------------------------------------------------------------------------
(* One sample. *)

Features ==
    [collscan : BOOLEAN, ixscan : BOOLEAN, group : BOOLEAN, sort : BOOLEAN, spills : BOOLEAN,
     stats : BOOLEAN, unfiltered : BOOLEAN, docs : Nat, keys : Nat, results : Nat]

ExplainSample == [status : STRING, role : STRING, d : Features, client : Nat, server : Nat]

\* Most specific first; it breaks ties between samples.
diagnosisOrder ==
    << "collscan_selective_filter", "index_low_selectivity", "spill_to_disk", "blocking_sort",
       "collscan_unfiltered_expected", "collscan_low_selectivity", "index_backed_pipeline_cost",
       "collscan_unquantified", "index_supported_efficient", "index_supported_plan_only",
       "plan_signal_unclear" >>
diagnosisRank(diag) == CHOOSE i \in DOMAIN diagnosisOrder : diagnosisOrder[i] = diag

\* What the i-th diagnosis needs; the first in the order that applies is given.
Applies(i, d) ==
    LET Selective(n) == n >= SelectiveMinDocs /\ n >= Greater(d.results, 1) * SelectiveRatio
    IN  \/ i = 1 /\ d.collscan /\ d.stats /\ ~d.unfiltered /\ Selective(d.docs)
        \/ i = 2 /\ d.ixscan /\ ~d.collscan /\ d.stats /\ Selective(Greater(d.keys, d.docs))
        \/ i = 3 /\ d.spills
        \/ i = 4 /\ d.sort
        \/ i = 5 /\ d.collscan /\ d.unfiltered
        \/ i = 6 /\ d.collscan /\ d.stats
        \/ i = 7 /\ d.ixscan /\ d.group
        \/ i = 8 /\ d.collscan
        \/ i = 9 /\ d.ixscan /\ d.stats
        \/ i = 10 /\ d.ixscan
        \/ i = 11
ClassifyExplainSample(d) == diagnosisOrder[Least({i \in 1..11 : Applies(i, d)})]

\* The strongest confidence a diagnosis can support.
diagnosisCap(diag) ==
    LET i == diagnosisRank(diag)
    IN  IF i <= 3 THEN 3 ELSE IF i \in {4, 5, 6, 7, 9} THEN 2 ELSE 1

needsExecutionStats(diag) == diagnosisRank(diag) \notin {4, 5, 7}

\* Client and server time are compared only where the server measured one.
compareLatency(s) ==
    IF s.status # "explained" \/ ~s.d.stats THEN "not_comparable"
    ELSE IF s.client - s.server > 5 /\ s.client >= 2 * Greater(s.server, 1) THEN "client_slower_than_explain"
    ELSE IF s.server - s.client > 5 /\ s.server >= 2 * Greater(s.client, 1) THEN "explain_slower_than_client"
    ELSE "similar"

-----------------------------------------------------------------------------
(* A shape, by its samples. Confidence is 1 for low, 2 for medium, 3 for    *)
(* high.                                                                    *)

Explained(samples) == {i \in DOMAIN samples : samples[i].status = "explained"}
isInconclusiveStatus(status) == status \in {"timed_out", "execution_failed"}
Inconclusive(samples) == {i \in DOMAIN samples : isInconclusiveStatus(samples[i].status)}

NoFinding == [diagnosis |-> "none", confidence |-> 0, disagree |-> FALSE]

\* The explained samples without execution statistics.
Unmeasured(samples) == {i \in Explained(samples) : ~samples[i].d.stats}

\* How much the samples say, before the cap of the diagnosis.
Quality(diag, samples, disagree) ==
    IF \/ disagree
       \/ needsExecutionStats(diag) /\ Unmeasured(samples) # {}
    THEN 1
    ELSE IF (\E i, j \in Explained(samples) : i # j) /\ Inconclusive(samples) = {} THEN 3
    ELSE 2

\* The ranks of what the explained samples show.
Ranks(samples) == {diagnosisRank(ClassifyExplainSample(samples[i].d)) : i \in Explained(samples)}

BuildExplainFinding(samples) ==
    LET diag == diagnosisOrder[Least(Ranks(samples))]
        disagree == \E r, q \in Ranks(samples) : r # q
    IN  IF Explained(samples) = {} THEN NoFinding
        ELSE [diagnosis |-> diag, disagree |-> disagree,
              confidence |-> Least({Quality(diag, samples, disagree), diagnosisCap(diag)})]

explainFindingPriority(f) ==
    LET rank == diagnosisRank(f.diagnosis)
    IN  IF rank <= 3 THEN (IF f.confidence = 1 THEN "medium" ELSE "high")
        ELSE IF rank \in {4, 7} THEN "medium" ELSE "low"

\* The outcome of a selected shape in the coverage.
coverageStatusFromSamples(samples) ==
    IF Explained(samples) # {}
    THEN [status |-> "explained",
          evidence |-> IF \E i \in DOMAIN samples : samples[i].status = "explained" /\ samples[i].d.stats
                       THEN "execution_stats" ELSE "planner_only"]
    ELSE [status |-> IF Inconclusive(samples) # {} THEN "failed"
                     ELSE IF \E i \in DOMAIN samples : samples[i].status = "cancelled" THEN "cancelled"
                     ELSE "unavailable",
          evidence |-> ""]

\* The sample whose plan is shown: the p95 one, else any that was explained.
PrimarySample(samples) ==
    LET tail == {i \in Explained(samples) : samples[i].role \in {"p95", "median+p95"}}
    IN  samples[Least(IF tail # {} THEN tail ELSE Explained(samples))]

\* What a slow query and the index issue of its shape are told. A shape that is
\* no slow query has no entry here, and its issue keeps the guess with low
\* confidence.
SlowQueryStatus(samples) ==
    IF Explained(samples) # {} THEN "explained" ELSE Head(samples).status
applyFindingToIssue(samples) ==
    LET f == BuildExplainFinding(samples)
    IN  IF f = NoFinding THEN [confidence |-> 1, level |-> "heuristic"]
        ELSE [confidence |-> f.confidence, level |-> f.diagnosis]

\* The counters of the coverage, from the status of every shape.
CoverageCounters(statuses) ==
    [s \in {"explained", "failed", "cancelled", "unavailable", "excluded", "not_supported"} |->
        Cardinality({i \in DOMAIN statuses : statuses[i] = s})]
=============================================================================
