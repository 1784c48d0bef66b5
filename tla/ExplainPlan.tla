---------------------------- MODULE ExplainPlan ----------------------------
(* Which operations the post-run explain looks at: one or two               *)
(* representative samples of a query shape, the shapes that get one of the  *)
(* slots, and the commands that are sent for them.                          *)
(*                                                                          *)
(* A shape of the inventory is a record                                     *)
(*   [id, supported, samples, tier]                                         *)
(* in impact order; a sample is [ms, key, ok]: its latency, what identifies *)
(* its explain command, and whether a command can be built from what was    *)
(* captured. A slow query is [id, supported, severity, slow, issue].        *)
EXTENDS Integers, Sequences, FiniteSets, SequencesExt

LOCAL Least(S) == CHOOSE x \in S : \A y \in S : x <= y
LOCAL Distance(a, b) == IF a < b THEN b - a ELSE a - b

-----------------------------------------------------------------------------
(* Samples                                                                  *)

Sorted(values) == SortSeq(values, LAMBDA a, b : a < b)

\* The value at the rank nearest to p percent; halves round up.
nearestRankPercentile(values, p) ==
    Sorted(values)[1 + (2 * p * (Len(values) - 1) + 100) \div 200]

Executable(samples) == SelectSeq(samples, LAMBDA s : s.ok)

\* The first executable sample at the least distance from a latency.
NearestTo(samples, ms) ==
    LET n == Len(samples)
    IN  Least({i \in 1..n : \A j \in 1..n : Distance(samples[i].ms, ms) <= Distance(samples[j].ms, ms)})

\* The percentiles are of all samples, also of those that cannot be explained;
\* the picks are of the executable ones. Two picks with one command are merged.
selectRepresentativeSamples(samples) ==
    LET runnable == Executable(samples)
        all == [i \in 1..Len(samples) |-> samples[i].ms]
        Near(p) == runnable[NearestTo(runnable, nearestRankPercentile(all, p))]
    IN  IF runnable = <<>> THEN <<>>
        ELSE IF Near(50).key = Near(95).key
             THEN << [role |-> "median+p95", sample |-> Near(50)] >>
             ELSE << [role |-> "median", sample |-> Near(50)],
                     [role |-> "p95", sample |-> Near(95)] >>

Pickable(shape) == shape.supported /\ Executable(shape.samples) # <<>>

-----------------------------------------------------------------------------
(* Shapes                                                                   *)

isExplainCandidatePriorityShape(sq, mode) ==
    /\ sq.severity \in CASE mode = "high_and_low" -> {"critical", "high", "medium", "low"}
                         [] mode = "medium_only" -> {"critical", "high", "medium"}
                         [] mode = "critical_only" -> {"critical"}
                         [] OTHER -> {"critical", "high"}
    /\ sq.issue \/ sq.slow \/ sq.severity \in {"critical", "high"}

\* The slow queries, in order, that get one of the topN slots.
SeverityPicks(slow, inventory, topN, mode) ==
    LET Index(sq) == {i \in DOMAIN inventory : inventory[i].id = sq.id}
        Wanted(sq) == /\ sq.supported
                      /\ isExplainCandidatePriorityShape(sq, mode)
                      /\ \E i \in Index(sq) : Pickable(inventory[i])
        wanted == SelectSeq(slow, Wanted)
        n == IF Len(wanted) < topN THEN Len(wanted) ELSE topN
    IN  [i \in 1..n |-> [shape |-> CHOOSE x \in Index(wanted[i]) : TRUE, by |-> "severity"]]

\* One slot of the efficiency selection: even slots go down the impact order,
\* odd ones take the tiers in turn, each tier in impact order.
EfficiencySlot(inventory, tiers, acc, slot) ==
    LET free == {i \in DOMAIN inventory : Pickable(inventory[i]) /\ i \notin acc.taken}
        Turn(k) == (acc.cursor + k) % tiers
        InTier(k) == {i \in free : inventory[i].tier = Turn(k)}
        some == {k \in 0..tiers - 1 : InTier(k) # {}}
        k == Least(some)
        Take(i, by, cursor) == [taken |-> acc.taken \cup {i}, cursor |-> cursor,
                                order |-> Append(acc.order, [shape |-> i, by |-> by])]
    IN  IF free = {} THEN acc
        ELSE IF slot % 2 = 0 THEN Take(Least(free), "impact_rank", acc.cursor)
        ELSE Take(Least(InTier(k)), "latency_tier", Turn(k) + 1)

\* A plausible mistake: every odd slot starts with the first tier again.
EfficiencySlotFirstTier(inventory, tiers, acc, slot) ==
    EfficiencySlot(inventory, tiers, [acc EXCEPT !.cursor = 0], slot)

SelectionSlots(inventory, tiers, acc, slot) == EfficiencySlot(inventory, tiers, acc, slot)

\* All selected shapes, in the order their commands are planned.
SelectedShapes(slow, inventory, tiers, topN, mode, efficiency) ==
    LET severe == SeverityPicks(slow, inventory, topN, mode)
        start == [taken |-> {severe[i].shape : i \in DOMAIN severe}, cursor |-> 0, order |-> severe]
        Slot(acc, slot) == SelectionSlots(inventory, tiers, acc, slot)
        slots == IF efficiency THEN [i \in 1..topN |-> i - 1] ELSE <<>>
    IN  FoldLeft(Slot, start, slots).order

\* What a shape is told before the commands run.
PlannedStatus(shape, isSelected) ==
    CASE ~shape.supported -> "not_supported"
      [] shape.supported /\ ~Pickable(shape) -> "unavailable"
      [] Pickable(shape) /\ isSelected -> "pending"
      [] OTHER -> "excluded"

-----------------------------------------------------------------------------
(* Commands                                                                 *)

\* The samples of the selected shapes, in order, each with the command it uses:
\* samples with one key share the command of the first.
PlannedSamples(order, inventory) ==
    LET Of(pick) == LET picks == selectRepresentativeSamples(inventory[pick.shape].samples)
                    IN  [i \in DOMAIN picks |->
                            [shape |-> pick.shape, role |-> picks[i].role, key |-> picks[i].sample.key]]
    IN  FlattenSeq([i \in DOMAIN order |-> Of(order[i])])

PlannedCommands(order, inventory) ==
    LET keys == [i \in DOMAIN PlannedSamples(order, inventory) |->
                    PlannedSamples(order, inventory)[i].key]
    IN  FoldLeft(LAMBDA acc, key : IF Contains(acc, key) THEN acc ELSE Append(acc, key), <<>>, keys)
=============================================================================
