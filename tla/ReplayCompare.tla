--------------------------- MODULE ReplayCompare ---------------------------
(* The comparison of two outcome files or recordings, operation by operation  *)
(* (internal/replaycompare/compare.go). A side is [kind, status, id, ops]; an *)
(* operation is [key, shape, out] with NoOutcome, or an outcome                *)
(* [ok, err, count, sum, us] with its latency. Outcome texts are left out.     *)
EXTENDS Integers, Sequences, FiniteSets, SequencesExt, Functions, TLC

CONSTANTS
    ComparedShapes,
    ComparedMinOps, \* operations a latency verdict needs: TrendMinOperations
    ComparedTopN,   \* differing operations that are listed
    TrimSlack       \* more are collected before they are trimmed: 3*topN+64

NoOutcome == [ok |-> FALSE, err |-> 0, count |-> -1, sum |-> 0, us |-> 0]
NoSum == 0

\* sideFile.identity: the header hash of a recording, the fingerprint of a
\* deterministic run, known at its end only; "" is missing.
SeqKeyed(side) == side.kind # "deterministic"

\* checkIdentity
Mismatch(a, b) == SeqKeyed(a) # SeqKeyed(b) \/ "" \in {a.id, b.id} \/ a.id # b.id

\* A file that does not match is refused, unless mismatches are allowed.
Refused(a, b, allow) == Mismatch(a, b) /\ ~allow

-----------------------------------------------------------------------------
\* comparer.pair: why two outcomes of one operation differ.
DiffKinds(a, b) ==
    IF a.ok /\ b.ok
    THEN (IF a.count # b.count THEN {"result_count"} ELSE {})
         \cup (IF NoSum \notin {a.sum, b.sum} /\ a.sum # b.sum THEN {"checksum"} ELSE {})
    ELSE IF a.ok THEN {"error_only_b"}
    ELSE IF b.ok THEN {"error_only_a"}
    ELSE IF a.err # b.err THEN {"error_code"} ELSE {}

Lowest(keys, n) == {k \in keys : Cardinality({l \in keys : l < k}) < n}

\* addDiff and trimDiffs: the listed operations are those with the lowest keys.
AddDiff(c, key, shape) ==
    LET all == c.diffs \cup {key}
    IN  [c EXCEPT !.diffs = IF Cardinality(all) >= ComparedTopN + TrimSlack
                            THEN Lowest(all, ComparedTopN) ELSE all,
                  !.differing[shape] = @ + 1]

Zero == [s \in ComparedShapes |-> 0]

\* The first pass: the operations of A, each key once.
ReadA(ops) ==
    FoldLeft(LAMBDA c, l :
        IF l.out = NoOutcome \/ l.key \in DOMAIN c.left THEN c
        ELSE [c EXCEPT !.left = @ @@ (l.key :> [shape |-> l.shape, out |-> l.out]),
                       !.opsA[l.shape] = @ + 1],
        [left |-> <<>>, opsA |-> Zero, opsB |-> Zero, matched |-> Zero, missingInA |-> Zero,
         missingInB |-> Zero, differing |-> Zero, diffs |-> {}, seenB |-> {},
         us |-> [s \in ComparedShapes |-> <<>>]],
        ops)

\* An operation of both: with a recording as A, the shape is that of B, and the
\* operation moves to it.
PairMoving(c, l, a, shape, opsA) ==
    LET paired == [c EXCEPT !.opsA = opsA, !.opsB[shape] = @ + 1, !.matched[shape] = @ + 1,
                            !.left = [k \in DOMAIN @ \ {l.key} |-> @[k]],
                            !.us[shape] = IF a.out.ok /\ l.out.ok
                                          THEN Append(@, <<a.out.us, l.out.us>>) ELSE @]
    IN  IF DiffKinds(a.out, l.out) = {} THEN paired ELSE AddDiff(paired, l.key, shape)

\* Mutant: it is counted for B in its new shape, for A in the old.
PairInPlace(c, l, a, shape) == PairMoving(c, l, a, shape, c.opsA)
Pair(c, l, a, shape) ==
    PairMoving(c, l, a, shape, LET without == [c.opsA EXCEPT ![a.shape] = @ - 1]
                               IN  [without EXCEPT ![shape] = @ + 1])

ReadB(c0, ops, preferB) ==
    FoldLeft(LAMBDA c, l :
        IF l.out = NoOutcome \/ l.key \in c.seenB THEN c
        ELSE LET seen == [c EXCEPT !.seenB = @ \cup {l.key}]
             IN  IF l.key \in DOMAIN c.left
                 THEN LET a == c.left[l.key]
                      IN  Pair(seen, l, a, IF preferB THEN l.shape ELSE a.shape)
                 ELSE AddDiff([seen EXCEPT !.opsB[l.shape] = @ + 1, !.missingInA[l.shape] = @ + 1],
                              l.key, l.shape),
        c0, ops)

\* What is left of A is missing in B.
Leftovers(c0) ==
    FoldLeft(LAMBDA c, k :
        LET s == c0.left[k].shape IN AddDiff([c EXCEPT !.missingInB[s] = @ + 1], k, s),
        c0, SetToSeq(DOMAIN c0.left))

Compare(a, b) ==
    LET c == Leftovers(ReadB(ReadA(a.ops), b.ops, a.kind = "recording" /\ b.kind # "recording"))
    IN  [c EXCEPT !.diffs = Lowest(@, ComparedTopN)]

-----------------------------------------------------------------------------
(* The latencies, in microseconds, of the operations that succeeded on     *)
(* both sides: pairs <<A, B>>.                                             *)

RoundedDiv(n, d) == (2 * n + d) \div (2 * d)

\* latencyOf; side is 1 for A and 2 for B.
LatencyOf(pairs, side) ==
    LET n      == Len(pairs)
        sorted == SortSeq([i \in 1..n |-> pairs[i][side]], <)
        Pct(p) == sorted[1 + RoundedDiv(p * (n - 1), 100)]
    IN  [avg |-> RoundedDiv(FoldSeq(+, 0, sorted), n),
         p50 |-> Pct(50), p95 |-> Pct(95), p99 |-> Pct(99), max |-> sorted[n]]

\* material: by 1 ms, and by 20 % of A.
Material(a, b) ==
    LET d == IF b > a THEN b - a ELSE a - b IN d >= 1000 /\ a > 0 /\ 10 * d >= 2 * a

\* compareLatency
CompareLatency(pairs) ==
    IF Len(pairs) < ComparedMinOps THEN "insufficient_evidence"
    ELSE LET a == LatencyOf(pairs, 1)
             b == LatencyOf(pairs, 2)
             opposite == Material(a.p95, b.p95) /\ (b.avg > a.avg) # (b.p95 > a.p95)
         IN  IF a.avg = 0 \/ (Material(a.avg, b.avg) /\ opposite) THEN "insufficient_evidence"
             ELSE IF ~Material(a.avg, b.avg) THEN "no_material_change"
             ELSE IF b.avg > a.avg THEN "slower" ELSE "faster"

\* The verdicts of the shapes, and of all operations together.
ShapeVerdicts(c) == [s \in ComparedShapes |-> CompareLatency(c.us[s])]
OverallVerdict(c) ==
    CompareLatency(FoldSet(LAMBDA s, all : all \o c.us[s], <<>>, ComparedShapes))

VerdictRank(v) ==
    CASE v = "slower" -> 0 [] v = "faster" -> 1 [] v = "no_material_change" -> 2 [] OTHER -> 3

\* The order of the shapes in the report (but for equal ones, by their names).
ShapeBefore(c, s, t) ==
    \/ c.differing[s] > c.differing[t]
    \/ /\ c.differing[s] = c.differing[t]
       /\ VerdictRank(ShapeVerdicts(c)[s]) < VerdictRank(ShapeVerdicts(c)[t])

-----------------------------------------------------------------------------
(* Plans and commands. *)

\* planChange; have: both runs stored explain evidence.
PlanChange(a, b, have) ==
    IF ~have \/ (a = {} /\ b = {}) THEN "none"
    ELSE IF {} \in {a, b} THEN "one_side"
    ELSE IF a # b THEN "changed" ELSE "same"

\* attachCommands: the recording whose commands are shown, as <<side>>, with A
\* before B before the one given.
CommandSource(a, b, given) ==
    IF a.kind = "recording" THEN <<a>>
    ELSE IF b.kind = "recording" THEN <<b>>
    ELSE IF SeqKeyed(a) /\ SeqKeyed(b) /\ given # <<>> /\ given[1].id \in {a.id, b.id} THEN given
    ELSE <<>>

\* The listed operations with a command.
Commands(c, a, b, given) ==
    {k \in c.diffs : \E i \in DOMAIN CommandSource(a, b, given) :
        \E j \in DOMAIN CommandSource(a, b, given)[i].ops :
            CommandSource(a, b, given)[i].ops[j].key = k}

-----------------------------------------------------------------------------
(* The reference: what the report is about.                                *)
OutcomeOf(ops, key) ==
    LET at == {i \in DOMAIN ops : ops[i].key = key /\ ops[i].out # NoOutcome}
    IN  IF at = {} THEN NoOutcome ELSE ops[CHOOSE i \in at : \A j \in at : i <= j].out
Keys(ops) == {ops[i].key : i \in {j \in DOMAIN ops : ops[j].out # NoOutcome}}
Differing(a, b) ==
    {k \in Keys(a.ops) \cup Keys(b.ops) :
        \/ k \notin Keys(a.ops) \cap Keys(b.ops)
        \/ DiffKinds(OutcomeOf(a.ops, k), OutcomeOf(b.ops, k)) # {}}

\* Every operation of either file is counted once, in one shape, as matched or
\* as missing in the other, and the listed differences are the first ones.
ReportAccounts(a, b) ==
    LET c == Compare(a, b) IN
    /\ \A s \in ComparedShapes :
           /\ c.opsA[s] = c.matched[s] + c.missingInB[s]
           /\ c.opsB[s] = c.matched[s] + c.missingInA[s]
           /\ c.differing[s] <= c.matched[s] + c.missingInA[s] + c.missingInB[s]
    /\ SumFunction(c.opsA) = Cardinality(Keys(a.ops))
    /\ SumFunction(c.opsB) = Cardinality(Keys(b.ops))
    /\ SumFunction(c.differing) = Cardinality(Differing(a, b))
    /\ c.diffs = Lowest(Differing(a, b), ComparedTopN)

\* The verdict on all operations does not contradict those of the shapes, and
\* is not the same when the sides change places.
LatencyFair(a, b) ==
    LET c == Compare(a, b)
        v == OverallVerdict(c)
        verdicts == {ShapeVerdicts(c)[s] : s \in {t \in ComparedShapes : c.us[t] # <<>>}}
        Opposite == [slower |-> "faster", faster |-> "slower"]
        back == OverallVerdict(Compare(b, a))
    IN  /\ v \in DOMAIN Opposite => verdicts # {Opposite[v]} /\ back # v
        /\ \A s, t \in ComparedShapes : ShapeBefore(c, s, t) => ~ShapeBefore(c, t, s)

\* An operation that both ran differently is listed with its command when one
\* side, or the file given, is the recording of it; a foreign file shows nothing.
CommandsFound(a, b, given) ==
    LET c == Compare(a, b)
        shown == Commands(c, a, b, given)
        recorded == \/ "recording" \in {a.kind, b.kind}
                    \/ SeqKeyed(a) /\ SeqKeyed(b) /\ given[1].id = a.id
    IN  /\ recorded => c.diffs \cap Keys(a.ops) \cap Keys(b.ops) \subseteq shown
        /\ Commands(c, a, b, <<[given[1] EXCEPT !.id = "other"]>>) # {} =>
               "recording" \in {a.kind, b.kind}
=============================================================================
