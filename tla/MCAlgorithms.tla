---------------------------- MODULE MCAlgorithms ----------------------------
(***************************************************************************)
(* The algorithms of the reports, on all inputs from small sets.  The      *)
(* trend data goes through sequences of records, imports, reads, pins and  *)
(* deletes; each other algorithm is asked one question, and its answer is  *)
(* compared with what it is to mean.                                       *)
(***************************************************************************)
EXTENDS Integers, TrendHistory, SequencesExt, TLC

CONSTANTS
    Findings,        \* what was explained of a shape: sequences of samples
    ExplainedPlans,  \* plans: sequences of nodes
    Queries,         \* query shapes: a filter and a sort
    Indexes,         \* the indexes that are deployed
    SelectiveMinDocs, SelectiveRatio

VARIABLES
    algorithm,  \* which algorithm is asked: "none" before
    input       \* what it is asked

questionVars == <<algorithm, input, trendVars>>

Tc == INSTANCE TrendCompare
CommandBytes(cmd) == <<1, 2, 4, 1>>[cmd]
Tv == INSTANCE TrendValues WITH Bytes <- CommandBytes, MaxSampleBytes <- 3, MaxShapeBytes <- 3,
          MaxRunBytes <- 4, MaxRetained <- 2, MaxSamples <- 3
Xp == INSTANCE ExplainPlan
Xe == INSTANCE ExplainEvidence
Ef == INSTANCE Efficiency
Ia == INSTANCE IndexAdvice
Rc == INSTANCE ReplayCompare WITH ComparedShapes <- {"s", "t"}, ComparedMinOps <- 1,
          ComparedTopN <- 1, TrimSlack <- 1

\* At most two samples of a shape are explained (selectRepresentativeSamples).
ASSUME QuestionAssumption ==
    /\ \A s \in Findings : s \in Seq(Xe!ExplainSample) /\ Len(s) \in 1..2
    /\ \A q \in Queries : /\ IsFiniteSet(q.filter) /\ \A c \in q.filter : c.field \in STRING
                          /\ q.sort \in Ia!SortKeys
    /\ \A idx \in Indexes : idx.keys \in Ia!IndexKeys

Init ==
    /\ algorithm = "none" /\ input = <<>>
    /\ TrendInit

Ask(name, question) ==
    /\ algorithm' = name /\ input' = question
    /\ UNCHANGED trendVars

-----------------------------------------------------------------------------
(* The trend data.                                                          *)

Snapshot(id, ns, values) == [id |-> id, ns |-> ns, eff |-> TRUE, wl |-> values, values |-> values]

\* What a run brings: one shape, two or three, with values or in another namespace.
SmallRuns ==
    {<<Snapshot(1, "n", TRUE)>>, <<Snapshot(1, "m", FALSE)>>, <<Snapshot(3, "n", TRUE)>>,
     <<Snapshot(1, "n", TRUE), Snapshot(2, "n", FALSE), Snapshot(3, "n", FALSE)>>}

\* What someone sends: two runs of another clock, one of them pinned or none; and
\* a file that was edited, with a shape listed twice.
FileShape(id, ns, runs, values) == [id |-> id, ns |-> ns, eff |-> runs, wl |-> {}, values |-> values]
SmallFiles ==
    {[runs |-> {2, 7}, pinned |-> {p}, shapes |-> <<FileShape(1, ns, {2, 7}, {2})>>] :
        p \in {2, 7}, ns \in {"n", "m"}}
    \cup {[runs |-> {3, 7}, pinned |-> {},
           shapes |-> <<FileShape(2, "n", {7}, {7}), FileShape(4, "n", {3, 7}, {3})>>],
          [runs |-> {3, 7, 8}, pinned |-> {3, 7},
           shapes |-> <<FileShape(2, "n", {7, 9}, {}), FileShape(2, "n", {3}, {3}), FileShape(4, "n", {8}, {})>>]}

TrendStep ==
    /\ algorithm \in {"none", "trends"} /\ algorithm' = "trends"
    /\ TrendNext
    /\ UNCHANGED input

-----------------------------------------------------------------------------
(* The comparison with a stored run.                                        *)

Latency == [ops : {29, 30}, avg : {0, 40, 48, 50, 60}, p95 : {-1, 50, 61}, samples : {20}]
Scores == {[score |-> s, upper |-> u, coverage |-> "assessed", cmds |-> n, confidence |-> "high",
            status |-> "assessed", run |-> 1, at |-> 5, si |-> 1, sv |-> 1] :
                s \in {-1, 40, 54, 55, 70}, u \in BOOLEAN, n \in {1, 2}}
AskVerdict ==
    \/ \E b, c \in Latency : Ask("latency", [from |-> b, to |-> c])
    \/ \E b, c \in Scores : Ask("efficiency", [from |-> b, to |-> c])

Stored ==
    [run : {1, 2}, at : {1, 5}, si : {1, 2}, sv : {1, 2}, coverage : {"assessed", "partial"},
     score : {50}, upper : {FALSE}, cmds : {2}, confidence : {"high"}, status : {"assessed"}]
AskBaseline == \E h \in SeqOf(Stored, 2) : Ask("baseline", h)

\* What else may have changed: the plans and indexes of a shape, and the runs.
Plans == [plans : {{}, {"p"}, {"q"}}, indexes : {{}, {"i"}}, fetched : BOOLEAN, nsIndexes : {{}, {"i"}}]
Contexts ==
    {c \in [versions : {"7", "8"}, topology : {"t"}, source : {"none", "hello"}, sampling : {1, 2},
            workload : {"w"}, replay : {"", "h"}, traffic : {"", "f"}] : "" \in {c.replay, c.traffic}}
AskChanges ==
    \E b, c \in Plans, before, run \in Contexts :
        /\ b.plans = {"p"} /\ b.indexes = {"i"} /\ before.versions = "7" /\ before.sampling = 1
        /\ Ask("changes", [from |-> b, to |-> c, before |-> before, run |-> run])

ComparedRun == [run |-> 2, si |-> 1, sv |-> 1, now |-> 5, maxAge |-> 3, pinned |-> {}, runs |-> <<>>]

\* Commands kept as values: four that can be stored (of 1, 2, 4 and 1 bytes), and
\* two that cannot.
Found(cmd) == [op |-> "find", query |-> TRUE, collection |-> TRUE, update |-> FALSE,
               unordered |-> FALSE, encodable |-> TRUE, explained |-> TRUE, cmd |-> cmd]
Sources == {Found(cmd) : cmd \in 1..4}
           \cup {[Found(1) EXCEPT !.op = "aggregate", !.unordered = TRUE],
                 [Found(1) EXCEPT !.op = "updateOne"]}
ForeignSamples ==
    {[hash |-> h, bytes |-> 1, text |-> t, cmd |-> cmd, valid |-> TRUE] :
        h \in {0, 1}, t \in BOOLEAN, cmd \in 1..3}
    \cup {[hash |-> 2, bytes |-> -1, text |-> TRUE, cmd |-> 1, valid |-> FALSE]}
ValueRuns ==
    [stored : BOOLEAN, dropped : BOOLEAN, fingerprint : {0, 1}, recording : {0, 1}]
AskValues ==
    \/ \E explained \in SeqOf(Sources, 1), retained \in SeqOf(Sources, 3) :
          Ask("values", [explained |-> explained, retained |-> retained])
    \/ \E samples \in SeqOf(ForeignSamples, 2), omitted \in {-1, 1} :
          Ask("foreign", [samples |-> samples, omitted |-> omitted, notes |-> {}])
    \/ \E a, b \in ValueRuns, at \in 0..2, from, to \in {<<>>, <<1>>, <<2, 1>>} :
          Ask("twovalues", [run |-> a, other |-> b, at |-> at, from |-> from, to |-> to])

-----------------------------------------------------------------------------
(* The explains.                                                            *)

Severe(i) == [id |-> i, supported |-> TRUE, severity |-> "critical", slow |-> TRUE, issue |-> TRUE]
Shape(i, tier, ok) ==
    [id |-> i, supported |-> TRUE, tier |-> tier, samples |-> <<[ms |-> i, key |-> i, ok |-> ok]>>]

AskSelection ==
    \E tiers \in [1..5 -> {0, 1}], ok \in [1..5 -> BOOLEAN], slow \in {<<>>, <<Severe(1)>>} :
        Ask("selection", [inventory |-> [i \in 1..5 |-> Shape(i, tiers[i], ok[i])], slow |-> slow])

Signals ==
    [collscan : BOOLEAN, ixscan : BOOLEAN, group : BOOLEAN, sort : {FALSE}, spills : {FALSE},
     stats : BOOLEAN, unfiltered : BOOLEAN, docs : {1, 200}, keys : {1}, results : {1}]
SmallSamples ==
    [status : {"explained"}, role : {"p95"}, d : Signals, client : {10}, server : {4}]
    \cup [status : {"timed_out", "cancelled"}, role : {"median"}, d : {CHOOSE d \in Signals : TRUE},
          client : {0}, server : {0}]
SmallFindings == SeqOf(SmallSamples, 2) \ {<<>>}
AskFinding == \E s \in Findings : Ask("finding", s)

PlanNodes ==
    [kind : {"stage"}, stage : {"COLLSCAN", "IXSCAN", "SORT"},
     path : {<<>>, <<"inputStage">>, <<"rejectedPlans">>, <<"rejectedPlans", "inputStage">>}]
    \cup [kind : {"dollar"}, stage : {"GROUP"}, path : {<<"stages">>, <<"command", "stages">>}]
SmallPlans == SeqOf(PlanNodes, 2)
AskSignals == \E plan \in ExplainedPlans : Ask("signals", plan)

-----------------------------------------------------------------------------
(* The counters and the ratings. What a server reported, with some fields   *)
(* left out: of one mongod 1000 documents and keys were examined for 10     *)
(* results (100 went into a group), on each of two shards half of that.     *)

Fields == {"total", "root", "shard", "result", "write", "structure"}
Report(kind, op, out) ==
    LET V(field, n) == IF field \in out THEN -1 ELSE n
        Stages(n) ==
            IF op = "aggregate"
            THEN <<[stage |-> "PROJECTION", ret |-> 1], [stage |-> "GROUP", ret |-> 1],
                   [stage |-> "FETCH", ret |-> V("result", 10 * n)]>>
            ELSE IF op = "find" THEN <<[stage |-> "FETCH", ret |-> V("result", n)]>>
            ELSE <<[stage |-> "UPDATE", ret |-> 0, matched |-> V("result", n), wouldDelete |-> -1,
                    wouldModify |-> V("write", n \div 5)]>>
        Plan(n, field) == [kind |-> "plan", doc |-> "structure" \notin out, stats |-> "root" \notin out,
                           docs |-> V(field, 100 * n), keys |-> V("total", 100 * n),
                           ret |-> V("result", n), execution |-> Stages(n), pushed |-> FALSE]
        Sharded == [kind |-> "sharded_plan", stats |-> TRUE, docs |-> V("total", 1000),
                    keys |-> V("total", 1000), rootDocs |-> V("root", 1000), rootKeys |-> V("root", 1000),
                    ret |-> V("result", 10), shards |-> <<Plan(5, "shard"), [Plan(5, "total") EXCEPT !.doc = TRUE]>>]
        Pipeline == [cursor |-> "structure" \notin out, last |-> V("write", 1),
                     lookups |-> <<[docs |-> V("shard", 10), keys |-> 10], [docs |-> 20, keys |-> V("write", 20)]>>]
                    @@ [Plan(10, "total") EXCEPT !.kind = "pipeline"]
    IN  CASE kind = "plan"         -> Plan(10, "shard")
          [] kind = "sharded_plan" -> Sharded
          [] kind = "pipeline"     -> Pipeline
          [] OTHER -> [kind |-> "sharded_pipeline", split |-> FALSE,
                       parts |-> <<Plan(5, "shard"), [Plan(5, "total") EXCEPT !.doc = TRUE]>>]

Explained(report, op, collscan, measured) ==
    [status |-> "explained", role |-> "p95",
     d |-> [collscan |-> collscan, unfiltered |-> FALSE, stats |-> measured, sort |-> FALSE,
            disk |-> FALSE, metrics |-> Ef!normalizeExplainMetrics(report, op)]]

Rows == [score : {-1, 38, 67}, upper : BOOLEAN, status : {"rated"}, rank : {0, 1, 2}, id : {1, 2}]
        \cup [score : {-1}, upper : {FALSE}, status : {"not_applicable"}, rank : {0, 1}, id : {3}]

AskRating ==
    \/ \E kind \in {"plan", "sharded_plan", "pipeline", "sharded_pipeline"},
          op \in {"find", "updateOne", "aggregate"}, out, other \in SUBSET Fields, collscan \in BOOLEAN :
          /\ kind \in {"pipeline", "sharded_pipeline"} => op = "aggregate"
          /\ other \in {{}, {"total"}, {"structure", "root", "total"}}
          /\ Ask("rating", [kind |-> kind, op |-> op, out |-> out, other |-> other, collscan |-> collscan])
    \/ \E measured, target \in [{"avg", "p95", "p99"} -> {-1, 5, 20}] :
          Ask("target", [measured |-> measured, target |-> target])
    \/ \E known, sort, disk \in [1..2 -> BOOLEAN] :
          Ask("overhead", [known |-> known, sort |-> sort, disk |-> disk])
    \/ \E a, b \in Rows : Ask("rows", <<a, b>>)

-----------------------------------------------------------------------------
(* The index advice.                                                        *)

Conditions(f) ==
    {{}} \cup {{[field |-> f, op |-> c[1], value |-> c[2]]} :
                  c \in {<<"eq", "v">>, <<"eq", Ia!NoValue>>, <<"in", "v">>, <<"range", "v">>}}
Key(f, dir) == [field |-> f, dir |-> dir]
KeyLists(dirs) ==
    {<<Key(f, d)>> : f \in {"a", "b"}, d \in dirs}
    \cup {<<Key(p[1], d), Key(p[2], e)>> : p \in {<<"a", "b">>, <<"b", "a">>}, d \in dirs, e \in dirs}

SmallQueries ==
    [filter : {ca \cup cb : ca \in Conditions("a"), cb \in Conditions("b")},
     sort : {<<>>} \cup KeyLists({Ia!Asc, Ia!Desc}), ordered : BOOLEAN]
AskAdvice == \E q \in Queries : Ask("advice", Ia!ProfileQuery(q.filter, q.sort, q.ordered))

Plain(keys) ==
    [keys |-> keys, hidden |-> FALSE, simple |-> TRUE, isPartial |-> FALSE, partial |-> {},
     multikey |-> FALSE]
Partials ==
    LET On(op, value) == [field |-> "a", op |-> op, value |-> value]
    IN  {{On("eq", "v")}, {On("$eq", "v")}, {On("range", "v")}, {On("logical", "v")},
         {On("eq", "v"), On("logical", "v")}, {On("eq", Ia!NoValue)}}
SmallIndexes ==
    UNION {{Plain(keys), [Plain(keys) EXCEPT !.hidden = TRUE], [Plain(keys) EXCEPT !.simple = FALSE],
            [Plain(keys) EXCEPT !.multikey = TRUE]}
           \cup {[Plain(keys) EXCEPT !.isPartial = TRUE, !.partial = f] : f \in Partials} :
               keys \in KeyLists({Ia!Asc, Ia!Desc, Ia!Hashed})}

-----------------------------------------------------------------------------
(* The comparison of two replays.                                           *)

Succeeded(sum, us) == [ok |-> TRUE, err |-> 0, count |-> 1, sum |-> sum, us |-> us]
Outcomes == {Rc!NoOutcome, Succeeded(1, 500), [Succeeded(1, 500) EXCEPT !.ok = FALSE, !.err = 5]}
Others   == Outcomes \cup {Succeeded(2, 500)}
Operations(outcomes) == SeqOf([key : {1, 2}, shape : {"s", "t"}, out : outcomes], 2)
Sides(kinds, ops) == [kind : kinds, status : {"complete"}, id : {"i"}, ops : ops]


\* Latencies of one run of each operation: the i-th operations are of the same
\* key and shape.
Timed(pairs, kind, side) ==
    [kind |-> kind, status |-> "complete", id |-> "i",
     ops |-> [i \in DOMAIN pairs |->
        [key |-> i, shape |-> pairs[i].shape, out |-> Succeeded(1, pairs[i].us[side])]]]

AskComparison ==
    \/ \E a \in Sides({"recording", "replay", "deterministic"}, Operations(Outcomes)) : Ask("comparison", a)
    \/ \E pairs \in SeqOf([shape : {"s", "t"}, us : ({0, 900, 2000, 9000} \X {900, 2000, 9000})], 3) :
          Ask("latencies", pairs)

-----------------------------------------------------------------------------
Next ==
    \/ TrendStep
    \/ /\ algorithm = "none"
       /\ \/ AskAdvice \/ AskVerdict \/ AskBaseline \/ AskChanges \/ AskValues \/ AskSelection
          \/ AskFinding \/ AskSignals \/ AskRating \/ AskComparison

Spec == Init /\ [][Next]_questionVars

-----------------------------------------------------------------------------
Opposite(v) == CASE v = "improved" -> "regressed" [] v = "regressed" -> "improved" [] OTHER -> v

\* The values of one shape in a run of its own.
ValuesOf(built) == IF built = <<>> THEN Tv!finishTrendValues(<<>>, 0, {}) ELSE built[1]
Values(explained, retained) ==
    ValuesOf(Tv!BuildTrendQueryValues(<<[explained |-> explained, retained |-> retained]>>)[1])

\* What a shape keeps of its commands is within the limits, does not depend on
\* the order of retention, and says so when something is missing (but for the
\* samples beyond MaxRetained, which are not counted); writing it out and
\* reading it back changes nothing.
KeptTruly(v, rows, explained, retained) ==
    LET possible == {s.cmd : s \in {x \in ToSet(explained) \cup ToSet(retained) : Tv!SkipReason(x) = ""}}
        AsFile(s) == s @@ [cmd |-> s.hash, valid |-> TRUE]
        Texts(w) == FoldLeft(LAMBDA n, s : n + Tv!Size(s), 0, w.samples)
    IN  /\ Len(v.samples) <= 3 /\ Cardinality(v.hash) = Len(v.samples) /\ v.hash \subseteq possible
        /\ Texts(v) <= 3
        /\ rows[1] # <<>> => rows[1][1] = v /\ Texts(v) + Texts(rows[2][1]) <= 4
        /\ v.hash = Values(explained, Reverse(retained)).hash
        /\ Cardinality(possible \ {s.cmd : s \in ToSet(explained)}) <= 2 /\ v.hash # possible => v.truncated
        /\ Tv!sanitizeTrendQueryValues([v EXCEPT !.samples = [i \in DOMAIN @ |-> AsFile(@[i])]]) = v

ValuesKept(row) ==
    KeptTruly(Values(row.explained, row.retained), Tv!BuildTrendQueryValues(<<row, row>>),
              row.explained, row.retained)

\* A foreign snapshot keeps no text under another command's hash.
ForeignChecked(file) ==
    LET v == Tv!sanitizeTrendQueryValues(file)
    IN  /\ v.omitted >= Max({file.omitted, 0})
        /\ \A i \in DOMAIN v.samples : v.samples[i].text => v.samples[i].bytes = CommandBytes(v.samples[i].hash)
        /\ \A i \in DOMAIN file.samples : file.samples[i].text /\ file.samples[i].valid
              /\ CommandBytes(file.samples[i].cmd) <= 3 =>
                 file.samples[i].cmd \in v.hash \/ v.truncated

\* The same values from either side, and never without a reason when they are
\* not there.
RowsAgree(q, row, back) ==
    /\ row # <<>> /\ back # <<>> => row[1].match = back[1].match
    /\ row # <<>> /\ row[1].state = "not_recorded" => "" # row[1].current \/ "" # row[1].baseline
    /\ q.from # <<>> /\ q.to # <<>> /\ row # <<>> /\ back # <<>> => row[1].state = back[1].state
    /\ row # <<>> /\ row[1].state = "same_values" =>
          \/ q.from = q.to
          \/ q.run.fingerprint = q.other.fingerprint /\ q.run.fingerprint # 0
          \/ q.run.recording = q.other.recording /\ q.run.recording # 0

ValuesAgree(q) ==
    LET Side(cmds) == IF cmds = <<>> THEN <<>>
                      ELSE <<[run |-> 1] @@ Values(<<>>, [i \in DOMAIN cmds |-> Found(cmds[i])])>>
        Row(run, baseRun, cur, base) ==
            Tv!trendValuesRow(run, Side(cur),
                [values |-> Side(base), workload |-> <<>>,
                 efficiency |-> IF q.at = 0 THEN <<>> ELSE <<[run |-> q.at]>>], [r \in {1} |-> baseRun])
    IN  RowsAgree(q, Row(q.run, q.other, q.from, q.to), Row(q.other, q.run, q.to, q.from))

\* An improvement is a regression when the runs change places (not the other way
\* round for latencies, whose change is relative to the first run), what else
\* changed is the same from either side, and a baseline that may be compared is
\* found although newer ones may not (CompareTrendLatency, trendInterventions,
\* SelectPreviousBaseline); the values kept beside them are those that were sent.
TrendVerdictsSound ==
    /\ algorithm = "latency" =>
          LET there == Tc!CompareTrendLatency(input.from, input.to)
              back  == Tc!CompareTrendLatency(input.to, input.from)
          IN  there = "improved" /\ input.to.avg > 0 => back = "regressed"
    /\ algorithm = "efficiency" =>
          Tc!CompareTrendEfficiency(<<input.to>>, <<input.from>>)
              = Opposite(Tc!CompareTrendEfficiency(<<input.from>>, <<input.to>>))
    /\ algorithm = "changes" =>
          /\ Tc!TrendInterventions(<<input.from>>, <<input.to>>, <<input.before>>, input.run)
                = Tc!TrendInterventions(<<input.to>>, <<input.from>>, <<input.run>>, input.before)
          /\ Tc!TrendWorkloadChanges(<<>>, <<>>, <<input.before>>, input.run)
                = Tc!TrendWorkloadChanges(<<>>, <<>>, <<input.run>>, input.before)
    /\ algorithm = "baseline" =>
          LET cur  == [ns |-> "n", eff |-> <<[run |-> 2] @@ CHOOSE s \in Scores : s.score = 70>>,
                       wl |-> <<>>]
              view == Tc!BuildTrendView([x \in {1} |-> cur],
                          [x \in {1} |-> [ns |-> "n", eff |-> input, wl |-> <<>>]],
                          Tc!ResolveTrendSelection("previous", 0, <<2, 1>>, {}, 2), ComparedRun)
              fit  == {i \in DOMAIN input : input[i].run = 1
                                               /\ Tc!EfficiencyGate(input[i], ComparedRun) = ""}
          IN  (view.rows[1].efficiency \notin {"no_baseline", "not_comparable"}) <=> fit # {}
    /\ algorithm = "values"    => ValuesKept(input)
    /\ algorithm = "foreign"   => ForeignChecked(input)
    /\ algorithm = "twovalues" => ValuesAgree(input)

\* Slots go around the tiers: with two of them for two tiers each tier with a
\* shape that can be explained has one selected, and such a shape is left out
\* only when every slot is used (SelectedShapes).
EveryTierGetsASlot ==
    algorithm = "selection" =>
        LET order  == Xp!SelectedShapes(input.slow, input.inventory, 2, 4, "critical_only", TRUE)
            chosen == {order[i].shape : i \in DOMAIN order}
            can    == {i \in 1..5 : Xp!Pickable(input.inventory[i])}
            status == [i \in 1..5 |-> Xp!PlannedStatus(input.inventory[i], i \in chosen)]
        IN  /\ {input.inventory[i].tier : i \in chosen} = {input.inventory[i].tier : i \in can}
            /\ "excluded" \in {status[i] : i \in 1..5} => Len(order) >= 4
            /\ Len(Xp!PlannedCommands(order, input.inventory)) = Cardinality(chosen)

\* High confidence needs two plans that agree, none missing, and measured ones
\* where the diagnosis is about measures; what is under a rejected plan is no
\* signal (BuildExplainFinding, parseExplainSignals).
HighConfidenceIsEarned ==
    /\ algorithm = "finding" =>
          LET f == Xe!BuildExplainFinding(input)
              coverage == Xe!coverageStatusFromSamples(input)
          IN  /\ f.confidence = 3 =>
                     /\ Len(input) = 2 /\ \A i \in 1..2 : input[i].status = "explained" /\ input[i].d.stats
                     /\ Xe!ClassifyExplainSample(input[1].d) = Xe!ClassifyExplainSample(input[2].d)
              /\ (f = Xe!NoFinding) <=> coverage.status # "explained"
              /\ f # Xe!NoFinding =>
                     /\ Xe!PrimarySample(input).status = "explained"
                     /\ Xe!explainFindingPriority(f) = "high" => coverage.evidence = "execution_stats"
              /\ Xe!applyFindingToIssue(input).confidence > 1 => f.confidence > 1
              /\ \A i \in DOMAIN input :
                     Xe!compareLatency(input[i]) # "not_comparable" => coverage.evidence = "execution_stats"
    /\ algorithm = "signals" =>
          \A plan \in ExplainedPlans : Xe!Shown(plan) = Xe!Shown(input) =>
              Xe!parseExplainSignals(plan) = Xe!parseExplainSignals(input)

\* What a report m with counters left out may say, where all and full are the
\* counters and the rating of the whole report.
RatingHonest(m, all, rated, full, joined) ==
    LET lower == m.matched.lower
    IN  /\ \A c \in {"docs", "keys", "returned", "access", "matched"} :
               \/ ~Ef!Known(m[c]) \/ m[c] = all[c]
               \/ (m[c].lower /\ m[c].value <= all[c].value)
        /\ joined.docs \in {-1, 30} /\ joined.keys \in {-1, 30}
        /\ lower \/ rated.upper \/ rated.score = full.score
        /\ ~lower /\ rated.upper =>
               /\ rated.score >= full.score /\ rated.confidence = "low"
               /\ rated.band = "inefficient" => full.band = "inefficient"
               /\ rated.band = "moderate" => full.band # "efficient"
               /\ rated.band # "efficient"
        /\ lower /\ ~rated.upper => rated.score <= full.score /\ rated.confidence = "medium"

\* Nothing is guessed for what was not reported: a counter is the one of the
\* full report or unknown (or a bound, marked as one), so a score with missing
\* counters is at least the score with them, a band that is named for it is not
\* too good, and every other rating that is given would be given with
\* everything measured. The order of the table is one (normalizeExplainMetrics,
\* BuildQueryEfficiency, rateLatency, classifyExecutionOverhead).
NothingIsGuessed ==
    /\ algorithm = "rating" =>
          LET Metrics(out) == Ef!normalizeExplainMetrics(Report(input.kind, input.op, out), input.op)
              Sample(out, measured) ==
                  Explained(Report(input.kind, input.op, out), input.op, input.collscan, measured)
              Rating(outs) == Ef!BuildQueryEfficiency(
                  [op |-> input.op, status |-> "explained",
                   samples |-> [i \in 1..2 |-> Sample(outs[i], "structure" \notin outs[i])]])
          IN  RatingHonest(Metrics(input.out), Metrics({}),
                           Rating(<<input.out, input.other>>), Rating(<<{}, {}>>),
                           Ef!lookupMeasurement(input.op, <<Sample(input.out, TRUE)>>))
    /\ algorithm = "target" =>
          LET rating == Ef!rateLatency(input.measured, input.target)
              Filled == {f \in [{"avg", "p95", "p99"} -> {4, 5, 6, 20, 21}] :
                            \A k \in DOMAIN f : input.measured[k] # -1 => f[k] = input.measured[k]}
          IN  rating # "not_assessed" => \A f \in Filled : Ef!rateLatency(f, input.target) = rating
    /\ algorithm = "overhead" =>
          LET Overhead(known) == Ef!classifyExecutionOverhead("find",
                  [i \in 1..2 |-> [status |-> "explained",
                                   d |-> [stats |-> known[i], sort |-> input.sort[i],
                                          disk |-> input.disk[i] /\ known[i]]]])
              full == Overhead([i \in 1..2 |-> TRUE])
          IN  \/ Overhead(input.known) \in {"not_assessed", full}
              \/ Overhead(input.known) = "in_memory_sort" /\ full = "spilled_to_disk"
    /\ algorithm = "rows" =>
          LET a == input[1]
              b == input[2]
          IN  /\ Ef!RowBefore(a, b) => ~Ef!RowBefore(b, a)
              /\ \A c \in Rows : Ef!RowBefore(a, b) => Ef!RowBefore(a, c) \/ Ef!RowBefore(c, b)

\* An index that is called suitable serves the query: it begins with the
\* equality fields, gives the order without a sort, may be used, and, if its
\* filter was decoded whole, includes the query (a sparse index may still leave
\* out documents without its fields); a candidate serves its query itself, and
\* the advice never proposes one where a suitable index is used.
SuitableServes ==
    algorithm = "advice" =>
        LET plan == Ia!DeriveCandidate(input)
        IN  /\ ~input.unsupported => \A idx \in Indexes :
                   Ia!EvaluateIndex(idx, plan, input) = "suitable" =>
                       /\ Ia!Answers(idx, input) \/ idx.keys[1].dir = Ia!Hashed
                       /\ Ia!DecodedWhole(idx) => Ia!Includes(idx, input)
                       /\ Ia!AdviceKind(FALSE, TRUE, <<idx>>, FALSE, input) = "existing_index"
            /\ plan.determined /\ plan.keys # <<>> =>
                   /\ Ia!EvaluateIndex(Plain(plan.keys), plan, input) = "suitable"
                   /\ Ia!Answers(Plain(plan.keys), input)

\* Each operation of either replay is counted once, as matched or as missing,
\* the differences listed are the first ones, with their commands when a
\* recording is at hand, and the verdict on all latencies does not contradict
\* those of the shapes (compare.go).
ReportAccounts ==
    /\ algorithm = "comparison" =>
          \A b \in Sides({"replay", "deterministic"}, Operations(Others)) :
              \/ Rc!Refused(input, b, FALSE)
              \/ Rc!ReportAccounts(input, b) /\ Rc!CommandsFound(input, b, <<input>>)
    /\ algorithm = "latencies" =>
          Rc!LatencyFair(Timed(input, "replay", 1), Timed(input, "replay", 2))
=============================================================================
