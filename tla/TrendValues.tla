----------------------------- MODULE TrendValues -----------------------------
(***************************************************************************)
(* The literal commands a run keeps per shape, and their comparison with   *)
(* those of the baseline run (internal/stats/trend_values.go).  A command  *)
(* is a number, which is also its hash and the place of that hash in the   *)
(* sorted order; Bytes gives the length of its text.  A stored sample is   *)
(* [hash, bytes, text]: text is FALSE when only the hash is kept.  Latency *)
(* and role are left out: nothing is decided by them.                      *)
(***************************************************************************)
EXTENDS Integers, Sequences, FiniteSets, SequencesExt, FiniteSetsExt

CONSTANTS Bytes(_), MaxSampleBytes, MaxShapeBytes, MaxRunBytes, MaxRetained, MaxSamples

-----------------------------------------------------------------------------
(* One sample.  A retained operation is [op, query, collection, update,    *)
(* unordered, encodable, cmd].                                             *)

Updates == {"updateOne", "updateMany"}
Rebuilt == Updates \cup {"find", "deleteOne", "deleteMany", "aggregate"}

\* Why the command of a sample cannot be rebuilt, "" when it can.
TrendExecutedCommand(s) ==
    IF ~s.query THEN "executable_query_not_captured"
    ELSE IF ~s.collection THEN "collection_not_captured"
    ELSE CASE s.op \in Updates /\ ~s.update         -> "update_document_not_captured"
           [] s.op = "aggregate" /\ s.unordered     -> "sort_key_order_undefined"
           [] s.op \notin Rebuilt                   -> "unsupported_operation"
           [] OTHER                                 -> ""

SkipReason(s) ==
    IF TrendExecutedCommand(s) # "" THEN TrendExecutedCommand(s)
    ELSE IF s.encodable THEN "" ELSE "command_not_encodable"

\* newTrendValueSample, when there is no reason against it.
newTrendValueSample(s) ==
    [hash |-> s.cmd, bytes |-> Bytes(s.cmd), text |-> Bytes(s.cmd) <= MaxSampleBytes]

\* What the stored text takes.
Size(s) == IF s.text THEN s.bytes ELSE 0

-----------------------------------------------------------------------------
(* The builder.  A shape in progress is [samples, omitted, shape, run,     *)
(* notes] with the bytes taken of the shape's and of the run's limit.      *)

Seen(v) == {v.samples[i].hash : i \in DOMAIN v.samples}

Omit(v, note) == [v EXCEPT !.omitted = @ + 1, !.notes = @ \cup {note}]

LimitReached(v, s) ==
    CASE Len(v.samples) >= MaxSamples         -> "samples"
      [] /\ Len(v.samples) < MaxSamples
         /\ v.shape + Size(s) > MaxShapeBytes -> "shape"
      [] /\ Len(v.samples) < MaxSamples /\ v.shape + Size(s) <= MaxShapeBytes
         /\ v.run + Size(s) > MaxRunBytes     -> "run"
      [] OTHER                                -> ""

add(v, s) ==
    IF s.hash \in Seen(v) THEN v
    ELSE IF LimitReached(v, s) # "" THEN Omit(v, LimitReached(v, s))
    ELSE [v EXCEPT !.samples = Append(@, s), !.shape = @ + Size(s), !.run = @ + Size(s),
                   !.notes = IF s.text THEN @ ELSE @ \cup {"large"}]

AddAll(v, samples) == FoldLeft(add, v, samples)

\* A sample whose command cannot be rebuilt counts as omitted.
SkipAll(v, sources) ==
    FoldLeft(LAMBDA w, s : IF SkipReason(s) = "" THEN w ELSE Omit(w, SkipReason(s)), v, sources)

\* finishTrendValues: the hash of a shape is that of the set of its hashes.
finishTrendValues(samples, omitted, notes) ==
    [samples |-> samples, omitted |-> omitted, notes |-> notes,
     hash |-> {samples[i].hash : i \in DOMAIN samples},
     truncated |-> omitted > 0 \/ \E i \in DOMAIN samples : ~samples[i].text]

CanBeStored(sources) == SelectSeq(sources, LAMBDA s : SkipReason(s) = "")
Explained(sources)   == SelectSeq(sources, LAMBDA s : s.explained /\ s.query)

\* Mutant: the first retained samples are kept, in the order of retention.
RetainedInOrder(v, sources) ==
    LET new == SelectSeq(CanBeStored(sources), LAMBDA s : s.cmd \notin Seen(v))
        kept == SubSeq(new, 1, Min({MaxRetained, Len(new)}))
    IN  [i \in DOMAIN kept |-> newTrendValueSample(kept[i])]

\* The retained samples that are offered: of each new command one, smallest
\* hashes first, MaxRetained of them whether they then fit or not.
Retained(v, sources) ==
    LET new  == {s.cmd : s \in ToSet(CanBeStored(sources))} \ Seen(v)
        all  == SetToSortSeq(new, <)
        kept == SubSeq(all, 1, Min({MaxRetained, Len(all)}))
    IN  [i \in DOMAIN kept |->
            newTrendValueSample(CHOOSE s \in ToSet(CanBeStored(sources)) : s.cmd = kept[i])]

\* One row of the efficiency view: [explained, retained], each a sequence of
\* sources; run: what the rows above have taken of the run's limit.
BuildShape(row, run) ==
    LET empty     == [samples |-> <<>>, omitted |-> 0, shape |-> 0, run |-> run, notes |-> {}]
        explained == Explained(row.explained)
        first     == AddAll(SkipAll(empty, explained),
                            [i \in DOMAIN CanBeStored(explained) |->
                                newTrendValueSample(CanBeStored(explained)[i])])
        skipped   == SkipAll(first, row.retained)
    IN  AddAll(skipped, Retained(skipped, row.retained))

\* The rows in view order: the run's limit keeps the shapes ranked first.  A
\* row without a sample and without an omission is left out (<<>>).
BuildTrendQueryValues(rows) ==
    LET out(v) == IF v.samples = <<>> /\ v.omitted = 0 THEN <<>>
                  ELSE <<finishTrendValues(v.samples, v.omitted, v.notes)>>
        after(acc, v) == [run |-> v.run, shapes |-> Append(acc.shapes, out(v))]
        step(acc, row) == after(acc, BuildShape(row, acc.run))
    IN  FoldLeft(step, [run |-> 0, shapes |-> <<>>], rows).shapes

-----------------------------------------------------------------------------
(* A snapshot that is read back or imported.  A foreign sample is a stored *)
(* one with what its file claims: [hash, bytes, text, cmd, valid], with    *)
(* cmd the command of its text and hash 0 when it is not a hash.           *)

Acceptable(s) ==
    IF s.text THEN s.valid /\ Bytes(s.cmd) <= MaxSampleBytes ELSE s.hash # 0

\* The hash is that of the text when there is one.
Recomputed(s) ==
    IF s.text THEN [hash |-> s.cmd, bytes |-> Bytes(s.cmd), text |-> TRUE]
    ELSE [hash |-> s.hash, bytes |-> Max({s.bytes, 0}), text |-> FALSE]

\* Mutant: the hash in the file is believed.
RecomputedUnlessThere(s) ==
    IF s.text /\ s.hash = 0 THEN [hash |-> s.cmd, bytes |-> Bytes(s.cmd), text |-> TRUE]
    ELSE [hash |-> s.hash, bytes |-> Max({s.bytes, 0}), text |-> s.text]

sanitizeTrendQueryValues(v) ==
    LET step(acc, s) ==
            IF ~Acceptable(s)
            THEN Omit(acc, IF s.text THEN "invalid" ELSE "no_hash")
            ELSE LET t == Recomputed(s)
                 IN  IF t.hash \in Seen(acc) THEN acc
                     ELSE IF Len(acc.samples) >= MaxSamples \/ acc.shape + Size(t) > MaxShapeBytes
                          THEN Omit(acc, "above_limits")
                          ELSE [acc EXCEPT !.samples = Append(@, t), !.shape = @ + Size(t)]
        out == FoldLeft(step, [samples |-> <<>>, omitted |-> Max({v.omitted, 0}), shape |-> 0,
                               notes |-> v.notes], v.samples)
    IN  finishTrendValues(out.samples, out.omitted, out.notes)

-----------------------------------------------------------------------------
(* The comparison.  A side is <<>> (no snapshot) or <<values>>.  A run is  *)
(* [stored, dropped, fingerprint, recording], with 0 for no fingerprint    *)
(* and for no recording; <<>> is no run.                                   *)

Hashes(side) == UNION {side[i].hash : i \in DOMAIN side}

compareTrendValues(cur, base) ==
    LET match == Cardinality(Hashes(cur) \cap Hashes(base))
        state == CASE {} \in {Hashes(cur), Hashes(base)}             -> "not_recorded"
                   [] {} \notin {Hashes(cur), Hashes(base)} /\ match = 0 -> "different_values"
                   [] match > 0 /\ Hashes(cur) = Hashes(base)        -> "same_values"
                   [] OTHER                                          -> "overlapping"
    IN  [state |-> state, match |-> match]

\* trendValuesReason: why a side has no samples.
trendValuesReason(run, side) ==
    CASE Hashes(side) # {}                                          -> ""
      [] Hashes(side) = {} /\ run = <<>>                            -> "no_baseline_run"
      [] Hashes(side) = {} /\ run # <<>>                            ->
             IF run[1].dropped THEN "removed_for_size"
             ELSE IF ~run[1].stored THEN "was_off"
             ELSE IF side # <<>> /\ side[1].omitted > 0 THEN "left_out"
             ELSE "no_literal_sample"

\* The run of the baseline snapshot, 0 when nothing names one.
BaselineRunOf(base) ==
    LET named == SelectSeq(<<base.values, base.workload, base.efficiency>>, LAMBDA side : side # <<>>)
    IN  IF named = <<>> THEN 0 ELSE named[1][1].run

\* trendValuesRow; <<>> when neither run was recorded with values.  base is
\* [values, workload, efficiency], each <<>> or a snapshot with its run; runs
\* are the runs the store knows.
trendValuesRow(run, cur, base, runs) ==
    LET baseRun  == IF BaselineRunOf(base) \in DOMAIN runs THEN <<runs[BaselineRunOf(base)]>> ELSE <<>>
        compared == compareTrendValues(cur, base.values)
        Equal(a) == baseRun # <<>> /\ run[a] # 0 /\ run[a] = baseRun[1][a]
        Row(state, source) == <<[state |-> state, source |-> source, match |-> compared.match,
            current  |-> IF source = "" THEN trendValuesReason(<<run>>, cur) ELSE "",
            baseline |-> IF source = "" THEN trendValuesReason(baseRun, base.values) ELSE ""]>>
    IN  IF Equal("fingerprint") THEN Row("same_values", "same_generated_traffic")
        ELSE IF Equal("recording") THEN Row("same_values", "same_recording")
        ELSE IF run.stored \/ (baseRun # <<>> /\ baseRun[1].stored) THEN Row(compared.state, "")
        ELSE <<>>

=============================================================================
