---------------------------- MODULE RecordingFile ----------------------------
(***************************************************************************)
(* A workload recording as its reader sees it (internal/workloadrec,       *)
(* reader.go).  The header line always comes first and is written before   *)
(* anything else, so a file is the sequence of the lines after it: one     *)
(* line per operation and at most one trailer.                             *)
(***************************************************************************)
EXTENDS Naturals, Sequences, FiniteSets

\* OpLine: what Scan looks at in an operation line.
IsOp(line) == line.type = "op"

\* Trailer: the last line of a finished recording.
IsTrailer(line) == line.type = "trailer"

\* Positions of the operation lines of worker w among the first k lines.
OpsOf(lines, w, k) == {i \in 1..k : IsOp(lines[i]) /\ lines[i].worker = w}

OpCount(lines) == Cardinality({i \in 1..Len(lines) : IsOp(lines[i])})

\* OpIteration: a line without an iteration belongs to the first one.
OpIteration(line) == IF line.iter < 1 THEN 1 ELSE line.iter

(***************************************************************************)
(* The rules of Scan, each over the whole file: per-worker sequence        *)
(* numbers run 1, 2, 3, ...; iterations never go back and never exceed     *)
(* what the header announces (0: a recording of one iteration); nothing    *)
(* follows the trailer, whose operation count is the file's.               *)
(***************************************************************************)
WorkerSeqsRun(lines) ==
    \A i \in 1..Len(lines) :
        IsOp(lines[i]) =>
            lines[i].wseq = Cardinality(OpsOf(lines, lines[i].worker, i))

IterationsInOrder(lines, headerIterations) ==
    \A i \in 1..Len(lines) :
        IsOp(lines[i]) =>
            /\ headerIterations > 0 => OpIteration(lines[i]) <= headerIterations
            /\ \A j \in 1..(i-1) :
                   IsOp(lines[j]) => OpIteration(lines[j]) <= OpIteration(lines[i])

TrailerFits(lines) ==
    \A i \in 1..Len(lines) :
        IsTrailer(lines[i]) => i = Len(lines) /\ lines[i].ops = OpCount(lines)

\* Scan returns no error.
Readable(lines, headerIterations) ==
    /\ WorkerSeqsRun(lines)
    /\ IterationsInOrder(lines, headerIterations)
    /\ TrailerFits(lines)

\* The status Scan reports: the trailer's, "incomplete" without one.
ScanStatus(lines) ==
    IF lines # << >> /\ IsTrailer(lines[Len(lines)])
    THEN lines[Len(lines)].status
    ELSE "incomplete"

(***************************************************************************)
(* The command streams a replay of the file sends: per worker, the         *)
(* operation lines in file order (Stream).                                 *)
(***************************************************************************)
StreamOf(lines, w) ==
    LET own == OpsOf(lines, w, Len(lines))
        At(k) == CHOOSE i \in own : Cardinality(OpsOf(lines, w, i)) = k
    IN  [k \in 1..Cardinality(own) |-> lines[At(k)]]
=============================================================================
