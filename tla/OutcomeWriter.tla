---------------------------- MODULE OutcomeWriter ----------------------------
(***************************************************************************)
(* The outcome file of a deterministic run (internal/workloadrec/outcome.go *)
(* and internal/mongo/workload_outcome.go): workers put outcome lines in a *)
(* bounded channel, one goroutine writes them through a buffer, and Close   *)
(* adds the trailer.  Inside a session the file spans every iteration.     *)
(* Lines are numbered by their worker; other data of a line is left out.   *)
(***************************************************************************)
EXTENDS Naturals, Sequences, FiniteSets

CONSTANTS
    OutcomeWorkers,
    OutcomeQueueSize,   \* DefaultQueueSize
    OutcomesPerWorker,  \* in an iteration
    OutcomeIterations   \* of the session

ASSUME OutcomeAssumption ==
    OutcomeQueueSize \in Nat \ {0} /\ OutcomesPerWorker \in Nat /\ OutcomeIterations \in Nat \ {0}

VARIABLES
    iteration,      \* of the session, and whether its workers are running
    counted,        \* counted[w]: outcomes of w so far
    waiters,        \* workers that wait in Write, with the line each holds
    channel,        \* w.ch
    buffer,         \* w.w, not yet written to the file
    outcomeFile,    \* the lines of the file
    sticky,         \* a write to the file failed: the buffer refuses all later ones
    broke,          \* w.failed
    cause,          \* w.reason
    writer,         \* the goroutine: "take", "fail" before the reason is stored, "done"
    ops, waits,
    outcomeResult   \* what Close returned

outcomeFileVars == <<buffer, outcomeFile, sticky>>
writerVars  == <<broke, cause, writer, ops>>
outcomeVars == <<iteration, counted, waiters, channel, outcomeFileVars, writerVars, waits,
                 outcomeResult>>

Header == [type |-> "header"]
Torn   == [type |-> "torn"]
Line(w, n) == [type |-> "outcome", worker |-> w, seq |-> n]
Open   == [status |-> "open"]

\* NewOutcomeWriter: the header is written and flushed.
OInit ==
    /\ iteration = 1
    /\ counted = [w \in OutcomeWorkers |-> 0]
    /\ waiters = {} /\ channel = <<>>
    /\ buffer = <<>> /\ outcomeFile = <<Header>> /\ sticky = FALSE
    /\ broke = FALSE /\ cause = "" /\ writer = "take" /\ ops = 0 /\ waits = 0
    /\ outcomeResult = Open

Running == iteration \in 1..OutcomeIterations

\* Write puts the line in the channel, or waits for room.
Write(w) ==
    /\ Running /\ \A l \in waiters : l.worker # w
    /\ counted[w] < iteration * OutcomesPerWorker
    /\ counted' = [counted EXCEPT ![w] = @ + 1]
    /\ IF Len(channel) < OutcomeQueueSize
       THEN channel' = Append(channel, Line(w, counted'[w])) /\ UNCHANGED waiters
       ELSE waiters' = waiters \cup {Line(w, counted'[w])} /\ UNCHANGED channel
    /\ UNCHANGED <<iteration, outcomeFileVars, writerVars, waits, outcomeResult>>

Queued(l) ==
    /\ l \in waiters /\ Len(channel) < OutcomeQueueSize
    /\ channel' = Append(channel, l) /\ waiters' = waiters \ {l} /\ waits' = waits + 1
    /\ UNCHANGED <<iteration, counted, outcomeFileVars, writerVars, outcomeResult>>

\* writeLine: the line stays in the buffer or the buffer is written out; a
\* write that fails leaves a part of it in the file, and every later one fails.
WriteLine(line, error) ==
    IF sticky \/ error
    THEN /\ sticky' = TRUE /\ buffer' = <<>>
         /\ \/ UNCHANGED outcomeFile
            \/ ~sticky /\ \E n \in 0..Len(buffer) :
                   outcomeFile' = outcomeFile \o SubSeq(buffer, 1, n) \o <<Torn>>
    ELSE /\ UNCHANGED sticky
         /\ \/ buffer' = Append(buffer, line) /\ UNCHANGED outcomeFile
            \/ buffer' = <<>> /\ outcomeFile' = outcomeFile \o Append(buffer, line)

\* run takes a line; after a failure it only empties the channel.
Take(error) ==
    /\ writer = "take" /\ channel # <<>>
    /\ channel' = Tail(channel)
    /\ IF broke THEN UNCHANGED <<outcomeFileVars, writerVars>>
       ELSE /\ WriteLine(Head(channel), error)
            /\ broke' = sticky' /\ UNCHANGED cause
            /\ ops' = IF sticky' THEN ops ELSE ops + 1
            /\ writer' = IF sticky' THEN "fail" ELSE "take"
    /\ UNCHANGED <<iteration, counted, waiters, waits, outcomeResult>>

\* fail: the reason is stored after the flag.
Fail ==
    /\ writer = "fail"
    /\ cause' = "write_error" /\ writer' = "take"
    /\ UNCHANGED <<iteration, counted, waiters, channel, outcomeFileVars, broke, ops, waits,
                   outcomeResult>>

\* The workers of an iteration have stopped, at its end or before (wg.Wait).
\* deterministicOutcomeWriter: a later iteration goes on in the same file.
EndIteration ==
    /\ Running /\ waiters = {}
    /\ \/ /\ \A w \in OutcomeWorkers : counted[w] = iteration * OutcomesPerWorker
          /\ iteration' = iteration + 1
       \/ iteration' = OutcomeIterations + 2
    /\ UNCHANGED <<counted, waiters, channel, outcomeFileVars, writerVars, waits, outcomeResult>>

\* Close has closed the channel: the range loop ends when it is empty.
Drained ==
    /\ ~Running /\ channel = <<>> /\ writer = "take"
    /\ writer' = "done"
    /\ UNCHANGED <<iteration, counted, waiters, channel, outcomeFileVars, broke, cause, ops,
                   waits, outcomeResult>>

\* The status of the traffic: it is complete when every iteration ran to its end.
TrafficStatus == IF iteration = OutcomeIterations + 1 THEN "complete" ELSE "stopped"

Trailer(status, reason) ==
    [type |-> "trailer", status |-> status, reason |-> reason, ops |-> ops, waits |-> waits]

\* The trailer, the flush and the sync; an error makes the result failed.
Seal(error) ==
    LET status == IF broke THEN "failed" ELSE TrafficStatus
        tail   == Append(buffer, Trailer(status, cause))
    IN  /\ IF sticky THEN UNCHANGED outcomeFileVars
           ELSE /\ buffer' = <<>> /\ sticky' = error
                /\ IF ~error THEN outcomeFile' = outcomeFile \o tail
                   ELSE \E n \in 0..Len(tail), torn \in {<<>>, <<Torn>>} :
                            outcomeFile' = outcomeFile \o SubSeq(tail, 1, n)
                                           \o (IF n < Len(tail) THEN torn ELSE <<>>)
        /\ outcomeResult' =
               [status |-> IF sticky' THEN "failed" ELSE status,
                reason |-> IF status # "failed" /\ sticky' THEN "write_error" ELSE cause,
                ops |-> ops, waits |-> waits]

\* Mutant: Close does not wait for the goroutine.
CloseWithoutDone(error) ==
    /\ ~Running /\ outcomeResult = Open
    /\ Seal(error)
    /\ UNCHANGED <<iteration, counted, waiters, channel, writerVars, waits>>

Close(error) ==
    /\ writer = "done" /\ outcomeResult = Open
    /\ Seal(error)
    /\ UNCHANGED <<iteration, counted, waiters, channel, writerVars, waits>>

WorkerStep == \E w \in OutcomeWorkers : Write(w)
WriterStep == \/ \E l \in waiters : Queued(l)
              \/ \E error \in BOOLEAN : Take(error) \/ Close(error)
              \/ Fail \/ Drained

ONext == WorkerStep \/ WriterStep \/ EndIteration

OSpec == OInit /\ [][ONext]_outcomeVars /\ WF_outcomeVars(WriterStep)

-----------------------------------------------------------------------------
(* The reader. *)

\* StreamOutcomes: where the outcomes and the trailer are that it reads, before
\* the first bad line.
StreamOutcomes(lines) ==
    LET bad == {i \in 2..Len(lines) :
                   \/ lines[i].type \notin {"outcome", "trailer"}
                   \/ \E j \in 2..(i - 1) : lines[j].type = "trailer"}
        last == IF bad = {} THEN Len(lines) ELSE (CHOOSE i \in bad : \A j \in bad : i <= j) - 1
        Read(type) == {i \in 2..last : lines[i].type = type}
    IN  [outcomes |-> Read("outcome"), trailer |-> Read("trailer"), error |-> bad # {}]

\* Snapshot, while the run works.
Snapshot == [status |-> IF broke THEN "failed" ELSE "recording", reason |-> cause, ops |-> ops]

-----------------------------------------------------------------------------
OTypeOK ==
    /\ iteration \in 1..(OutcomeIterations + 2)
    /\ Len(channel) <= OutcomeQueueSize /\ writer \in {"take", "fail", "done"}
    /\ broke \in BOOLEAN /\ sticky \in BOOLEAN

\* The outcomes of worker w among the lines that were read.
OutcomesOf(w, read) == {i \in read : outcomeFile[i].worker = w}

InOrder(w, read) ==
    \A i \in OutcomesOf(w, read) :
        outcomeFile[i].seq = Cardinality({j \in OutcomesOf(w, read) : j <= i})

\* A file whose trailer says complete holds every outcome of every worker, in
\* the order of each, and as many as the trailer counts; a result that is not
\* failed is in the file, and a failed one has a reason (Close).
OutcomeFileTrue ==
    LET file == StreamOutcomes(outcomeFile)
    IN  /\ \A w \in OutcomeWorkers : InOrder(w, file.outcomes)
        /\ \A t \in file.trailer :
               /\ outcomeFile[t].ops = Cardinality(file.outcomes) /\ ~file.error
               /\ outcomeFile[t].status = "complete" =>
                     \A w \in OutcomeWorkers :
                         Cardinality(OutcomesOf(w, file.outcomes))
                             = OutcomeIterations * OutcomesPerWorker
        /\ outcomeResult # Open =>
               IF outcomeResult.status = "failed" THEN outcomeResult.reason # ""
               ELSE \E t \in file.trailer : outcomeFile[t].status = outcomeResult.status
        /\ outcomeResult = Open => Snapshot.ops >= Cardinality(file.outcomes)

\* Close returns, whatever the file did.
OutcomeQuiet == Running \/ outcomeResult # Open
OutcomeClosed == []<>OutcomeQuiet
=============================================================================
