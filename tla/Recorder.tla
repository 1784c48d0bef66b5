------------------------------- MODULE Recorder -------------------------------
(***************************************************************************)
(* The workload recorder (internal/workloadrec/writer.go) with the worker  *)
(* goroutines that call Record, its writer goroutine, and the controller   *)
(* that numbers the iterations and closes the file.  A call to Record is   *)
(* split where another goroutine can act in between: the state check, the  *)
(* non-blocking send, the blocking send, the compare-and-swap of a stop    *)
(* and the store of its reason.  Commands are abstracted to their number   *)
(* in the worker's stream, bytes to sizes drawn from small sets, and the   *)
(* sha256 of a stream to the sequence it hashes.                           *)
(***************************************************************************)
EXTENDS Naturals, Sequences, FiniteSets, RecordingFile

CONSTANTS
    Workers,        \* worker goroutines
    QueueSize,      \* Options.QueueSize: capacity of the channel
    Block,          \* Options.Backpressure = BackpressureBlock
    Iterations,     \* Header.Iterations of the run
    MaxBytes,       \* Options.MaxBytes, 0 is unlimited
    HeaderBytes,    \* bytes of the header line
    OpBytes,        \* possible sizes of an operation line
    TrailerBytes,   \* possible sizes of the trailer line
    Reserve,        \* Recorder.reserve: bytes kept free for the trailer
    Faults,         \* which failures may happen in this instance
    MaxOps          \* bound: operations one worker sends

ASSUME RecorderAssumption ==
    /\ QueueSize \in Nat \ {0}
    /\ Block \in BOOLEAN
    /\ Iterations \in Nat \ {0}
    /\ MaxBytes \in Nat /\ HeaderBytes \in Nat /\ Reserve \in Nat
    /\ OpBytes \subseteq Nat \ {0} /\ TrailerBytes \subseteq Nat \ {0}
    /\ Faults \subseteq {"encode", "write", "flush", "crash"}
    /\ MaxOps \in Nat
    \* NewRecorder refuses a limit smaller than the header.
    /\ MaxBytes > 0 => HeaderBytes <= MaxBytes

VARIABLES
    sent,       \* sent[w]: operations worker w has executed
    pc,         \* pc[w]: where worker w is inside its call of Record
    cause,      \* cause[w]: the reason worker w stops the recording for
    stamp,      \* stamp[w]: the iteration of the entry w is sending
    log,        \* every entry ever sent on the channel, in order
    taken,      \* how many of them the writer has received
    closed,     \* the channel is closed
    state,      \* Recorder.state
    reason,     \* Recorder.reason, None until a stop stores it
    wpc,        \* where the writer goroutine is
    wcause,     \* the reason the writer stops the recording for
    broken,     \* the buffered writer holds a sticky error
    file,       \* operation lines given to the buffered writer
    seq, workerSeq, hashes, iterOps, ops, bytes,   \* the writer's counters
    ctl,        \* the controller: running, closing, flushing, closed, crashed
    iteration,  \* Recorder.iteration
    trailer,    \* the trailer line given to the buffered writer
    disk,       \* what reached the file once the recorder is gone
    result      \* what Close returned

workerVars == <<sent, pc, cause, stamp>>
chanVars   == <<log, taken, closed>>
stateVars  == <<state, reason>>
writerVars == <<wpc, wcause, broken>>
fileVars   == <<file, seq, workerSeq, hashes, iterOps, ops, bytes>>
ctlVars    == <<ctl, iteration, trailer, disk, result>>
vars == <<workerVars, chanVars, stateVars, writerVars, fileVars, ctlVars>>

None == "none"
NoTrailer == [type |-> None]
Multi == Iterations > 1
HeaderIterations == IF Multi THEN Iterations ELSE 0
Causes == {"encode_error", "queue_full", "max_bytes", "write_error"}

\* The status a stop for cause c leaves.
StoppedState(c) == IF c = "max_bytes" THEN "truncated" ELSE "failed"

Idle == \A w \in Workers : pc[w] = "idle"
Full == Len(log) - taken >= QueueSize
Alive == ctl \in {"running", "closing"}

\* An entry on the channel: the n-th operation of a worker.
Entry(w) == [worker |-> w, n |-> sent[w], iter |-> stamp[w]]

Init ==
    /\ sent = [w \in Workers |-> 0]
    /\ pc = [w \in Workers |-> "idle"]
    /\ cause = [w \in Workers |-> None]
    /\ stamp = [w \in Workers |-> 0]
    /\ log = << >> /\ taken = 0 /\ closed = FALSE
    /\ state = "recording" /\ reason = None
    /\ wpc = "receive" /\ wcause = None /\ broken = FALSE
    /\ file = << >> /\ seq = 0 /\ ops = 0 /\ bytes = HeaderBytes
    /\ workerSeq = [w \in Workers |-> 0]
    /\ hashes = [w \in Workers |-> << >>]
    /\ iterOps = [i \in 1..Iterations |-> 0]
    /\ ctl = "running" /\ iteration = 1 /\ trailer = NoTrailer
    /\ disk = [lines |-> 0, trailer |-> FALSE]
    /\ result = [status |-> None, reason |-> None]

-----------------------------------------------------------------------------
(* Workers *)

\* The worker reads Active(), runs its operation against the server, and
\* calls Record if the recording was active.  When the ids of a raw batch
\* cannot be added to the command it calls Fail instead.
Execute(w) ==
    /\ ctl = "running" /\ pc[w] = "idle" /\ sent[w] < MaxOps
    /\ sent' = [sent EXCEPT ![w] = @ + 1]
    /\ \/ /\ state # "recording"
          /\ UNCHANGED <<pc, cause>>
       \/ /\ state = "recording"
          /\ pc' = [pc EXCEPT ![w] = "record"]
          /\ UNCHANGED cause
       \/ /\ state = "recording" /\ "encode" \in Faults
          /\ pc' = [pc EXCEPT ![w] = "stop"]
          /\ cause' = [cause EXCEPT ![w] = "encode_error"]
    /\ UNCHANGED <<stamp, chanVars, stateVars, writerVars, fileVars, ctlVars>>

\* Record: return if the recording has stopped, else encode the command and,
\* in a recording of several iterations, stamp the entry.
RecordEntry(w) ==
    /\ pc[w] = "record" /\ ctl = "running"
    /\ \/ /\ state # "recording"
          /\ pc' = [pc EXCEPT ![w] = "idle"]
          /\ UNCHANGED <<cause, stamp>>
       \/ /\ state = "recording"
          /\ pc' = [pc EXCEPT ![w] = "send"]
          /\ stamp' = [stamp EXCEPT ![w] = IF Multi THEN iteration ELSE 0]
          /\ UNCHANGED cause
       \/ /\ state = "recording" /\ "encode" \in Faults
          /\ pc' = [pc EXCEPT ![w] = "stop"]
          /\ cause' = [cause EXCEPT ![w] = "encode_error"]
          /\ UNCHANGED stamp
    /\ UNCHANGED <<sent, chanVars, stateVars, writerVars, fileVars, ctlVars>>

\* Mutant: a full queue drops the operation and the recording goes on.
TrySendOrDrop(w) ==
    /\ pc[w] = "send" /\ ctl = "running"
    /\ log' = IF Full THEN log ELSE Append(log, Entry(w))
    /\ pc' = [pc EXCEPT ![w] = "idle"]
    /\ UNCHANGED <<sent, cause, stamp, taken, closed, stateVars, writerVars, fileVars, ctlVars>>

\* The non-blocking send.
TrySend(w) ==
    /\ pc[w] = "send" /\ ctl = "running"
    /\ \/ /\ ~Full
          /\ log' = Append(log, Entry(w))
          /\ pc' = [pc EXCEPT ![w] = "idle"]
          /\ UNCHANGED cause
       \/ /\ Full /\ Block
          /\ pc' = [pc EXCEPT ![w] = "blocked"]
          /\ UNCHANGED <<log, cause>>
       \/ /\ Full /\ ~Block
          /\ pc' = [pc EXCEPT ![w] = "stop"]
          /\ cause' = [cause EXCEPT ![w] = "queue_full"]
          /\ UNCHANGED log
    /\ UNCHANGED <<sent, stamp, taken, closed, stateVars, writerVars, fileVars, ctlVars>>

\* The blocking send, released by the writer.
BlockedSend(w) ==
    /\ pc[w] = "blocked" /\ ctl = "running" /\ ~Full
    /\ log' = Append(log, Entry(w))
    /\ pc' = [pc EXCEPT ![w] = "idle"]
    /\ UNCHANGED <<sent, cause, stamp, taken, closed, stateVars, writerVars, fileVars, ctlVars>>

\* Mutant: stop stores the state without comparing it first.
WorkerStopAnyway(w) ==
    /\ pc[w] = "stop" /\ ctl = "running"
    /\ state' = StoppedState(cause[w])
    /\ pc' = [pc EXCEPT ![w] = "reason"]
    /\ UNCHANGED <<sent, cause, stamp, reason, chanVars, writerVars, fileVars, ctlVars>>

\* stop, on a worker: the compare-and-swap ...
WorkerStop(w) ==
    /\ pc[w] = "stop" /\ ctl = "running"
    /\ \/ /\ state = "recording"
          /\ state' = StoppedState(cause[w])
          /\ pc' = [pc EXCEPT ![w] = "reason"]
       \/ /\ state # "recording"
          /\ pc' = [pc EXCEPT ![w] = "idle"]
          /\ UNCHANGED state
    /\ UNCHANGED <<sent, cause, stamp, reason, chanVars, writerVars, fileVars, ctlVars>>

\* ... and the store of the reason, by the goroutine that won it.
WorkerReason(w) ==
    /\ pc[w] = "reason" /\ ctl = "running"
    /\ reason' = cause[w]
    /\ pc' = [pc EXCEPT ![w] = "idle"]
    /\ UNCHANGED <<sent, cause, stamp, state, chanVars, writerVars, fileVars, ctlVars>>

WorkerStep(w) ==
    \/ RecordEntry(w) \/ TrySend(w) \/ BlockedSend(w)
    \/ WorkerStop(w) \/ WorkerReason(w)

-----------------------------------------------------------------------------
(* The writer goroutine *)

\* Mutant: a receive that does not wait for an entry.
WriterReceiveAnything ==
    /\ wpc = "receive" /\ Alive
    /\ taken' = taken + 1
    /\ wpc' = "check"
    /\ UNCHANGED <<workerVars, log, closed, stateVars, wcause, broken, fileVars, ctlVars>>

WriterReceive ==
    /\ wpc = "receive" /\ Alive /\ taken < Len(log)
    /\ taken' = taken + 1
    /\ wpc' = "check"
    /\ UNCHANGED <<workerVars, log, closed, stateVars, wcause, broken, fileVars, ctlVars>>

\* Mutant: the writer does not look at the state again.
WriterCheckNothing ==
    /\ wpc = "check" /\ Alive
    /\ wpc' = "write"
    /\ UNCHANGED <<workerVars, chanVars, stateVars, wcause, broken, fileVars, ctlVars>>

\* Mutant: the writer goroutine returns after a stop instead of draining.
WriterCheckOrReturn ==
    /\ wpc = "check" /\ Alive
    /\ wpc' = IF state = "recording" THEN "write" ELSE "done"
    /\ UNCHANGED <<workerVars, chanVars, stateVars, wcause, broken, fileVars, ctlVars>>

\* After a stop the writer keeps draining and writes nothing.
WriterCheck ==
    /\ wpc = "check" /\ Alive
    /\ wpc' = IF state = "recording" THEN "write" ELSE "receive"
    /\ UNCHANGED <<workerVars, chanVars, stateVars, wcause, broken, fileVars, ctlVars>>

\* Mutant: the limit keeps no room for the trailer.
OverLimitWithoutReserve(b) == MaxBytes > 0 /\ bytes + b > MaxBytes

OverLimit(b) == MaxBytes > 0 /\ bytes + b + Reserve > MaxBytes

\* write, as far as the writer's own counters go.
WriteLine(e, b) ==
    /\ file' = Append(file, [type |-> "op", seq |-> seq + 1, worker |-> e.worker,
                             wseq |-> workerSeq[e.worker] + 1, iter |-> e.iter, n |-> e.n])
    /\ seq' = seq + 1
    /\ workerSeq' = [workerSeq EXCEPT ![e.worker] = @ + 1]
    /\ hashes' = [hashes EXCEPT ![e.worker] = Append(@, e.n)]
    /\ iterOps' = IF Multi THEN [iterOps EXCEPT ![e.iter] = @ + 1] ELSE iterOps
    /\ ops' = ops + 1
    /\ bytes' = bytes + b

\* Mutant: the limit does not take the counters back.
TruncateKeepsCounters ==
    /\ seq' = seq + 1
    /\ workerSeq' = [workerSeq EXCEPT ![log[taken].worker] = @ + 1]
    /\ UNCHANGED <<file, hashes, iterOps, ops, bytes>>

\* The counters the limit leaves behind: seq and workerSeq are taken back.
Truncate == UNCHANGED fileVars

WriterWrite ==
    /\ wpc = "write" /\ Alive
    /\ \E b \in OpBytes :
          /\ ~OverLimit(b)
          /\ WriteLine(log[taken], b)
    /\ wpc' = "receive"
    /\ UNCHANGED <<workerVars, chanVars, stateVars, wcause, broken, ctlVars>>

WriterTruncate ==
    /\ wpc = "write" /\ Alive
    /\ \E b \in OpBytes : OverLimit(b)
    /\ Truncate
    /\ wpc' = "stop" /\ wcause' = "max_bytes"
    /\ UNCHANGED <<workerVars, chanVars, stateVars, broken, ctlVars>>

\* The line does not encode (counters taken back), or the buffered writer
\* fails (counters kept; its error is sticky).
WriterFails ==
    /\ wpc = "write" /\ Alive
    /\ \/ /\ "encode" \in Faults
          /\ wcause' = "encode_error"
          /\ UNCHANGED <<fileVars, broken>>
       \/ /\ "write" \in Faults /\ \E b \in OpBytes : ~OverLimit(b)
          /\ wcause' = "write_error" /\ broken' = TRUE
          /\ seq' = seq + 1
          /\ workerSeq' = [workerSeq EXCEPT ![log[taken].worker] = @ + 1]
          /\ UNCHANGED <<file, hashes, iterOps, ops, bytes>>
    /\ wpc' = "stop"
    /\ UNCHANGED <<workerVars, chanVars, stateVars, ctlVars>>

WriterStop ==
    /\ wpc = "stop" /\ Alive
    /\ \/ /\ state = "recording"
          /\ state' = StoppedState(wcause)
          /\ wpc' = "reason"
       \/ /\ state # "recording"
          /\ wpc' = "receive"
          /\ UNCHANGED state
    /\ UNCHANGED <<workerVars, chanVars, reason, wcause, broken, fileVars, ctlVars>>

WriterReason ==
    /\ wpc = "reason" /\ Alive
    /\ reason' = wcause
    /\ wpc' = "receive"
    /\ UNCHANGED <<workerVars, chanVars, state, wcause, broken, fileVars, ctlVars>>

\* The range over the channel ends once it is closed and drained.
WriterExit ==
    /\ wpc = "receive" /\ Alive /\ closed /\ taken = Len(log)
    /\ wpc' = "done"
    /\ UNCHANGED <<workerVars, chanVars, stateVars, wcause, broken, fileVars, ctlVars>>

WriterStep ==
    \/ WriterReceive \/ WriterCheck \/ WriterWrite \/ WriterTruncate
    \/ WriterFails \/ WriterStop \/ WriterReason \/ WriterExit

-----------------------------------------------------------------------------
(* The controller: iterations and Close *)

\* Mutant: the next iteration starts while workers still record.
NextIterationEarly ==
    /\ ctl = "running" /\ iteration < Iterations
    /\ iteration' = iteration + 1
    /\ UNCHANGED <<workerVars, chanVars, stateVars, writerVars, fileVars,
                   ctl, trailer, disk, result>>

\* The next RunWorkload of the session; the workers of the last one are gone.
NextIteration ==
    /\ ctl = "running" /\ Idle /\ iteration < Iterations
    /\ iteration' = iteration + 1
    /\ UNCHANGED <<workerVars, chanVars, stateVars, writerVars, fileVars,
                   ctl, trailer, disk, result>>

\* Mutant: Close waits for the writer without closing the channel.
CloseForgetsChannel ==
    /\ ctl = "running" /\ Idle
    /\ ctl' = "closing"
    /\ UNCHANGED <<workerVars, chanVars, stateVars, writerVars, fileVars,
                   iteration, trailer, disk, result>>

\* Close, called once every worker has stopped calling Record.
CloseChannel ==
    /\ ctl = "running" /\ Idle
    /\ closed' = TRUE
    /\ ctl' = "closing"
    /\ UNCHANGED <<workerVars, log, taken, stateVars, writerVars, fileVars,
                   iteration, trailer, disk, result>>

FinalStatus == IF state = "recording" THEN "complete" ELSE state

TrailerLine == [type |-> "trailer", status |-> FinalStatus, reason |-> reason, ops |-> ops,
                workerOps |-> [w \in {v \in Workers : hashes[v] # << >>} |-> workerSeq[w]],
                workerHashes |-> [w \in {v \in Workers : hashes[v] # << >>} |-> hashes[w]],
                iterOps |-> IF Multi THEN iterOps ELSE << >>]

WriteTrailer ==
    /\ ctl = "closing" /\ wpc = "done"
    /\ \/ /\ ~broken
          /\ trailer' = TrailerLine
          /\ \E b \in TrailerBytes : bytes' = bytes + b
          /\ UNCHANGED broken
       \/ /\ broken \/ "write" \in Faults
          /\ broken' = TRUE
          /\ UNCHANGED <<trailer, bytes>>
    /\ ctl' = "flushing"
    /\ UNCHANGED <<workerVars, chanVars, stateVars, wpc, wcause, file, seq, workerSeq,
                   hashes, iterOps, ops, iteration, disk, result>>

\* What a writer that did not finish can leave on disk: some of the lines,
\* in order, and the trailer only after all of them.  A line cut in half
\* reads as the end of the file, so it is one line less.
Cut(d) ==
    /\ d.lines <= Len(file)
    /\ d.trailer => trailer # NoTrailer /\ ~broken /\ d.lines = Len(file)

Disks == [lines : 0..Len(file), trailer : BOOLEAN]

\* Flush, compressor close, sync and file close succeed ...
FlushAndClose ==
    /\ ctl = "flushing" /\ ~broken
    /\ disk' = [lines |-> Len(file), trailer |-> TRUE]
    /\ result' = [status |-> FinalStatus, reason |-> reason]
    /\ ctl' = "closed"
    /\ UNCHANGED <<workerVars, chanVars, stateVars, writerVars, fileVars, iteration, trailer>>

\* Mutant: a failed flush or sync is not reported.
FlushFailsSilently ==
    /\ ctl = "flushing" /\ (broken \/ "flush" \in Faults)
    /\ disk' \in {d \in Disks : Cut(d)}
    /\ result' = [status |-> FinalStatus, reason |-> reason]
    /\ ctl' = "closed"
    /\ UNCHANGED <<workerVars, chanVars, stateVars, writerVars, fileVars, iteration, trailer>>

\* ... or one of them fails, before or after the lines reached the disk.
FlushFails ==
    /\ ctl = "flushing" /\ (broken \/ "flush" \in Faults)
    /\ disk' \in {d \in Disks : Cut(d)}
    /\ result' = IF FinalStatus = "complete"
                 THEN [status |-> "failed", reason |-> "write_error"]
                 ELSE [status |-> FinalStatus, reason |-> reason]
    /\ ctl' = "closed"
    /\ UNCHANGED <<workerVars, chanVars, stateVars, writerVars, fileVars, iteration, trailer>>

CloseStep == WriteTrailer \/ FlushAndClose \/ FlushFails

\* The process dies.
Crash ==
    /\ "crash" \in Faults /\ ctl \in {"running", "closing", "flushing"}
    /\ disk' \in {d \in Disks : Cut(d)}
    /\ ctl' = "crashed"
    /\ UNCHANGED <<workerVars, chanVars, stateVars, writerVars, fileVars,
                   iteration, trailer, result>>

Ended == ctl \in {"closed", "crashed"}

Terminated == Ended /\ UNCHANGED vars

Next ==
    \/ \E w \in Workers : Execute(w) \/ WorkerStep(w)
    \/ WriterStep
    \/ NextIteration \/ CloseChannel \/ CloseStep
    \/ Crash
    \/ Terminated

Spec == Init /\ [][Next]_vars

\* The scheduler runs every goroutine that can run, and a channel serves the
\* goroutines blocked on it in turn.  Nothing makes a worker send another
\* operation or the controller close the file.
Fairness ==
    /\ \A w \in Workers : WF_vars(WorkerStep(w)) /\ SF_vars(BlockedSend(w))
    /\ WF_vars(WriterStep)
    /\ WF_vars(CloseStep)

FairSpec == Spec /\ Fairness

-----------------------------------------------------------------------------
(* Properties *)

OpEntry == [worker : Workers, n : Nat, iter : Nat]
OpLine == [type : {"op"}, seq : Nat, worker : Workers, wseq : Nat, iter : Nat, n : Nat]

WorkerTypes ==
    /\ sent \in [Workers -> Nat]
    /\ pc \in [Workers -> {"idle", "record", "send", "blocked", "stop", "reason"}]
    /\ cause \in [Workers -> Causes \cup {None}]
    /\ stamp \in [Workers -> 0..Iterations]

ChannelTypes ==
    /\ log \in Seq(OpEntry) /\ taken \in 0..Len(log) /\ closed \in BOOLEAN
    /\ Len(log) - taken <= QueueSize

WriterTypes ==
    /\ state \in {"recording", "truncated", "failed"}
    /\ reason \in Causes \cup {None}
    /\ wpc \in {"receive", "check", "write", "stop", "reason", "done"}
    /\ wcause \in Causes \cup {None} /\ broken \in BOOLEAN

FileTypes ==
    /\ file \in Seq(OpLine)
    /\ seq \in Nat /\ ops \in Nat /\ bytes \in Nat
    /\ workerSeq \in [Workers -> Nat]
    /\ hashes \in [Workers -> Seq(Nat)]
    /\ iterOps \in [1..Iterations -> Nat]

ControllerTypes ==
    /\ ctl \in {"running", "closing", "flushing", "closed", "crashed"}
    /\ iteration \in 1..Iterations
    /\ disk \in [lines : Nat, trailer : BOOLEAN]

\* The types of the recorder's variables.  The channel never holds more than
\* its capacity, and the writer never receives what was not sent.
TypeOK == WorkerTypes /\ ChannelTypes /\ WriterTypes /\ FileTypes /\ ControllerTypes

\* The file on disk, as a reader sees it.
DiskFile == SubSeq(file, 1, disk.lines) \o (IF disk.trailer THEN <<trailer>> ELSE << >>)

SameWorkerBefore(i) == {j \in 1..(i-1) : file[j].worker = file[i].worker}

(***************************************************************************)
(* FailurePolicy: "operations are never dropped silently, and the file     *)
(* keeps a prefix of every worker's stream".  The lines of a worker are    *)
(* its operations 1, 2, 3, ... in this order, without a gap, and are       *)
(* numbered so: although a dropped operation and the stop it causes are    *)
(* separate steps, other workers keep sending in between, and the channel  *)
(* still holds entries when the writer notices.                            *)
(***************************************************************************)
PrefixOfEveryWorker ==
    \A i \in 1..Len(file) :
        /\ file[i].wseq = file[i].n
        /\ \A j \in SameWorkerBefore(i) : file[j].n < file[i].n
        /\ \A m \in 1..(file[i].n - 1) : \E j \in SameWorkerBefore(i) : file[j].n = m

\* What is on disk holds operation m of worker w.
OnDisk(w, m) == \E i \in 1..disk.lines : file[i].worker = w /\ file[i].n = m

(***************************************************************************)
(* A file whose trailer says "complete" holds every operation any worker   *)
(* sent: "every operation is recorded" (BlockPolicy), "operations are      *)
(* never dropped silently" (FailurePolicy).                                *)
(***************************************************************************)
CompleteMeansEverything ==
    disk.trailer /\ trailer.status = "complete" =>
        \A w \in Workers : \A m \in 1..sent[w] : OnDisk(w, m)

\* Close never reports a complete recording that a reader would not find
\* complete: its result is decided after the trailer, the flush and the sync.
ResultIsOnDisk ==
    ctl = "closed" /\ result.status = "complete" =>
        disk.lines = Len(file) /\ ScanStatus(DiskFile) = "complete"

(***************************************************************************)
(* Whatever ends the recorder (Close, a failed write or flush, a crash in  *)
(* any step), Scan accepts the file: per-worker sequences run, iterations  *)
(* are in order although workers of one iteration queue entries            *)
(* concurrently, and a trailer counts the lines before it.                 *)
(***************************************************************************)
AlwaysReadable == Ended => Readable(DiskFile, HeaderIterations)

(***************************************************************************)
(* The trailer describes the file it ends: per worker the operation count  *)
(* and the hash of its command stream are those a replay of the file       *)
(* computes, and the per-iteration counts add up to the file.              *)
(***************************************************************************)
TrailerDescribesFile ==
    Ended /\ disk.trailer =>
        /\ DOMAIN trailer.workerOps = {file[i].worker : i \in 1..Len(file)}
        /\ \A w \in DOMAIN trailer.workerOps :
              LET stream == StreamOf(file, w)
              IN  /\ trailer.workerOps[w] = Len(stream)
                  /\ trailer.workerHashes[w] = [k \in 1..Len(stream) |-> stream[k].n]
        /\ Multi => \A it \in 1..Iterations :
              trailer.iterOps[it] = Cardinality({i \in 1..Len(file) : file[i].iter = it})

(***************************************************************************)
(* The reason Close reports is the one of the stop that won: a complete    *)
(* recording has none, a truncated one ran into the byte limit, a failed   *)
(* one never did, although every worker and the writer may be stopping the *)
(* recording at the same time.                                             *)
(***************************************************************************)
ReasonMatchesStatus ==
    ctl = "closed" =>
        /\ result.status = "complete" <=> result.reason = None
        /\ result.status = "truncated" <=> result.reason = "max_bytes"

\* With room for the header and the reserve, the file stays within the
\* limit whatever sizes the lines have: the reserve pays for the trailer.
WithinMaxBytes ==
    /\ MaxBytes > 0 /\ HeaderBytes + Reserve <= MaxBytes
    /\ \A b \in TrailerBytes : b <= Reserve
    => bytes <= MaxBytes

\* All of these: what Close and the trailer say of the file is so.
ResultDescribesFile ==
    /\ ResultIsOnDisk /\ AlwaysReadable /\ TrailerDescribesFile
    /\ ReasonMatchesStatus /\ WithinMaxBytes

\* Options.MaxBytes as documented: it "caps the uncompressed bytes written".
BytesCapped == MaxBytes > 0 => bytes <= MaxBytes

\* A worker blocked on the full channel gets through, also after a stop ("The
\* writer keeps draining after a stop, so this send always completes"), and
\* Close, which waits for that writer, returns.
SendsAndCloseReturn ==
    /\ \A w \in Workers : pc[w] = "blocked" ~> (pc[w] = "idle" \/ ctl = "crashed")
    /\ ctl = "closing" ~> Ended

(***************************************************************************)
(* The recorder implements the contract: the stream stored for a worker is *)
(* what its hash covers, and every step of every goroutine is a step of    *)
(* the contract or leaves it alone.                                        *)
(***************************************************************************)
ContractStatus ==
    IF ctl = "crashed" THEN "crashed"
    ELSE IF ctl = "closed" THEN result.status
    ELSE IF state = "recording" THEN "recording" ELSE "stopped"

Contract == INSTANCE RecordingContract
    WITH stored <- hashes, status <- ContractStatus

KeepsContract == Contract!CSpec

=============================================================================
