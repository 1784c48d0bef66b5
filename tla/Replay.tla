-------------------------------- MODULE Replay --------------------------------
(***************************************************************************)
(* A replay of a recording (internal/mongo/workload_replay.go,             *)
(* runWorkloadReplay): the goroutine that reads the file hands every       *)
(* operation to the queue of its worker and waits between iterations until *)
(* the wait group "pending" is zero; the workers send what their queues    *)
(* hold; the first error or panic cancels all of them.  An operation goes  *)
(* by its line number.                                                     *)
(***************************************************************************)
EXTENDS RecordingFile

CONSTANTS
    Workers,    \* number of workers of the recordings (info.Workers)
    Setups,     \* what a replay may find: file, configuration, options
    QueueSize,  \* replayQueueSize
    Faults      \* what may go wrong: "scan", "outcome", "read", "exec",
                \* "panic", "monitor"

WorkerID == 1..Workers

ASSUME ReplayAssumption ==
    /\ Workers \in Nat \ {0} /\ QueueSize \in Nat \ {0}
    /\ Faults \subseteq {"scan", "outcome", "read", "exec", "panic", "monitor"}
    /\ \A s \in Setups :
           /\ s.matches \in BOOLEAN /\ s.allow \in BOOLEAN
           /\ s.timed \in BOOLEAN /\ s.readsOnly \in BOOLEAN
           /\ s.lines \in Seq([type : {"op", "trailer"}, worker : Nat, wseq : Nat,
                               iter : Nat, write : BOOLEAN, ops : Nat, status : STRING])
           /\ Readable(s.lines, s.iterations)
           /\ \A i \in DOMAIN s.lines : IsOp(s.lines[i]) => s.lines[i].worker \in WorkerID

VARIABLES
    setup,      \* the recording and the configuration of this replay
    ctl,        \* where runWorkloadReplay is
    pos,        \* the line Stream reads next
    iteration,  \* iteration
    streamErr,  \* streamErr: "none", "cancelled" (runCtx.Err()), "error"
    skipped,    \* skipped
    pending,    \* the counter of the wait group pending
    queue,      \* queues
    wpc,        \* wpc[w]: where worker w is
    cur,        \* cur[w]: the operation replayOne handles, 0 for none
    sent,       \* hashes: sent[w] are the operations in the hash of w
    stopped,    \* the context of the run is done
    cancelled,  \* cancel was called
    execErr,    \* execErr # nil
    panicErr,   \* panicErr # nil
    report,     \* rep as the collector has it: Status and CommandsHashMatch
    lost        \* operations that ran into an error or a panic (history)

feederVars == <<ctl, pos, iteration, streamErr, skipped>>
workVars   == <<wpc, cur>>
errVars    == <<execErr, panicErr, cancelled>>
vars == <<setup, feederVars, pending, queue, workVars, sent, stopped, errVars, report, lost>>

lines == setup.lines

RunCtxDone == stopped \/ cancelled

Init ==
    /\ setup \in Setups
    /\ ctl = "scan" /\ pos = 1 /\ iteration = 0 /\ streamErr = "none" /\ skipped = 0
    /\ pending = 0
    /\ queue = [w \in WorkerID |-> << >>]
    /\ wpc = [w \in WorkerID |-> "idle"]
    /\ cur = [w \in WorkerID |-> 0]
    /\ sent = [w \in WorkerID |-> << >>]
    /\ stopped = FALSE /\ cancelled = FALSE /\ execErr = FALSE /\ panicErr = FALSE
    /\ report = [status |-> "none", match |-> "uncompared"]
    /\ lost = {}

-----------------------------------------------------------------------------
(* The goroutine of runWorkloadReplay.                                     *)

\* replayMismatches, the fingerprint check and the recording's status.
Mismatched ==
    ~setup.matches \/ ScanStatus(lines) \notin {"complete", "truncated"}

Refuse ==
    /\ ctl = "scan"
    /\ (Mismatched /\ ~setup.allow) \/ "scan" \in Faults
    /\ ctl' = "ended"
    /\ UNCHANGED <<setup, pos, iteration, streamErr, skipped, pending, queue, workVars,
                   sent, stopped, errVars, report, lost>>

\* SetWorkloadReplay(&rep), then the outcome file, the monitor, the workers.
Start ==
    /\ ctl = "scan"
    /\ Mismatched => setup.allow
    /\ report' = [report EXCEPT !.status = "running"]
    /\ \/ ctl' = "read"
       \/ "outcome" \in Faults /\ ctl' = "ended"
    /\ UNCHANGED <<setup, pos, iteration, streamErr, skipped, pending, queue, workVars,
                   sent, stopped, errVars, lost>>

\* Stream returns; what follows closes the queues and waits for the workers.
EndStream(err) == ctl' = "join" /\ streamErr' = err

StreamCancelled ==
    /\ ctl = "read" /\ RunCtxDone
    /\ EndStream("cancelled")
    /\ UNCHANGED <<setup, pos, iteration, skipped, pending, queue, workVars, sent, stopped,
                   errVars, report, lost>>

\* The file can no longer be read, or is no longer the one Scan read.
ReadFails ==
    /\ ctl = "read" /\ ~RunCtxDone /\ "read" \in Faults
    /\ EndStream("error")
    /\ UNCHANGED <<setup, pos, iteration, skipped, pending, queue, workVars, sent, stopped,
                   errVars, report, lost>>

ReadEnd ==
    /\ ctl = "read" /\ ~RunCtxDone /\ pos > Len(lines)
    /\ EndStream("none")
    /\ UNCHANGED <<setup, pos, iteration, skipped, pending, queue, workVars, sent, stopped,
                   errVars, report, lost>>

SkipsWrite(i) == setup.readsOnly /\ lines[i].write

\* The trailer, or a write that a reads-only replay leaves out.
ReadOther ==
    /\ ctl = "read" /\ ~RunCtxDone /\ pos <= Len(lines)
    /\ ~IsOp(lines[pos]) \/ SkipsWrite(pos)
    /\ skipped' = IF IsOp(lines[pos]) THEN skipped + 1 ELSE skipped
    /\ pos' = pos + 1
    /\ UNCHANGED <<setup, ctl, iteration, streamErr, pending, queue, workVars, sent, stopped,
                   errVars, report, lost>>

\* Mutant: an operation is not counted before it is handed over.
ReadOpUncounted ==
    /\ ctl = "read" /\ ~RunCtxDone /\ pos <= Len(lines)
    /\ IsOp(lines[pos]) /\ ~SkipsWrite(pos)
    /\ ctl' = IF OpIteration(lines[pos]) # iteration THEN "barrier" ELSE "send"
    /\ UNCHANGED <<setup, pos, iteration, streamErr, skipped, pending, queue, workVars, sent,
                   stopped, errVars, report, lost>>

\* An operation of another iteration goes through pending.Wait first.
ReadOp ==
    /\ ctl = "read" /\ ~RunCtxDone /\ pos <= Len(lines)
    /\ IsOp(lines[pos]) /\ ~SkipsWrite(pos)
    /\ IF OpIteration(lines[pos]) # iteration
       THEN ctl' = "barrier" /\ pending' = pending
       ELSE ctl' = "send" /\ pending' = pending + 1
    /\ UNCHANGED <<setup, pos, iteration, streamErr, skipped, queue, workVars, sent, stopped,
                   errVars, report, lost>>

\* Mutant: pending.Wait is missing.
PassBarrierAtOnce ==
    /\ ctl = "barrier"
    /\ iteration' = OpIteration(lines[pos])
    /\ pending' = pending + 1
    /\ ctl' = "send"
    /\ UNCHANGED <<setup, pos, streamErr, skipped, queue, workVars, sent, stopped, errVars,
                   report, lost>>

PassBarrier ==
    /\ ctl = "barrier" /\ pending = 0
    /\ iteration' = OpIteration(lines[pos])
    /\ pending' = pending + 1
    /\ ctl' = "send"
    /\ UNCHANGED <<setup, pos, streamErr, skipped, queue, workVars, sent, stopped, errVars,
                   report, lost>>

Send ==
    /\ ctl = "send"
    /\ LET w == lines[pos].worker IN
           /\ Len(queue[w]) < QueueSize
           /\ queue' = [queue EXCEPT ![w] = Append(@, pos)]
    /\ pos' = pos + 1
    /\ ctl' = "read"
    /\ UNCHANGED <<setup, iteration, streamErr, skipped, pending, workVars, sent, stopped,
                   errVars, report, lost>>

\* Mutant: a cancelled send stays counted.
SendCancelledCounted ==
    /\ ctl = "send" /\ RunCtxDone
    /\ EndStream("cancelled")
    /\ UNCHANGED <<setup, pos, iteration, skipped, pending, queue, workVars, sent, stopped,
                   errVars, report, lost>>

SendCancelled ==
    /\ ctl = "send" /\ RunCtxDone
    /\ pending' = pending - 1
    /\ EndStream("cancelled")
    /\ UNCHANGED <<setup, pos, iteration, skipped, queue, workVars, sent, stopped, errVars,
                   report, lost>>

\* replayed and info.Ops.
Replayed == Cardinality(UNION {{<<w, i>> : i \in DOMAIN sent[w]} : w \in WorkerID})

\* Mutant: only a panic or a stream error fails the replay.
EndStatusWithoutExec ==
    IF panicErr THEN "failed"
    ELSE IF streamErr # "none" THEN IF stopped THEN "cancelled" ELSE "failed"
    ELSE IF stopped /\ Replayed + skipped < OpCount(lines) THEN "cancelled"
    ELSE "complete"

\* Mutant: every stream error fails the replay, the one of a stop included.
EndStatusStreamFirst ==
    IF panicErr \/ execErr \/ streamErr # "none" THEN "failed"
    ELSE IF stopped /\ Replayed + skipped < OpCount(lines) THEN "cancelled"
    ELSE "complete"

EndStatus ==
    IF panicErr \/ execErr THEN "failed"
    ELSE IF streamErr # "none" THEN IF stopped THEN "cancelled" ELSE "failed"
    ELSE IF stopped /\ Replayed + skipped < OpCount(lines) THEN "cancelled"
    ELSE "complete"

\* The commands hash, when it is compared with the trailer's.
HashMatch ==
    IF skipped > 0 \/ ScanStatus(lines) = "incomplete" THEN "uncompared"
    ELSE IF \A w \in WorkerID :
                [k \in DOMAIN sent[w] |-> lines[sent[w][k]]] = StreamOf(lines, w)
         THEN "equal" ELSE "different"

\* wg.Wait returned: the rest of runWorkloadReplay.
Join ==
    /\ ctl = "join"
    /\ \A w \in WorkerID : wpc[w] = "done"
    /\ report' = [status |-> EndStatus, match |-> HashMatch]
    /\ ctl' = "ended"
    /\ UNCHANGED <<setup, pos, iteration, streamErr, skipped, pending, queue, workVars, sent,
                   stopped, errVars, lost>>

-----------------------------------------------------------------------------
(* The workers.  The queues are closed as soon as Stream has returned.     *)

Launched == ctl \notin {"scan", "ended"}
Closed == ctl = "join"

Goto(w, where) == wpc' = [wpc EXCEPT ![w] = where]

Take(w) ==
    /\ Launched /\ wpc[w] = "idle" /\ queue[w] # << >>
    /\ cur' = [cur EXCEPT ![w] = Head(queue[w])]
    /\ queue' = [queue EXCEPT ![w] = Tail(@)]
    /\ Goto(w, "check")
    /\ UNCHANGED <<setup, feederVars, pending, sent, stopped, errVars, report, lost>>

\* The range over the queue ends, in the worker or in its deferred drain.
Exit(w) ==
    /\ wpc[w] \in {"idle", "drain"} /\ queue[w] = << >> /\ Closed
    /\ Goto(w, "done")
    /\ UNCHANGED <<setup, feederVars, pending, queue, cur, sent, stopped, errVars, report,
                   lost>>

\* Mutant: a worker does not look at the context before it sends.
CheckNothing(w) ==
    /\ wpc[w] = "check"
    /\ Goto(w, "exec")
    /\ UNCHANGED <<setup, feederVars, pending, queue, cur, sent, stopped, errVars, report,
                   lost>>

\* replayOne up to the send: a cancelled replay sends nothing more, a timed
\* one waits for the offset of an operation that is not late.
Check(w) ==
    /\ wpc[w] = "check"
    /\ IF RunCtxDone THEN Goto(w, "finish")
       ELSE \/ Goto(w, "exec")
            \/ setup.timed /\ Goto(w, "timer")
    /\ UNCHANGED <<setup, feederVars, pending, queue, cur, sent, stopped, errVars, report,
                   lost>>

\* The select of replayOne; with both channels ready it takes either.
TimerEnds(w) ==
    /\ wpc[w] = "timer"
    /\ Goto(w, "exec") \/ (RunCtxDone /\ Goto(w, "finish"))
    /\ UNCHANGED <<setup, feederVars, pending, queue, cur, sent, stopped, errVars, report,
                   lost>>

\* replayExecFn returns without an error, whether the server took it or not.
ExecReturns(w) ==
    /\ wpc[w] = "exec"
    /\ sent' = [sent EXCEPT ![w] = Append(@, cur[w])]
    /\ Goto(w, "finish")
    /\ UNCHANGED <<setup, feederVars, pending, queue, cur, stopped, errVars, report, lost>>

ExecFails(w) ==
    /\ wpc[w] = "exec" /\ "exec" \in Faults
    /\ execErr' = TRUE
    /\ lost' = lost \cup {cur[w]}
    /\ Goto(w, "cancel")
    /\ UNCHANGED <<setup, feederVars, pending, queue, cur, sent, stopped, panicErr, cancelled,
                   report>>

\* Mutant: an operation that cannot be sent does not cancel the replay.
CancelNothing(w) ==
    /\ wpc[w] = "cancel"
    /\ Goto(w, "finish")
    /\ UNCHANGED <<setup, feederVars, pending, queue, cur, sent, stopped, errVars, report,
                   lost>>

Cancel(w) ==
    /\ wpc[w] = "cancel"
    /\ cancelled' = TRUE
    /\ Goto(w, "finish")
    /\ UNCHANGED <<setup, feederVars, pending, queue, cur, sent, stopped, execErr, panicErr,
                   report, lost>>

\* The deferred pending.Done of replayOne.
Finish(w) ==
    /\ wpc[w] = "finish"
    /\ pending' = pending - 1
    /\ cur' = [cur EXCEPT ![w] = 0]
    /\ Goto(w, "idle")
    /\ UNCHANGED <<setup, feederVars, queue, sent, stopped, errVars, report, lost>>

\* A panic runs the deferred pending.Done before the worker recovers.
Panic(w) ==
    /\ wpc[w] = "exec" /\ "panic" \in Faults
    /\ pending' = pending - 1
    /\ lost' = lost \cup {cur[w]}
    /\ cur' = [cur EXCEPT ![w] = 0]
    /\ Goto(w, "recover")
    /\ UNCHANGED <<setup, feederVars, queue, sent, stopped, errVars, report>>

\* reportPanic.
Recover(w) ==
    /\ wpc[w] = "recover"
    /\ panicErr' = TRUE /\ cancelled' = TRUE
    /\ Goto(w, "drain")
    /\ UNCHANGED <<setup, feederVars, pending, queue, cur, sent, stopped, execErr, report,
                   lost>>

\* Mutant: a worker that panicked empties its queue without pending.Done.
DrainCounted(w) ==
    /\ wpc[w] = "drain" /\ queue[w] # << >>
    /\ queue' = [queue EXCEPT ![w] = Tail(@)]
    /\ UNCHANGED <<setup, feederVars, pending, workVars, sent, stopped, errVars, report, lost>>

Drain(w) ==
    /\ wpc[w] = "drain" /\ queue[w] # << >>
    /\ queue' = [queue EXCEPT ![w] = Tail(@)]
    /\ pending' = pending - 1
    /\ UNCHANGED <<setup, feederVars, workVars, sent, stopped, errVars, report, lost>>

-----------------------------------------------------------------------------

\* The monitor goroutine panics: reportPanic from outside the workers.
MonitorPanics ==
    /\ Launched /\ "monitor" \in Faults /\ ~panicErr
    /\ panicErr' = TRUE /\ cancelled' = TRUE
    /\ UNCHANGED <<setup, feederVars, pending, queue, workVars, sent, stopped, execErr, report,
                   lost>>

\* The run is stopped from outside.
Stop ==
    /\ ~stopped /\ ctl # "ended"
    /\ stopped' = TRUE
    /\ UNCHANGED <<setup, feederVars, pending, queue, workVars, sent, errVars, report, lost>>

Ended == ctl = "ended" /\ UNCHANGED vars

ReaderStep ==
    \/ Refuse \/ Start \/ StreamCancelled \/ ReadFails \/ ReadEnd \/ ReadOther \/ ReadOp
    \/ PassBarrier \/ Send \/ SendCancelled \/ Join

WorkerStep(w) ==
    \/ Take(w) \/ Exit(w) \/ Check(w) \/ TimerEnds(w) \/ ExecReturns(w) \/ ExecFails(w)
    \/ Cancel(w) \/ Finish(w) \/ Panic(w) \/ Recover(w) \/ Drain(w)

Next ==
    \/ ReaderStep
    \/ \E w \in WorkerID : WorkerStep(w)
    \/ MonitorPanics \/ Stop \/ Ended

Spec == Init /\ [][Next]_vars

\* Goroutines are scheduled, operations return, timers fire.
Fairness == WF_vars(ReaderStep) /\ \A w \in WorkerID : WF_vars(WorkerStep(w))

FairSpec == Spec /\ Fairness

-----------------------------------------------------------------------------
(* Properties.                                                             *)

\* The operations this replay has to send.
Plan == {i \in DOMAIN lines : IsOp(lines[i]) /\ ~SkipsWrite(i)}

\* Operations of the plan the reader has handed to a queue, by position.
Queued(w) == {queue[w][k] : k \in DOMAIN queue[w]}
Sent(w) == {sent[w][k] : k \in DOMAIN sent[w]}
Ran == UNION {Sent(w) : w \in WorkerID}

\* The types of all variables but pending.
Types ==
    /\ setup \in Setups
    /\ ctl \in {"scan", "read", "barrier", "send", "join", "ended"}
    /\ pos \in 1..Len(lines) + 1
    /\ iteration \in Nat
    /\ streamErr \in {"none", "cancelled", "error"}
    /\ skipped \in Nat
    /\ wpc \in [WorkerID -> {"idle", "check", "timer", "exec", "cancel", "finish",
                             "recover", "drain", "done"}]
    /\ cur \in [WorkerID -> {0} \cup DOMAIN lines]
    /\ queue \in [WorkerID -> Seq(DOMAIN lines)]
    /\ \A w \in WorkerID : Len(queue[w]) <= QueueSize
    /\ sent \in [WorkerID -> Seq(DOMAIN lines)]
    /\ stopped \in BOOLEAN /\ cancelled \in BOOLEAN
    /\ execErr \in BOOLEAN /\ panicErr \in BOOLEAN
    /\ report \in [status : {"none", "running", "complete", "cancelled", "failed"},
                   match : {"uncompared", "equal", "different"}]
    /\ lost \subseteq DOMAIN lines

\* Every variable keeps its type; the counter of the wait group, which panics
\* below zero, never gets there.
TypeOK == Types /\ pending \in Nat

\* pending counts each operation handed to a worker and not yet finished exactly
\* once, on every way out of replayOne, of the reader's select and of the drain;
\* when the replay has ended nothing is outstanding (comment above pending).
PendingIsOutstanding ==
    pending = Cardinality(UNION {Queued(w) : w \in WorkerID})
              + Cardinality({w \in WorkerID : cur[w] # 0})
              + (IF ctl = "send" THEN 1 ELSE 0)

\* Also that no counter leaves its range: what pending.Wait waits for is there.
BarrierSound == TypeOK /\ PendingIsOutstanding

\* While an operation is being sent, every operation of an earlier iteration is
\* over: sent, or lost to a panic (pending.Wait in the reader).
OneIterationAtATime ==
    \A w \in WorkerID :
        wpc[w] = "exec" =>
            \A p \in Plan :
                OpIteration(lines[p]) < OpIteration(lines[cur[w]]) => p \in Ran \cup lost

\* What a worker has sent is a prefix of its operations in the recording, in
\* every mode and whatever fails, so a partial replay is comparable.
WorkerSendsPrefix ==
    \A w \in WorkerID :
        /\ \A p \in Plan :
               lines[p].worker = w /\ (\E q \in Sent(w) : p <= q) => p \in Sent(w)
        /\ Sent(w) \subseteq {p \in Plan : lines[p].worker = w}
        /\ \A k, l \in DOMAIN sent[w] : k < l => sent[w][k] < sent[w][l]

\* A replay is complete only when every operation was sent or skipped, and then
\* the commands hash, if it is compared, is the recording's.
CompleteMeansReplayed ==
    report.status = "complete" =>
        /\ Ran = Plan /\ lost = {}
        /\ report.match # "different"

\* Stopping a run never reads as a failure, and a failure never as a stop: a
\* failed replay had an error of its own, a cancelled one had none in a worker.
StatusTellsWhy ==
    /\ report.status = "failed" => execErr \/ panicErr \/ streamErr = "error"
    /\ report.status = "cancelled" => stopped /\ lost = {}

\* Both: the status at the end is true of what was sent.
StatusTrue == CompleteMeansReplayed /\ StatusTellsWhy

\* The replay ends, also when a worker panics while the reader waits for the
\* iteration or for room in that worker's queue.
ReplayEnds == <>(ctl = "ended")

Contract ==
    INSTANCE ReplayContract
    WITH plan <- [p \in Plan |-> [worker |-> lines[p].worker, iter |-> OpIteration(lines[p])]],
         ran <- Ran,
         status <- report.status

\* The replay keeps the promises of the documentation (ReplayContract).
KeepsContract == Contract!CSpec
=============================================================================
