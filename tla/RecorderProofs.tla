---------------------------- MODULE RecorderProofs ----------------------------
(***************************************************************************)
(* Proofs about Recorder, for every number of workers, queue size, policy, *)
(* byte limit and set of faults: the types, the prefix property, the       *)
(* meaning of a complete recording, the refinement of the contract, and    *)
(* what the trailer says of the file.                                      *)
(*                                                                         *)
(* The argument.  The channel delivers entries in the order they were      *)
(* sent, and the writer writes each one or stops, so the file is a prefix  *)
(* of the log (FileInv).  A worker only sends operation n when it saw the  *)
(* recording active after operation n-1 had been dealt with, so its        *)
(* entries on the log are 1, 2, 3, ... without a gap, even after a stop    *)
(* (LogInv, SenderInv).  Every operation that is not on the log was        *)
(* dropped by a worker that has stopped the recording, or is about to; so  *)
(* when the recording is still active at Close, nothing is missing.        *)
(***************************************************************************)
EXTENDS Recorder, FiniteSetTheorems, TLAPS

Logged(w, m) == \E i \in 1..Len(log) : log[i].worker = w /\ log[i].n = m

\* The entries of a worker on the log are its operations 1, 2, 3, ...
LogInv ==
    \A i \in 1..Len(log) :
        /\ log[i].n \in 1..sent[log[i].worker]
        /\ \A j \in 1..(i-1) :
              log[j].worker = log[i].worker => log[j].n < log[i].n
        /\ \A m \in 1..(log[i].n - 1) :
              \E j \in 1..(i-1) : log[j].worker = log[i].worker /\ log[j].n = m

\* What a worker in Record still owes the log.
SenderClauses(w) ==
    /\ pc[w] \in {"record", "send", "blocked", "stop"} =>
          /\ sent[w] >= 1
          /\ \A i \in 1..Len(log) : log[i].worker = w => log[i].n < sent[w]
    /\ pc[w] \in {"send", "blocked"} \/ (state = "recording" /\ pc[w] # "idle") =>
          \A m \in 1..(sent[w] - 1) : Logged(w, m)
    /\ state = "recording" /\ pc[w] = "idle" =>
          \A m \in 1..sent[w] : Logged(w, m)
    /\ pc[w] = "reason" => state # "recording"

SenderInv == \A w \in Workers : SenderClauses(w)

\* The file is a prefix of the log; the writer holds at most one entry.
FileInv ==
    /\ Len(file) <= taken
    /\ \A i \in 1..Len(file) :
          /\ file[i].worker = log[i].worker
          /\ file[i].n = log[i].n
          /\ file[i].wseq = log[i].n
    /\ wpc = "check" => Len(file) < taken
    /\ wpc = "write" => Len(file) = taken - 1
    /\ wpc = "check" /\ state = "recording" => Len(file) = taken - 1
    /\ wpc \in {"receive", "done"} /\ state = "recording" => Len(file) = taken
    /\ wpc = "reason" => state # "recording"

\* The writer's counters describe the file.
CounterInv ==
    /\ wpc = "write" => ~broken
    /\ broken => wpc \in {"stop", "done"} \/ state # "recording"
    /\ ~broken => \A w \in Workers : workerSeq[w] = Len(hashes[w])
    /\ \A w \in Workers : \A k \in 1..Len(hashes[w]) :
          /\ hashes[w][k] = k
          /\ \E i \in 1..Len(file) : file[i].worker = w /\ file[i].n = k
    /\ \A i \in 1..Len(file) : file[i].n <= Len(hashes[file[i].worker])

\* What Close relies on.
CloseInv ==
    /\ ctl = "running" => ~closed
    /\ ctl \in {"closing", "flushing", "closed"} => closed
    /\ closed => Idle
    /\ wpc = "done" => closed /\ taken = Len(log)
    /\ ctl \in {"flushing", "closed"} => wpc = "done"
    /\ ctl = "flushing" /\ ~broken => trailer # NoTrailer
    /\ trailer # NoTrailer =>
          /\ wpc = "done"
          /\ trailer.type = "trailer"
          /\ trailer.status = FinalStatus
          /\ ctl \notin {"running", "closing"}
    /\ disk.trailer => trailer # NoTrailer /\ disk.lines = Len(file)
    /\ ctl = "closed" /\ result.status = "complete" =>
          state = "recording" /\ disk.trailer

IInv == LogInv /\ SenderInv /\ FileInv /\ CounterInv /\ CloseInv

-----------------------------------------------------------------------------
(* Types *)

\* TypeOK does not say what the steps between a receive and a write, and
\* between a failure and the store of its reason, rely on.
CauseTypes ==
    /\ \A w \in Workers : pc[w] \in {"stop", "reason"} => cause[w] \in Causes
    /\ wpc \in {"stop", "reason"} => wcause \in Causes
    /\ wpc \in {"check", "write"} => taken > 0

TypeInv == TypeOK /\ CauseTypes

\* NewRecorder leaves every variable in its type.
LEMMA TypeInit == Init => TypeInv
<1> SUFFICES ASSUME Init PROVE TypeInv
  OBVIOUS
<1>1. WorkerTypes
  BY RecorderAssumption DEF Init, WorkerTypes
<1>2. ControllerTypes /\ WriterTypes
  <2>1. closed \in BOOLEAN /\ broken \in BOOLEAN
    BY DEF Init
  <2>2. WriterTypes
    BY <2>1 DEF Init, WriterTypes
  <2> QED
    BY <2>2, RecorderAssumption DEF Init, ControllerTypes
<1>3. ChannelTypes
  <2>1. log = << >> /\ taken = 0
    BY DEF Init
  <2>2. closed \in BOOLEAN
    BY DEF Init
  <2>3. Len(log) = 0 /\ log \in Seq(OpEntry)
    BY <2>1
  <2> QED
    BY <2>1, <2>2, <2>3, RecorderAssumption DEF ChannelTypes
<1>4. FileTypes
  BY RecorderAssumption DEF Init, FileTypes
<1>5. CauseTypes
  BY DEF Init, CauseTypes
<1> QED
  BY <1>1, <1>2, <1>3, <1>4, <1>5 DEF TypeInv, TypeOK

\* What a step leaves alone keeps its types.
LEMMA TypeFrame ==
  ASSUME TypeOK
  PROVE  /\ UNCHANGED workerVars => WorkerTypes'
         /\ UNCHANGED chanVars => ChannelTypes'
         /\ UNCHANGED <<stateVars, writerVars>> => WriterTypes'
         /\ UNCHANGED fileVars => FileTypes'
         /\ UNCHANGED <<ctl, iteration, disk>> => ControllerTypes'
<1>1. UNCHANGED workerVars => WorkerTypes'
  BY DEF TypeOK, WorkerTypes, workerVars
<1>2. UNCHANGED chanVars => ChannelTypes'
  BY DEF TypeOK, ChannelTypes, chanVars
<1>3. UNCHANGED <<stateVars, writerVars>> => WriterTypes'
  BY DEF TypeOK, WriterTypes, stateVars, writerVars
<1>4. UNCHANGED fileVars => FileTypes'
  BY DEF TypeOK, FileTypes, fileVars
<1>5. UNCHANGED <<ctl, iteration, disk>> => ControllerTypes'
  BY DEF TypeOK, ControllerTypes
<1> QED
  BY <1>1, <1>2, <1>3, <1>4, <1>5

\* A send that finds room keeps the types of the channel.
LEMMA TypeSend ==
  ASSUME TypeOK, NEW w \in Workers, ~Full,
         log' = Append(log, Entry(w)), UNCHANGED <<taken, closed>>
  PROVE  ChannelTypes'
<1>1. Entry(w) \in OpEntry
  BY RecorderAssumption DEF Entry, OpEntry, TypeOK, WorkerTypes
<1> QED
  BY <1>1, RecorderAssumption DEF Full, TypeOK, ChannelTypes

\* A step of a worker keeps the types.
LEMMA TypeWorker ==
  ASSUME TypeInv, NEW w \in Workers, Execute(w) \/ WorkerStep(w)
  PROVE  TypeInv'
<1> USE TypeFrame, RecorderAssumption DEF TypeInv, TypeOK
<1>1. CASE Execute(w)
  <2>1. WorkerTypes'
    BY <1>1 DEF Execute, WorkerTypes, Causes
  <2>2. CauseTypes'
    BY <1>1 DEF Execute, WorkerTypes, CauseTypes, Causes, chanVars, writerVars
  <2> QED
    BY <1>1, <2>1, <2>2 DEF Execute, ctlVars
<1>2. CASE RecordEntry(w)
  <2>1. WorkerTypes'
    BY <1>2 DEF RecordEntry, WorkerTypes, ControllerTypes, Causes
  <2>2. CauseTypes'
    BY <1>2 DEF RecordEntry, WorkerTypes, CauseTypes, Causes, chanVars, writerVars
  <2> QED
    BY <1>2, <2>1, <2>2 DEF RecordEntry, ctlVars
<1>3. CASE TrySend(w)
  <2>1. WorkerTypes' /\ CauseTypes'
    BY <1>3 DEF TrySend, WorkerTypes, CauseTypes, Causes, writerVars
  <2>2. ChannelTypes'
    BY <1>3, TypeSend DEF TrySend, chanVars
  <2> QED
    BY <1>3, <2>1, <2>2 DEF TrySend, ctlVars
<1>4. CASE BlockedSend(w)
  <2>1. WorkerTypes' /\ CauseTypes'
    BY <1>4 DEF BlockedSend, WorkerTypes, CauseTypes, writerVars
  <2>2. ChannelTypes'
    BY <1>4, TypeSend DEF BlockedSend
  <2> QED
    BY <1>4, <2>1, <2>2 DEF BlockedSend, ctlVars
<1>5. CASE WorkerStop(w)
  <2>1. WorkerTypes' /\ CauseTypes'
    BY <1>5 DEF WorkerStop, WorkerTypes, CauseTypes, chanVars, writerVars
  <2>2. WriterTypes'
    BY <1>5 DEF WorkerStop, StoppedState, WriterTypes, writerVars
  <2> QED
    BY <1>5, <2>1, <2>2 DEF WorkerStop, ctlVars
<1>6. CASE WorkerReason(w)
  <2>1. WorkerTypes' /\ CauseTypes'
    BY <1>6 DEF WorkerReason, WorkerTypes, CauseTypes, chanVars, writerVars
  <2>2. WriterTypes'
    BY <1>6 DEF WorkerReason, WriterTypes, CauseTypes, writerVars
  <2> QED
    BY <1>6, <2>1, <2>2 DEF WorkerReason, ctlVars
<1> QED
  BY <1>1, <1>2, <1>3, <1>4, <1>5, <1>6 DEF WorkerStep

\* Counting an entry keeps a function of counters one.
LEMMA Increment ==
  ASSUME NEW S, NEW f \in [S -> Nat], NEW x
  PROVE  [f EXCEPT ![x] = @ + 1] \in [S -> Nat]
<1> DEFINE g == [y \in S |-> IF y = x THEN f[x] + 1 ELSE f[y]]
<1>1. g \in [S -> Nat]
  OBVIOUS
<1>2. [f EXCEPT ![x] = @ + 1] = g
  OBVIOUS
<1> QED
  BY <1>1, <1>2

\* A step of the writer keeps the types.
LEMMA TypeWriter ==
  ASSUME TypeInv, WriterStep
  PROVE  TypeInv'
<1> USE TypeFrame, RecorderAssumption DEF TypeInv, TypeOK
<1>1. UNCHANGED workerVars
  BY DEF WriterStep, WriterReceive, WriterCheck, WriterWrite, WriterTruncate,
         WriterFails, WriterStop, WriterReason, WriterExit
<1>2. UNCHANGED ctlVars
  BY DEF WriterStep, WriterReceive, WriterCheck, WriterWrite, WriterTruncate,
         WriterFails, WriterStop, WriterReason, WriterExit
<1>3. WorkerTypes' /\ ControllerTypes'
  BY <1>1, <1>2 DEF ctlVars
<1>4. (\A w \in Workers : pc[w] \in {"stop", "reason"} => cause[w] \in Causes)'
  BY <1>1 DEF CauseTypes, workerVars
<1>5. wpc = "write" => log[taken] \in OpEntry
  BY DEF CauseTypes, ChannelTypes
<1>6. ChannelTypes' /\ FileTypes'
  <2>1. CASE WriterReceive
    BY <2>1 DEF WriterReceive, ChannelTypes
  <2>2. CASE WriterWrite
    <3>1. PICK b \in OpBytes : WriteLine(log[taken], b)
      BY <2>2 DEF WriterWrite
    <3> DEFINE e == log[taken]
               line == [type |-> "op", seq |-> seq + 1, worker |-> e.worker,
                        wseq |-> workerSeq[e.worker] + 1, iter |-> e.iter, n |-> e.n]
    <3>2. e.worker \in Workers /\ e.n \in Nat /\ e.iter \in Nat
      BY <1>5, <2>2 DEF WriterWrite, OpEntry
    <3>3. line \in OpLine
      <4>1. workerSeq[e.worker] + 1 \in Nat /\ seq + 1 \in Nat
        BY <3>2 DEF FileTypes
      <4> HIDE DEF e
      <4> QED
        BY <3>2, <4>1 DEF OpLine
    <3>4. file' \in Seq(OpLine)
      <4>1. file' = Append(file, line)
        BY <3>1 DEF WriteLine
      <4> QED
        BY <3>3, <4>1 DEF FileTypes
    <3>5. seq' \in Nat /\ ops' \in Nat /\ bytes' \in Nat
      BY <3>1 DEF WriteLine, FileTypes
    <3>6. workerSeq' \in [Workers -> Nat]
      <4>1. workerSeq' = [workerSeq EXCEPT ![e.worker] = @ + 1]
        BY <3>1 DEF WriteLine
      <4>2. workerSeq \in [Workers -> Nat]
        BY DEF FileTypes
      <4> QED
        BY <4>1, <4>2, Increment
    <3>7. hashes' \in [Workers -> Seq(Nat)]
      <4>1. hashes' = [hashes EXCEPT ![e.worker] = Append(@, e.n)]
        BY <3>1 DEF WriteLine
      <4>2. Append(hashes[e.worker], e.n) \in Seq(Nat)
        BY <3>2 DEF FileTypes
      <4> QED
        BY <3>2, <4>1, <4>2 DEF FileTypes
    <3>8. iterOps' \in [1..Iterations -> Nat]
      <4>1. iterOps' = iterOps \/ iterOps' = [iterOps EXCEPT ![e.iter] = @ + 1]
        BY <3>1 DEF WriteLine
      <4>2. iterOps \in [1..Iterations -> Nat]
        BY DEF FileTypes
      <4> HIDE DEF e
      <4>3. [iterOps EXCEPT ![e.iter] = @ + 1] \in [1..Iterations -> Nat]
        BY <4>2, Increment
      <4> QED
        BY <4>1, <4>2, <4>3
    <3> QED
      BY <2>2, <3>4, <3>5, <3>6, <3>7, <3>8 DEF WriterWrite, FileTypes
  <2>3. CASE WriterFails
    <3>1. UNCHANGED <<chanVars, file, hashes, iterOps, ops, bytes>>
      BY <2>3 DEF WriterFails, fileVars
    <3>2. /\ seq' = seq \/ seq' = seq + 1
          /\ \/ workerSeq' = workerSeq
             \/ workerSeq' = [workerSeq EXCEPT ![log[taken].worker] = @ + 1]
      BY <2>3 DEF WriterFails, fileVars
    <3> QED
      BY <3>1, <3>2, Increment DEF FileTypes
  <2>4. CASE WriterCheck \/ WriterTruncate \/ WriterStop \/ WriterReason \/ WriterExit
    BY <2>4 DEF WriterCheck, WriterTruncate, Truncate, WriterStop, WriterReason, WriterExit
  <2> QED
    BY <2>1, <2>2, <2>3, <2>4 DEF WriterStep
<1>7. WriterTypes' /\ (wpc \in {"stop", "reason"} => wcause \in Causes)'
  <2> USE DEF WriterTypes, CauseTypes, Causes, stateVars
  <2>1. CASE WriterReceive
    BY <2>1 DEF WriterReceive
  <2>2. CASE WriterCheck
    BY <2>2 DEF WriterCheck
  <2>3. CASE WriterWrite
    BY <2>3 DEF WriterWrite
  <2>4. CASE WriterTruncate
    BY <2>4 DEF WriterTruncate
  <2>5. CASE WriterFails
    BY <2>5 DEF WriterFails
  <2>6. CASE WriterStop
    BY <2>6 DEF WriterStop, StoppedState
  <2>7. CASE WriterReason
    BY <2>7 DEF WriterReason
  <2>8. CASE WriterExit
    BY <2>8 DEF WriterExit
  <2> QED
    BY <2>1, <2>2, <2>3, <2>4, <2>5, <2>6, <2>7, <2>8 DEF WriterStep
<1>8. (wpc \in {"check", "write"} => taken > 0)'
  <2>1. CASE WriterReceive
    BY <2>1 DEF WriterReceive, ChannelTypes
  <2>2. CASE WriterCheck
    BY <2>2 DEF WriterCheck, chanVars, CauseTypes
  <2>3. CASE WriterWrite \/ WriterTruncate \/ WriterFails \/ WriterStop
             \/ WriterReason \/ WriterExit
    BY <2>3 DEF WriterWrite, WriterTruncate, WriterFails, WriterStop,
                WriterReason, WriterExit
  <2> QED
    BY <2>1, <2>2, <2>3 DEF WriterStep
<1> QED
  BY <1>3, <1>4, <1>6, <1>7, <1>8 DEF CauseTypes

\* A step of the controller, or a crash, keeps the types.
LEMMA TypeController ==
  ASSUME TypeInv, NextIteration \/ CloseChannel \/ CloseStep \/ Crash \/ Terminated
  PROVE  TypeInv'
<1> USE TypeFrame, RecorderAssumption DEF TypeInv, TypeOK
<1>1. UNCHANGED <<workerVars, stateVars, wpc, wcause, log, taken>>
  BY DEF NextIteration, CloseChannel, CloseStep, WriteTrailer, FlushAndClose,
         FlushFails, Crash, Terminated, chanVars, writerVars, vars
<1>2. WorkerTypes' /\ CauseTypes'
  BY <1>1 DEF CauseTypes, workerVars
<1>3. ChannelTypes'
  <2>1. closed' \in BOOLEAN
    BY DEF NextIteration, CloseChannel, CloseStep, WriteTrailer, FlushAndClose,
           FlushFails, Crash, Terminated, chanVars, vars, ChannelTypes
  <2> QED
    BY <1>1, <2>1 DEF ChannelTypes
<1>4. WriterTypes'
  <2>1. broken' \in BOOLEAN
    BY DEF NextIteration, CloseChannel, CloseStep, WriteTrailer, FlushAndClose,
           FlushFails, Crash, Terminated, writerVars, vars, WriterTypes
  <2> QED
    BY <1>1, <2>1 DEF WriterTypes, stateVars
<1>5. FileTypes' /\ ControllerTypes'
  <2>1. CASE NextIteration
    BY <2>1 DEF NextIteration, ControllerTypes
  <2>2. CASE CloseChannel
    BY <2>2 DEF CloseChannel, ControllerTypes
  <2>3. CASE WriteTrailer
    BY <2>3 DEF WriteTrailer, FileTypes, ControllerTypes
  <2>4. ASSUME NEW d \in Disks, ctl' \in {"closed", "crashed"}, disk' = d,
               UNCHANGED <<fileVars, iteration>>
        PROVE  FileTypes' /\ ControllerTypes'
    BY <2>4 DEF FileTypes, ControllerTypes, Disks
  <2>5. CASE FlushAndClose
    <3>1. [lines |-> Len(file), trailer |-> TRUE] \in Disks
      BY DEF Disks, FileTypes
    <3> QED
      BY <2>4, <2>5, <3>1 DEF FlushAndClose
  <2>6. CASE FlushFails \/ Crash
    BY <2>4, <2>6 DEF FlushFails, Crash
  <2>7. CASE Terminated
    BY <2>7 DEF Terminated, vars, ctlVars
  <2> QED
    BY <2>1, <2>2, <2>3, <2>5, <2>6, <2>7 DEF CloseStep
<1> QED
  BY <1>2, <1>3, <1>4, <1>5

\* Every step keeps the types.
LEMMA TypeStep == TypeInv /\ [Next]_vars => TypeInv'
<1>1. ASSUME TypeInv, UNCHANGED vars PROVE TypeInv'
  BY <1>1, TypeFrame DEF vars, TypeInv, TypeOK, CauseTypes, workerVars, chanVars,
                        writerVars, ctlVars
<1> QED
  BY <1>1, TypeWorker, TypeWriter, TypeController DEF Next

\* The variables keep their types in every reachable state, whatever the
\* number of workers, the queue size and the faults.
THEOREM TypeCorrect == Spec => []TypeOK
<1>1. Spec => []TypeInv
  BY TypeInit, TypeStep, PTL DEF Spec
<1> QED
  BY <1>1, PTL DEF TypeInv

-----------------------------------------------------------------------------
(* The invariant: a step of a worker *)

\* The invariant holds before any worker has sent anything.
LEMMA InvInit == Init => IInv
<1> SUFFICES ASSUME Init PROVE IInv
  OBVIOUS
<1>1. Len(log) = 0 /\ Len(file) = 0 /\ taken = 0 /\ wpc = "receive"
  BY DEF Init
<1>2. \A w \in Workers : sent[w] = 0 /\ pc[w] = "idle" /\ workerSeq[w] = 0 /\ hashes[w] = << >>
  BY DEF Init
<1>3. LogInv /\ SenderInv
  BY <1>1, <1>2 DEF LogInv, SenderInv, SenderClauses
<1>4. FileInv /\ CounterInv
  BY <1>1, <1>2 DEF Init, FileInv, CounterInv
<1>5. CloseInv
  <2>1. ~closed /\ ~broken /\ ctl = "running" /\ trailer = NoTrailer /\ ~disk.trailer
    BY DEF Init
  <2> QED
    BY <1>1, <2>1 DEF CloseInv
<1> QED
  BY <1>3, <1>4, <1>5 DEF IInv

\* What an entry of the log is.
LEMMA LogEntries ==
  ASSUME TypeOK
  PROVE  /\ Len(log) \in Nat
         /\ \A i \in 1..Len(log) :
               log[i].worker \in Workers /\ log[i].n \in Nat /\ sent[log[i].worker] \in Nat
<1>1. Len(log) \in Nat /\ \A i \in 1..Len(log) : log[i] \in OpEntry
  BY DEF TypeOK, ChannelTypes
<1>2. \A v \in Workers : sent[v] \in Nat
  BY DEF TypeOK, WorkerTypes
<1> QED
  BY <1>1, <1>2 DEF OpEntry

\* Sending more operations does not disturb what is logged.
LEMMA LogFrame ==
  ASSUME TypeOK, LogInv, UNCHANGED log,
         \A v \in Workers : sent'[v] = sent[v] \/ sent'[v] = sent[v] + 1
  PROVE  LogInv'
<1> SUFFICES ASSUME NEW i \in 1..Len(log)
             PROVE  /\ log[i].n \in 1..sent'[log[i].worker]
                    /\ \A j \in 1..(i-1) :
                          log[j].worker = log[i].worker => log[j].n < log[i].n
                    /\ \A m \in 1..(log[i].n - 1) :
                          \E j \in 1..(i-1) : log[j].worker = log[i].worker /\ log[j].n = m
  BY DEF LogInv
<1>1. log[i].n \in 1..sent[log[i].worker]
  BY DEF LogInv
<1>2. log[i].n \in 1..sent'[log[i].worker]
  BY <1>1, LogEntries
<1> QED
  BY <1>2 DEF LogInv

\* What an append does to the log.
LEMMA LogGrows ==
  ASSUME TypeOK, NEW w \in Workers, log' = Append(log, Entry(w))
  PROVE  /\ Len(log) \in Nat
         /\ Len(log') = Len(log) + 1
         /\ \A i \in 1..Len(log) : log'[i] = log[i]
         /\ log'[Len(log) + 1] = Entry(w)
<1>1. Entry(w) \in OpEntry
  BY RecorderAssumption DEF Entry, OpEntry, TypeOK, WorkerTypes
<1> QED
  BY <1>1 DEF TypeOK, ChannelTypes

\* The send of a worker's next operation extends the log without a gap.
LEMMA SendKeepsInv ==
  ASSUME TypeOK, LogInv, SenderInv, NEW w \in Workers,
         pc[w] \in {"send", "blocked"}, log' = Append(log, Entry(w)),
         pc' = [pc EXCEPT ![w] = "idle"], UNCHANGED <<sent, state>>
  PROVE  LogInv' /\ SenderInv'
<1>1. /\ Entry(w).worker = w /\ Entry(w).n = sent[w]
      /\ sent[w] \in Nat /\ sent[w] >= 1
      /\ \A i \in 1..Len(log) : log[i].worker = w => log[i].n < sent[w]
      /\ \A m \in 1..(sent[w] - 1) : Logged(w, m)
  BY DEF Entry, SenderInv, SenderClauses, TypeOK, WorkerTypes
<1>2. LogInv'
  <2> SUFFICES ASSUME NEW i \in 1..Len(log')
               PROVE  /\ log'[i].n \in 1..sent[log'[i].worker]
                      /\ \A j \in 1..(i-1) :
                            log'[j].worker = log'[i].worker => log'[j].n < log'[i].n
                      /\ \A m \in 1..(log'[i].n - 1) :
                            \E j \in 1..(i-1) : log'[j].worker = log'[i].worker /\ log'[j].n = m
    BY DEF LogInv
  <2>1. CASE i \in 1..Len(log)
    BY <2>1, LogGrows DEF LogInv
  <2>2. CASE i = Len(log) + 1
    BY <1>1, <2>2, LogGrows DEF Logged
  <2> QED
    BY <2>1, <2>2, LogGrows
<1>3. SenderInv'
  <2>1. \A v \in Workers, m \in Nat : Logged(v, m) => Logged(v, m)'
    BY LogGrows DEF Logged
  <2>2. \A m \in 1..sent[w] : Logged(w, m)'
    <3>1. Logged(w, sent[w])'
      BY <1>1, LogGrows DEF Logged
    <3> QED
      BY <1>1, <2>1, <3>1
  <2>3. \A v \in Workers : v # w => pc'[v] = pc[v]
    BY DEF TypeOK, WorkerTypes
  <2>4. pc'[w] = "idle"
    BY DEF TypeOK, WorkerTypes
  <2>5. \A v \in Workers : v # w =>
           \A i \in 1..Len(log') : log'[i].worker = v => i \in 1..Len(log) /\ log'[i] = log[i]
    BY <1>1, LogGrows
  <2>6. \A v \in Workers : sent[v] \in Nat
    BY DEF TypeOK, WorkerTypes
  <2> QED
    BY <2>1, <2>2, <2>3, <2>4, <2>5, <2>6 DEF SenderInv, SenderClauses
<1> QED
  BY <1>2, <1>3

\* A worker never touches the file or the counters; it runs while the
\* recording is open.
LEMMA WorkerFrame ==
  ASSUME TypeOK, IInv, NEW w \in Workers, Execute(w) \/ WorkerStep(w)
  PROVE  FileInv' /\ CounterInv' /\ CloseInv'
<1>1. /\ ctl = "running"
      /\ UNCHANGED <<taken, closed, writerVars, fileVars, ctlVars>>
  BY DEF Execute, WorkerStep, RecordEntry, TrySend, BlockedSend, WorkerStop,
         WorkerReason, chanVars
<1>2. log' = log \/ log' = Append(log, Entry(w))
  BY DEF Execute, WorkerStep, RecordEntry, TrySend, BlockedSend, WorkerStop,
         WorkerReason, chanVars
<1>3. state' = state \/ (state = "recording" /\ state' # "recording")
  BY DEF Execute, WorkerStep, RecordEntry, TrySend, BlockedSend, WorkerStop,
         WorkerReason, stateVars, StoppedState
<1>4. \A i \in 1..taken : log'[i] = log[i]
  BY <1>2, LogGrows DEF TypeOK, ChannelTypes
<1>5. FileInv'
  <2>1. UNCHANGED <<file, taken, wpc>>
    BY <1>1 DEF fileVars, writerVars
  <2>2. \A i \in 1..Len(file) : i \in 1..taken
    BY DEF IInv, FileInv, TypeOK, ChannelTypes, FileTypes
  <2> QED
    BY <1>3, <1>4, <2>1, <2>2 DEF FileInv, IInv
<1>6. CounterInv'
  BY <1>1, <1>3 DEF CounterInv, IInv, writerVars, fileVars
<1>7. CloseInv'
  BY <1>1, <1>3 DEF CloseInv, IInv, writerVars, fileVars, ctlVars
<1> QED
  BY <1>5, <1>6, <1>7

\* Executing, stamping, sending, stopping: no step of a worker leaves a gap.
LEMMA InvWorker ==
  ASSUME TypeOK, IInv, NEW w \in Workers, Execute(w) \/ WorkerStep(w)
  PROVE  IInv'
<1> USE DEF IInv
<1>1. CASE Execute(w)
  <2>1. UNCHANGED <<log, state>> /\ state \in {"recording", "truncated", "failed"}
    BY <1>1 DEF Execute, chanVars, stateVars, TypeOK, WriterTypes
  <2>2. /\ sent' = [sent EXCEPT ![w] = @ + 1] /\ pc[w] = "idle"
        /\ state # "recording" => pc' = pc
        /\ state = "recording" =>
              pc' = [pc EXCEPT ![w] = "record"] \/ pc' = [pc EXCEPT ![w] = "stop"]
    BY <1>1 DEF Execute
  <2>3. sent \in [Workers -> Nat] /\ log \in Seq(OpEntry)
    BY DEF TypeOK, WorkerTypes, ChannelTypes
  <2>4. \A v \in Workers : sent'[v] = IF v = w THEN sent[w] + 1 ELSE sent[v]
    BY <2>2, <2>3
  <2>5. LogInv'
    BY <2>1, <2>4, LogFrame
  <2>7. \A v \in Workers : v # w => pc'[v] = pc[v] /\ sent'[v] = sent[v]
    BY <2>2, <2>4 DEF TypeOK, WorkerTypes
  <2>8. /\ pc'[w] \in {"idle", "record", "stop"}
        /\ state = "recording" => pc'[w] # "idle"
        /\ sent'[w] = sent[w] + 1 /\ sent[w] \in Nat
    BY <2>1, <2>2, <2>3, <2>4 DEF TypeOK, WorkerTypes
  <2>9. \A i \in 1..Len(log) : log[i].worker = w => log[i].n < sent'[w]
    BY <2>8, LogEntries DEF LogInv
  <2>10. state = "recording" => \A m \in 1..(sent'[w] - 1) : Logged(w, m)
    BY <2>2, <2>8 DEF SenderInv, SenderClauses
  <2>11. \A v \in Workers, m \in Nat : Logged(v, m)' <=> Logged(v, m)
    BY <2>1 DEF Logged
  <2>12. SenderInv'
    <3> SUFFICES ASSUME NEW v \in Workers
                 PROVE  SenderClauses(v)'
      BY DEF SenderInv
    <3>1. CASE v = w
      BY <2>1, <2>8, <2>9, <2>10, <2>11, <3>1 DEF SenderClauses
    <3>2. CASE v # w
      BY <2>1, <2>3, <2>7, <2>11, <3>2 DEF SenderInv, SenderClauses
    <3> QED
      BY <3>1, <3>2
  <2> QED
    BY <2>5, <2>12, WorkerFrame
<1>2. CASE (TrySend(w) /\ ~Full) \/ BlockedSend(w)
  <2>1. /\ pc[w] \in {"send", "blocked"} /\ log' = Append(log, Entry(w))
        /\ pc' = [pc EXCEPT ![w] = "idle"] /\ UNCHANGED <<sent, state>>
    BY <1>2 DEF TrySend, BlockedSend, stateVars
  <2> QED
    BY <2>1, SendKeepsInv, WorkerFrame
<1>3. CASE RecordEntry(w) \/ (TrySend(w) /\ Full) \/ WorkerStop(w) \/ WorkerReason(w)
  <2>1. UNCHANGED <<log, sent>>
    BY <1>3 DEF RecordEntry, TrySend, WorkerStop, WorkerReason, chanVars
  <2>2. LogInv'
    BY <2>1, LogFrame
  <2>3. \A v \in Workers : v # w => pc'[v] = pc[v]
    BY <1>3 DEF RecordEntry, TrySend, WorkerStop, WorkerReason, TypeOK, WorkerTypes
  <2>4. state' = state \/ (state = "recording" /\ state' # "recording")
    BY <1>3 DEF RecordEntry, TrySend, WorkerStop, WorkerReason, stateVars, StoppedState
  <2>5. \A v \in Workers, m \in Nat : Logged(v, m)' <=> Logged(v, m)
    BY <2>1 DEF Logged
  <2>6. pc \in [Workers -> {"idle", "record", "send", "blocked", "stop", "reason"}]
    BY DEF TypeOK, WorkerTypes
  <2>7. /\ pc[w] \in {"record", "send", "stop", "reason"}
        /\ pc'[w] \in {"record", "send", "blocked", "stop"} =>
              pc[w] \in {"record", "send", "blocked", "stop"}
        /\ pc'[w] \in {"send", "blocked"} => pc[w] \in {"send", "blocked"}
                                             \/ (state = "recording" /\ pc[w] # "idle")
        /\ pc'[w] = "idle" => state' # "recording"
        /\ pc'[w] = "reason" => state' # "recording"
    BY <1>3, <2>6 DEF RecordEntry, TrySend, WorkerStop, WorkerReason, StoppedState,
                      stateVars, SenderInv, SenderClauses
  <2>8. SenderInv'
    <3> SUFFICES ASSUME NEW v \in Workers
                 PROVE  SenderClauses(v)'
      BY DEF SenderInv
    <3>1. SenderClauses(v) /\ sent[v] \in Nat
      BY DEF SenderInv, TypeOK, WorkerTypes
    <3>2. CASE v = w
      BY <2>1, <2>4, <2>5, <2>7, <3>1, <3>2 DEF SenderClauses
    <3>3. CASE v # w
      BY <2>1, <2>3, <2>4, <2>5, <3>1, <3>3 DEF SenderClauses
    <3> QED
      BY <3>2, <3>3
  <2> QED
    BY <2>2, <2>8, WorkerFrame
<1>4. \/ Execute(w)
      \/ (TrySend(w) /\ ~Full) \/ BlockedSend(w)
      \/ RecordEntry(w) \/ (TrySend(w) /\ Full) \/ WorkerStop(w) \/ WorkerReason(w)
  BY DEF WorkerStep
<1> QED
  BY <1>1, <1>2, <1>3, <1>4

-----------------------------------------------------------------------------
(* The invariant: a step of the writer *)

\* While the writer is about to write, the entry it holds is the operation
\* its worker's stream in the file ends just before.
LEMMA NextInStream ==
  ASSUME TypeInv, IInv, wpc = "write"
  PROVE  /\ Len(file) = taken - 1 /\ taken \in 1..Len(log)
         /\ log[taken].worker \in Workers
         /\ log[taken].n = Len(hashes[log[taken].worker]) + 1
         /\ workerSeq[log[taken].worker] + 1 = log[taken].n
<1> DEFINE w == log[taken].worker
           n == log[taken].n
           h == Len(hashes[w])
<1>1. Len(file) = taken - 1 /\ taken \in 1..Len(log)
  BY DEF IInv, FileInv, TypeInv, TypeOK, CauseTypes, ChannelTypes
<1>2. w \in Workers /\ n \in Nat /\ n >= 1 /\ sent[w] \in Nat
  BY <1>1, LogEntries DEF IInv, LogInv, TypeInv
<1>3. h \in Nat
  BY <1>2 DEF TypeInv, TypeOK, FileTypes
<1>4. \A i \in 1..Len(file) : /\ file[i].worker = log[i].worker
                              /\ file[i].n = log[i].n
                              /\ i \in 1..(taken - 1)
  BY <1>1 DEF IInv, FileInv
<1>5. h < n
  <2>1. CASE h = 0
    BY <1>2, <2>1
  <2>2. CASE h > 0
    <3>1. \A k \in 1..h : \E i \in 1..Len(file) : file[i].worker = w /\ file[i].n = k
      BY <1>2 DEF IInv, CounterInv
    <3>2. PICK i \in 1..Len(file) : file[i].worker = w /\ file[i].n = h
      BY <1>3, <2>2, <3>1
    <3> QED
      BY <1>1, <1>4, <3>2 DEF IInv, LogInv
  <2> QED
    BY <1>3, <2>1, <2>2
<1>6. n - 1 <= h
  <2>1. CASE n = 1
    BY <1>3, <2>1
  <2>2. CASE n > 1
    <3>1. \A m \in 1..(n - 1) :
             \E j \in 1..(taken - 1) : log[j].worker = w /\ log[j].n = m
      BY <1>1 DEF IInv, LogInv
    <3>2. PICK j \in 1..(taken - 1) : log[j].worker = w /\ log[j].n = n - 1
      BY <1>2, <2>2, <3>1
    <3>3. j \in 1..Len(file) /\ file[j].worker = w /\ file[j].n = n - 1
      BY <1>1, <1>4, <3>2
    <3> QED
      BY <3>3 DEF IInv, CounterInv
  <2> QED
    BY <1>2, <2>1, <2>2
<1>7. workerSeq[w] = h
  BY <1>2 DEF IInv, CounterInv
<1> QED
  BY <1>1, <1>2, <1>3, <1>5, <1>6, <1>7

\* The writer leaves the log, the workers and the controller alone.
LEMMA WriterFrame ==
  ASSUME TypeInv, IInv, WriterStep
  PROVE  LogInv' /\ SenderInv' /\ CloseInv'
<1>1. UNCHANGED <<workerVars, log, closed, ctlVars>> /\ ctl \in {"running", "closing"}
  BY DEF WriterStep, WriterReceive, WriterCheck, WriterWrite, WriterTruncate,
         WriterFails, WriterStop, WriterReason, WriterExit, chanVars, Alive
<1>2. state' = state \/ (state = "recording" /\ state' # "recording")
  BY DEF WriterStep, WriterReceive, WriterCheck, WriterWrite, WriterTruncate,
         WriterFails, WriterStop, WriterReason, WriterExit, stateVars, StoppedState
<1>3. wpc # "done" /\ (wpc' = "done" => closed /\ taken' = taken /\ taken = Len(log))
  BY DEF WriterStep, WriterReceive, WriterCheck, WriterWrite, WriterTruncate,
         WriterFails, WriterStop, WriterReason, WriterExit, chanVars
<1>4. LogInv'
  BY <1>1, LogFrame DEF IInv, TypeInv, workerVars
<1>5. SenderInv'
  BY <1>1, <1>2 DEF SenderInv, SenderClauses, Logged, IInv, workerVars
<1>6. CloseInv'
  <2>1. trailer = NoTrailer /\ ~disk.trailer
    BY <1>1, <1>3 DEF CloseInv, IInv
  <2>2. UNCHANGED <<pc, log, closed, ctl, trailer, disk, result>>
    BY <1>1 DEF workerVars, ctlVars
  <2> QED
    BY <1>1, <1>3, <2>1, <2>2 DEF CloseInv, IInv, Idle
<1> QED
  BY <1>4, <1>5, <1>6

\* Receiving, checking, writing, stopping: the file stays a prefix of the log.
LEMMA InvWriter ==
  ASSUME TypeInv, IInv, WriterStep
  PROVE  IInv'
<1>1. UNCHANGED log
  BY DEF WriterStep, WriterReceive, WriterCheck, WriterWrite, WriterTruncate,
         WriterFails, WriterStop, WriterReason, WriterExit, chanVars
<1>2. Len(file) \in Nat /\ taken \in Nat
  BY DEF TypeInv, TypeOK, FileTypes, ChannelTypes
<1>3. FileInv /\ CounterInv
  BY DEF IInv
<1>4. CASE WriterWrite
  <2> DEFINE e == log[taken]
             line == [type |-> "op", seq |-> seq + 1, worker |-> e.worker,
                      wseq |-> workerSeq[e.worker] + 1, iter |-> e.iter, n |-> e.n]
  <2>1. /\ file' = Append(file, line)
        /\ workerSeq' = [workerSeq EXCEPT ![e.worker] = @ + 1]
        /\ hashes' = [hashes EXCEPT ![e.worker] = Append(@, e.n)]
        /\ wpc = "write" /\ wpc' = "receive" /\ UNCHANGED <<taken, broken, state>>
    BY <1>4 DEF WriterWrite, WriteLine, chanVars, stateVars
  <2>2. /\ Len(file) = taken - 1 /\ e.worker \in Workers
        /\ e.n = Len(hashes[e.worker]) + 1 /\ workerSeq[e.worker] + 1 = e.n
    BY <2>1, NextInStream
  <2>3. line.worker = e.worker /\ line.n = e.n /\ line.wseq = e.n
    BY <2>2
  <2>4. file \in Seq(OpLine) /\ hashes \in [Workers -> Seq(Nat)]
        /\ workerSeq \in [Workers -> Nat]
    BY DEF TypeInv, TypeOK, FileTypes
  <2>5. /\ Len(file') = Len(file) + 1 /\ file'[Len(file) + 1] = line
        /\ \A i \in 1..Len(file) : file'[i] = file[i]
    BY <2>1, <2>4
  <2> HIDE DEF e, line
  <2>6. FileInv'
    BY <1>1, <1>2, <1>3, <2>1, <2>2, <2>3, <2>5 DEF FileInv, e
  <2>7. CounterInv'
    <3>1. /\ Len(hashes'[e.worker]) = Len(hashes[e.worker]) + 1
          /\ hashes'[e.worker][e.n] = e.n
          /\ \A k \in 1..Len(hashes[e.worker]) :
                hashes'[e.worker][k] = hashes[e.worker][k]
          /\ workerSeq'[e.worker] = e.n
          /\ Len(hashes[e.worker]) \in Nat
      BY <2>1, <2>2, <2>4
    <3>2. \A w \in Workers : w # e.worker =>
             hashes'[w] = hashes[w] /\ workerSeq'[w] = workerSeq[w]
      BY <2>1, <2>4
    <3>3. ~broken' => \A w \in Workers : workerSeq'[w] = Len(hashes'[w])
      BY <1>3, <2>1, <2>2, <3>1, <3>2 DEF CounterInv
    <3>4. \A w \in Workers : \A k \in 1..Len(hashes'[w]) :
             /\ hashes'[w][k] = k
             /\ \E i \in 1..Len(file') : file'[i].worker = w /\ file'[i].n = k
      <4> SUFFICES ASSUME NEW w \in Workers, NEW k \in 1..Len(hashes'[w])
                   PROVE  /\ hashes'[w][k] = k
                          /\ \E i \in 1..Len(file') : file'[i].worker = w /\ file'[i].n = k
        OBVIOUS
      <4>1. CASE w = e.worker /\ k = e.n
        BY <1>2, <2>3, <2>5, <3>1, <4>1
      <4>2. CASE w # e.worker \/ k # e.n
        <5>1. k \in 1..Len(hashes[w]) /\ hashes'[w][k] = hashes[w][k]
          BY <2>2, <3>1, <3>2, <4>2
        <5>2. PICK i \in 1..Len(file) : file[i].worker = w /\ file[i].n = k
          BY <1>3, <5>1 DEF CounterInv
        <5>3. i \in 1..Len(file') /\ file'[i] = file[i]
          BY <1>2, <2>5
        <5>4. hashes[w][k] = k
          BY <1>3, <5>1 DEF CounterInv
        <5> QED
          BY <5>1, <5>2, <5>3, <5>4
      <4> QED
        BY <4>1, <4>2
    <3>5. \A i \in 1..Len(file') : file'[i].n <= Len(hashes'[file'[i].worker])
      <4>1. \A i \in 1..Len(file) : file[i].worker \in Workers /\ file[i].n \in Nat
        <5>1. \A i \in 1..Len(file) : file[i] \in OpLine
          BY <2>4
        <5> QED
          BY <5>1 DEF OpLine
      <4>2. \A w \in Workers : Len(hashes[w]) \in Nat
        BY <2>4
      <4>3. \A i \in 1..Len(file) : file[i].n <= Len(hashes[file[i].worker])
        BY <1>3 DEF CounterInv
      <4>4. \A w \in Workers : Len(hashes[w]) <= Len(hashes'[w])
        BY <3>1, <3>2, <4>2
      <4>5. ASSUME NEW i \in 1..Len(file)
            PROVE  file[i].n <= Len(hashes'[file[i].worker])
        <5>1. Len(hashes'[file[i].worker]) \in Nat
          BY <2>2, <3>1, <3>2, <4>1, <4>2
        <5> QED
          BY <4>1, <4>2, <4>3, <4>4, <5>1
      <4>6. line.n <= Len(hashes'[line.worker])
        BY <2>2, <2>3, <3>1
      <4> QED
        BY <1>2, <2>5, <4>5, <4>6
    <3>6. wpc' # "write" /\ (broken' => state' # "recording")
      BY <1>3, <2>1 DEF CounterInv
    <3> QED
      BY <3>3, <3>4, <3>5, <3>6 DEF CounterInv
  <2> QED
    BY <2>6, <2>7, WriterFrame DEF IInv
<1>5. CASE WriterFails
  <2>1. /\ wpc = "write" /\ wpc' = "stop" /\ UNCHANGED <<taken, file, hashes, state>>
        /\ broken' \/ UNCHANGED <<broken, workerSeq>>
    BY <1>5 DEF WriterFails, chanVars, stateVars, fileVars
  <2>2. FileInv'
    BY <1>1, <1>2, <1>3, <2>1 DEF FileInv
  <2>3. CounterInv'
    BY <1>3, <2>1 DEF CounterInv
  <2> QED
    BY <2>2, <2>3, WriterFrame DEF IInv
<1>6. CASE WriterReceive
  <2>1. /\ wpc = "receive" /\ wpc' = "check" /\ taken' = taken + 1
        /\ UNCHANGED <<file, hashes, workerSeq, broken, state>>
    BY <1>6 DEF WriterReceive, stateVars, fileVars
  <2>2. FileInv'
    BY <1>1, <1>2, <1>3, <2>1 DEF FileInv
  <2>3. CounterInv'
    BY <1>3, <2>1 DEF CounterInv
  <2> QED
    BY <2>2, <2>3, WriterFrame DEF IInv
<1>7. CASE WriterCheck \/ WriterTruncate \/ WriterStop \/ WriterReason \/ WriterExit
  <2>1. UNCHANGED <<taken, file, hashes, workerSeq, broken>>
    BY <1>7 DEF WriterCheck, WriterTruncate, Truncate, WriterStop, WriterReason,
                WriterExit, chanVars, fileVars
  <2>2. \/ wpc = "check" /\ state = "recording" /\ wpc' = "write" /\ state' = state
        \/ wpc = "check" /\ state # "recording" /\ wpc' = "receive" /\ state' = state
        \/ wpc = "write" /\ wpc' = "stop" /\ state' = state
        \/ wpc = "stop" /\ wpc' \in {"reason", "receive"} /\ state' # "recording"
        \/ wpc = "reason" /\ wpc' = "receive" /\ state' = state
        \/ wpc = "receive" /\ wpc' = "done" /\ state' = state
    BY <1>7 DEF WriterCheck, WriterTruncate, WriterStop, WriterReason, WriterExit,
                stateVars, StoppedState
  <2>3. FileInv'
    BY <1>1, <1>2, <1>3, <2>1, <2>2 DEF FileInv
  <2>4. CounterInv'
    BY <1>3, <2>1, <2>2 DEF CounterInv
  <2> QED
    BY <2>3, <2>4, WriterFrame DEF IInv
<1> QED
  BY <1>4, <1>5, <1>6, <1>7 DEF WriterStep

-----------------------------------------------------------------------------
(* The invariant: a step of the controller, and the theorems *)

\* Iterations, Close and a crash leave the file and the log as they are.
LEMMA InvController ==
  ASSUME TypeInv, IInv, NextIteration \/ CloseChannel \/ CloseStep \/ Crash \/ Terminated
  PROVE  IInv'
<1>1. UNCHANGED <<workerVars, stateVars, wpc, log, taken, file, workerSeq, hashes>>
  BY DEF NextIteration, CloseChannel, CloseStep, WriteTrailer, FlushAndClose,
         FlushFails, Crash, Terminated, chanVars, writerVars, fileVars, vars
<1>2. LogInv' /\ SenderInv'
  <2>1. UNCHANGED <<log, sent, pc, state>>
    BY <1>1 DEF workerVars, stateVars
  <2>2. LogInv'
    BY <2>1, LogFrame DEF IInv, TypeInv
  <2>3. SenderInv'
    BY <2>1 DEF IInv, SenderInv, SenderClauses, Logged
  <2> QED
    BY <2>2, <2>3
<1>3. FileInv'
  BY <1>1 DEF IInv, FileInv, stateVars
<1>4. (broken' => broken \/ wpc = "done") /\ (~broken' => ~broken)
  BY DEF NextIteration, CloseChannel, CloseStep, WriteTrailer, FlushAndClose,
         FlushFails, Crash, Terminated, writerVars, vars
<1>5. CounterInv'
  <2>1. UNCHANGED <<wpc, state, file, workerSeq, hashes>>
    BY <1>1 DEF stateVars
  <2>2. wpc = "write" => ~broken'
    BY <1>4 DEF IInv, CounterInv
  <2>3. broken' => wpc \in {"stop", "done"} \/ state # "recording"
    BY <1>4 DEF IInv, CounterInv
  <2> QED
    BY <1>4, <2>1, <2>2, <2>3 DEF IInv, CounterInv
<1>6. CloseInv'
  <2> USE DEF IInv, CloseInv
  <2>1. FinalStatus' = FinalStatus /\ Idle' = Idle
    BY <1>1 DEF FinalStatus, Idle, workerVars, stateVars
  <2>2. CASE NextIteration
    BY <1>1, <2>1, <2>2 DEF NextIteration, chanVars, stateVars, writerVars
  <2>3. CASE CloseChannel
    BY <1>1, <2>1, <2>3 DEF CloseChannel, chanVars, stateVars, writerVars
  <2>4. CASE WriteTrailer
    <3>1. TrailerLine.type = "trailer" /\ TrailerLine.status = FinalStatus
      BY DEF TrailerLine
    <3>2. TrailerLine # NoTrailer
      BY <3>1 DEF NoTrailer, None
    <3>3. /\ ctl = "closing" /\ wpc = "done" /\ ctl' = "flushing" /\ UNCHANGED <<closed, disk>>
          /\ (trailer' = TrailerLine /\ ~broken') \/ (trailer' = trailer /\ broken')
      BY <2>4 DEF WriteTrailer, chanVars
    <3> QED
      BY <1>1, <2>1, <3>1, <3>2, <3>3
  <2>5. CASE FlushAndClose
    <3>1. /\ ctl = "flushing" /\ ~broken /\ ctl' = "closed"
          /\ disk'.trailer /\ disk'.lines = Len(file) /\ result'.status = FinalStatus
          /\ UNCHANGED <<closed, trailer>>
      BY <2>5 DEF FlushAndClose, chanVars
    <3> QED
      BY <1>1, <2>1, <3>1 DEF FinalStatus, TypeInv, TypeOK, WriterTypes, stateVars
  <2>6. ASSUME Cut(disk') PROVE disk'.trailer => trailer # NoTrailer /\ disk'.lines = Len(file)
    BY <2>6 DEF Cut
  <2>7. CASE FlushFails
    <3>1. /\ ctl = "flushing" /\ ctl' = "closed" /\ result'.status # "complete"
          /\ Cut(disk') /\ UNCHANGED <<closed, trailer>>
      BY <2>7 DEF FlushFails, chanVars
    <3> QED
      BY <1>1, <2>1, <2>6, <3>1
  <2>8. CASE Crash
    <3>1. /\ ctl' = "crashed" /\ Cut(disk') /\ UNCHANGED <<closed, trailer>>
      BY <2>8 DEF Crash, chanVars
    <3> QED
      BY <1>1, <2>1, <2>6, <3>1
  <2>9. CASE Terminated
    BY <1>1, <2>1, <2>9 DEF Terminated, vars, chanVars, writerVars, ctlVars, stateVars
  <2> QED
    BY <2>2, <2>3, <2>4, <2>5, <2>7, <2>8, <2>9 DEF CloseStep
<1> QED
  BY <1>2, <1>3, <1>5, <1>6 DEF IInv

Inv == TypeInv /\ IInv

\* Types and the invariant hold together in every reachable state.
THEOREM Invariance == Spec => []Inv
<1>1. Init => Inv
  BY TypeInit, InvInit DEF Inv
<1>2. Inv /\ [Next]_vars => Inv'
  <2> SUFFICES ASSUME Inv, [Next]_vars PROVE Inv'
    OBVIOUS
  <2>1. TypeInv'
    BY TypeStep DEF Inv
  <2>2. ASSUME UNCHANGED vars PROVE IInv'
    BY <2>2 DEF Inv, IInv, LogInv, SenderInv, SenderClauses, Logged, FileInv,
                CounterInv, CloseInv, FinalStatus, Idle, vars, workerVars, chanVars,
                stateVars, writerVars, fileVars, ctlVars
  <2>3. IInv'
    BY <2>2, InvWorker, InvWriter, InvController DEF Inv, TypeInv, Next
  <2> QED
    BY <2>1, <2>3 DEF Inv
<1> QED
  BY <1>1, <1>2, PTL DEF Spec

\* FailurePolicy's "a prefix of every worker's stream": the lines of a worker
\* are its operations 1, 2, 3, ... without a gap, for any number of workers,
\* any queue, limit and fault.
THEOREM PrefixTheorem == Spec => []PrefixOfEveryWorker
<1>1. Inv => PrefixOfEveryWorker
  <2> SUFFICES ASSUME Inv, NEW i \in 1..Len(file)
               PROVE  /\ file[i].wseq = file[i].n
                      /\ \A j \in SameWorkerBefore(i) : file[j].n < file[i].n
                      /\ \A m \in 1..(file[i].n - 1) :
                            \E j \in SameWorkerBefore(i) : file[j].n = m
    BY DEF PrefixOfEveryWorker
  <2>1. /\ i \in 1..Len(log) /\ Len(file) \in Nat
        /\ \A j \in 1..i : file[j].worker = log[j].worker /\ file[j].n = log[j].n
        /\ file[i].wseq = log[i].n
    BY DEF Inv, IInv, FileInv, TypeInv, TypeOK, ChannelTypes, FileTypes
  <2>2. /\ \A j \in 1..(i-1) : log[j].worker = log[i].worker => log[j].n < log[i].n
        /\ \A m \in 1..(log[i].n - 1) :
              \E j \in 1..(i-1) : log[j].worker = log[i].worker /\ log[j].n = m
    BY <2>1 DEF Inv, IInv, LogInv
  <2> QED
    BY <2>1, <2>2 DEF SameWorkerBefore
<1> QED
  BY <1>1, Invariance, PTL

\* When the recording is still active at Close, and in every state after, the
\* file holds exactly what was sent.
LEMMA NothingMissing ==
  ASSUME Inv, state = "recording", wpc = "done", NEW w \in Workers
  PROVE  /\ \A m \in 1..sent[w] : \E i \in 1..Len(file) : file[i].worker = w /\ file[i].n = m
         /\ Len(hashes[w]) = sent[w]
<1>1. Len(file) = Len(log) /\ Len(log) \in Nat
  BY DEF Inv, IInv, FileInv, CloseInv, TypeInv, TypeOK, ChannelTypes
<1>2. pc[w] = "idle" /\ sent[w] \in Nat /\ Len(hashes[w]) \in Nat
  BY DEF Inv, IInv, CloseInv, Idle, TypeInv, TypeOK, WorkerTypes, FileTypes
<1>3. \A i \in 1..Len(file) : file[i].worker = log[i].worker /\ file[i].n = log[i].n
  BY DEF Inv, IInv, FileInv
<1>4. \A m \in 1..sent[w] : \E i \in 1..Len(file) : file[i].worker = w /\ file[i].n = m
  <2>1. \A m \in 1..sent[w] : Logged(w, m)
    BY <1>2 DEF Inv, IInv, SenderInv, SenderClauses
  <2> QED
    BY <1>1, <1>3, <2>1 DEF Logged
<1>5. sent[w] <= Len(hashes[w])
  <2>1. CASE sent[w] = 0
    BY <1>2, <2>1
  <2>2. CASE sent[w] > 0
    <3>1. PICK i \in 1..Len(file) : file[i].worker = w /\ file[i].n = sent[w]
      BY <1>2, <1>4, <2>2
    <3> QED
      BY <3>1 DEF Inv, IInv, CounterInv
  <2> QED
    BY <1>2, <2>1, <2>2
<1>6. Len(hashes[w]) <= sent[w]
  <2>1. CASE Len(hashes[w]) = 0
    BY <1>2, <2>1
  <2>2. CASE Len(hashes[w]) > 0
    <3>1. \A k \in 1..Len(hashes[w]) :
             \E i \in 1..Len(file) : file[i].worker = w /\ file[i].n = k
      BY DEF Inv, IInv, CounterInv
    <3>2. PICK i \in 1..Len(file) : file[i].worker = w /\ file[i].n = Len(hashes[w])
      BY <1>2, <2>2, <3>1
    <3> QED
      BY <1>1, <1>3, <3>2 DEF Inv, IInv, LogInv
  <2> QED
    BY <1>2, <2>1, <2>2
<1> QED
  BY <1>2, <1>4, <1>5, <1>6

\* "Operations are never dropped silently": a file that calls itself complete
\* holds every operation every worker sent.
THEOREM CompleteTheorem == Spec => []CompleteMeansEverything
<1>1. Inv => CompleteMeansEverything
  <2> SUFFICES ASSUME Inv, disk.trailer, trailer.status = "complete", NEW w \in Workers
               PROVE  \A m \in 1..sent[w] : OnDisk(w, m)
    BY DEF CompleteMeansEverything
  <2>1. disk.lines = Len(file) /\ wpc = "done" /\ state = "recording"
    BY DEF Inv, IInv, CloseInv, FinalStatus, TypeInv, TypeOK, WriterTypes
  <2> QED
    BY <2>1, NothingMissing DEF OnDisk
<1> QED
  BY <1>1, Invariance, PTL

\* Close never reports a complete recording that a reader would not find
\* complete.
LEMMA ResultOnDisk == Inv => ResultIsOnDisk
<1> SUFFICES ASSUME Inv, ctl = "closed", result.status = "complete"
             PROVE  disk.lines = Len(file) /\ ScanStatus(DiskFile) = "complete"
  BY DEF ResultIsOnDisk
<1>1. /\ disk.trailer /\ disk.lines = Len(file) /\ state = "recording"
      /\ trailer.type = "trailer" /\ trailer.status = "complete"
  BY DEF Inv, IInv, CloseInv, FinalStatus
<1>2. Len(file) \in Nat /\ file \in Seq(OpLine)
  BY DEF Inv, TypeInv, TypeOK, FileTypes
<1>3. /\ Len(DiskFile) = Len(file) + 1
      /\ DiskFile[Len(DiskFile)] = trailer
  BY <1>1, <1>2 DEF DiskFile
<1> QED
  BY <1>1, <1>2, <1>3 DEF ScanStatus, IsTrailer

THEOREM ResultTheorem == Spec => []ResultIsOnDisk
  BY ResultOnDisk, Invariance, PTL

-----------------------------------------------------------------------------
(* The refinement: the recorder implements RecordingContract *)

\* The contract is open until Close has returned or the process has died.
LEMMA ContractOpen ==
  ASSUME TypeInv
  PROVE  /\ ctl \in {"running", "closing", "flushing"} =>
               /\ Contract!Open
               /\ ContractStatus = "recording" <=> state = "recording"
         /\ state # "recording" /\ ctl \in {"running", "closing", "flushing"} =>
               ContractStatus = "stopped"
BY DEF Contract!Open, ContractStatus, TypeInv, TypeOK, ControllerTypes

\* A step that changes neither what is sent nor what is stored, nor how the
\* recording stands, is a stuttering step of the contract; a stop is its Stop.
LEMMA ContractStutter ==
  ASSUME TypeInv, UNCHANGED <<sent, hashes, ctl, result>>,
         state' = state \/ (state = "recording" /\ state' # "recording"
                            /\ ctl \in {"running", "closing"})
  PROVE  [Contract!CNext]_(Contract!cvars)
<1>1. CASE state' = state
  BY <1>1 DEF Contract!cvars, ContractStatus
<1>2. CASE state = "recording" /\ state' # "recording" /\ ctl \in {"running", "closing"}
  <2>1. ContractStatus = "recording" /\ ContractStatus' = "stopped"
    BY <1>2 DEF ContractStatus
  <2>2. Contract!Stop
    BY <2>1 DEF Contract!Stop
  <2> QED
    BY <2>2 DEF Contract!CNext
<1> QED
  BY <1>1, <1>2

\* A worker's operation is a Send, its stop a Stop, the rest stutters.
LEMMA RefineWorker ==
  ASSUME Inv, NEW w \in Workers, Execute(w) \/ WorkerStep(w)
  PROVE  [Contract!CNext]_(Contract!cvars)
<1>1. CASE Execute(w)
  <2>1. /\ sent' = [sent EXCEPT ![w] = @ + 1]
        /\ UNCHANGED <<hashes, ctl, result, state>> /\ ctl = "running"
    BY <1>1 DEF Execute, fileVars, ctlVars, stateVars
  <2>2. ContractStatus' = ContractStatus
    BY <2>1 DEF ContractStatus
  <2>3. Contract!Send(w)
    BY <2>1, <2>2, ContractOpen DEF Contract!Send, Inv
  <2> QED
    BY <2>3 DEF Contract!CNext
<1>2. CASE WorkerStep(w)
  <2>1. UNCHANGED <<sent, hashes, ctl, result>> /\ ctl = "running"
    BY <1>2 DEF WorkerStep, RecordEntry, TrySend, BlockedSend, WorkerStop,
                WorkerReason, fileVars, ctlVars
  <2>2. state' = state \/ (state = "recording" /\ state' # "recording")
    BY <1>2 DEF WorkerStep, RecordEntry, TrySend, BlockedSend, WorkerStop,
                WorkerReason, stateVars, StoppedState
  <2> QED
    BY <2>1, <2>2, ContractStutter DEF Inv
<1> QED
  BY <1>1, <1>2

\* A write is a Store of the worker's next operation.
LEMMA RefineWriter ==
  ASSUME Inv, WriterStep
  PROVE  [Contract!CNext]_(Contract!cvars)
<1>1. UNCHANGED <<sent, ctl, result>> /\ ctl \in {"running", "closing"}
  BY DEF WriterStep, WriterReceive, WriterCheck, WriterWrite, WriterTruncate,
         WriterFails, WriterStop, WriterReason, WriterExit, workerVars, ctlVars, Alive
<1>2. CASE WriterWrite
  <2> DEFINE w == log[taken].worker
             n == log[taken].n
  <2>1. hashes' = [hashes EXCEPT ![w] = Append(@, n)] /\ wpc = "write" /\ state' = state
    BY <1>2 DEF WriterWrite, WriteLine, stateVars
  <2>2. w \in Workers /\ n = Len(hashes[w]) + 1 /\ taken \in 1..Len(log)
    BY <2>1, NextInStream DEF Inv
  <2>3. n <= sent[w] /\ sent[w] \in Nat /\ Len(hashes[w]) \in Nat
    <3>1. n \in 1..sent[w]
      BY <2>2 DEF Inv, IInv, LogInv
    <3>2. sent[w] \in Nat /\ Len(hashes[w]) \in Nat
      BY <2>2 DEF Inv, TypeInv, TypeOK, WorkerTypes, FileTypes
    <3> QED
      BY <3>1, <3>2
  <2>4. ContractStatus' = ContractStatus
    BY <1>1, <2>1 DEF ContractStatus
  <2>5. Contract!Open
    BY <1>1, ContractOpen DEF Inv
  <2> HIDE DEF w, n
  <2>6. hashes' = [hashes EXCEPT ![w] = Append(@, Len(@) + 1)]
    BY <2>1, <2>2
  <2>7. Contract!Store(w)
    BY <1>1, <2>2, <2>3, <2>4, <2>5, <2>6 DEF Contract!Store
  <2> QED
    BY <2>2, <2>7 DEF Contract!CNext
<1>3. CASE ~WriterWrite
  <2>1. UNCHANGED hashes
    BY <1>3 DEF WriterStep, WriterReceive, WriterCheck, WriterTruncate, Truncate,
                WriterFails, WriterStop, WriterReason, WriterExit, fileVars
  <2>2. state' = state \/ (state = "recording" /\ state' # "recording")
    BY <1>3 DEF WriterStep, WriterReceive, WriterCheck, WriterTruncate,
                WriterFails, WriterStop, WriterReason, WriterExit, stateVars, StoppedState
  <2> QED
    BY <1>1, <2>1, <2>2, ContractStutter DEF Inv
<1> QED
  BY <1>2, <1>3

\* The result of Close, and a crash, are a Finish.
LEMMA RefineController ==
  ASSUME Inv, NextIteration \/ CloseChannel \/ CloseStep \/ Crash \/ Terminated
  PROVE  [Contract!CNext]_(Contract!cvars)
<1>1. UNCHANGED <<sent, hashes, state>>
  BY DEF NextIteration, CloseChannel, CloseStep, WriteTrailer, FlushAndClose,
         FlushFails, Crash, Terminated, workerVars, stateVars, fileVars, vars
<1>2. CASE NextIteration \/ CloseChannel \/ WriteTrailer
  <2>1. ContractStatus' = ContractStatus
    BY <1>1, <1>2 DEF NextIteration, CloseChannel, WriteTrailer, ContractStatus
  <2> QED
    BY <1>1, <2>1 DEF Contract!cvars
<1>3. CASE FlushAndClose \/ FlushFails
  <2>1. /\ ctl = "flushing" /\ ContractStatus' = result'.status
        /\ result'.status \in {"complete", "truncated", "failed"}
        /\ result'.status = "complete" => state = "recording" /\ wpc = "done"
    BY <1>3 DEF FlushAndClose, FlushFails, ContractStatus, FinalStatus, Inv, IInv,
                CloseInv, TypeInv, TypeOK, WriterTypes
  <2>2. result'.status = "complete" =>
           ContractStatus = "recording" /\ \A w \in Workers : Len(hashes[w]) = sent[w]
    BY <2>1, NothingMissing, ContractOpen DEF Inv
  <2>3. Contract!Finish(result'.status)
    BY <1>1, <2>1, <2>2, ContractOpen DEF Contract!Finish, Inv
  <2> QED
    BY <2>1, <2>3 DEF Contract!CNext, Contract!Ended
<1>4. CASE Crash
  <2>1. Contract!Finish("crashed")
    BY <1>1, <1>4, ContractOpen DEF Crash, Contract!Finish, ContractStatus, Inv
  <2> QED
    BY <2>1 DEF Contract!CNext, Contract!Ended
<1>5. CASE Terminated
  BY <1>1, <1>5 DEF Terminated, vars, ctlVars, Contract!cvars, ContractStatus
<1> QED
  BY <1>2, <1>3, <1>4, <1>5 DEF CloseStep

\* The recorder implements what the FailurePolicy and BlockPolicy texts
\* promise: every step of every goroutine is a step of RecordingContract.
THEOREM Refinement == Spec => KeepsContract
<1>1. Init => Contract!CInit
  BY DEF Init, Contract!CInit, ContractStatus
<1>2. Inv /\ [Next]_vars => [Contract!CNext]_(Contract!cvars)
  <2> SUFFICES ASSUME Inv, [Next]_vars PROVE [Contract!CNext]_(Contract!cvars)
    OBVIOUS
  <2>1. CASE UNCHANGED vars
    BY <2>1 DEF vars, workerVars, stateVars, fileVars, ctlVars, Contract!cvars, ContractStatus
  <2> QED
    BY <2>1, RefineWorker, RefineWriter, RefineController DEF Next
<1> QED
  BY <1>1, <1>2, Invariance, PTL DEF Spec, KeepsContract, Contract!CSpec

-----------------------------------------------------------------------------
(***************************************************************************)
(* What Close and the trailer say of the file: a reader accepts what is    *)
(* left on disk after any end, the trailer's counts and hashes are those   *)
(* of the lines, the reason fits the status, and the file stays within its *)
(* limit.  It rests on the invariant above.                                *)
(*                                                                         *)
(* The argument.  The writer counts what it appends (CountsInv); an        *)
(* iteration only begins when no worker is inside Record, so the stamps on *)
(* the channel never go back (StampInv); the compare-and-swap lets one     *)
(* goroutine store its reason (ReasonInv); every line leaves the reserve   *)
(* free for the trailer (BytesInv), and nothing changes what the trailer   *)
(* describes once it is written (TrailerInv).  What a reader counts is     *)
(* then settled by numbering: the lines of a worker up to one of them are  *)
(* as many as its operation number says (LineRank), so the stream a replay *)
(* reads off the file is the one the hash covers (StreamHashed).           *)
(***************************************************************************)
LinesOf(it) == {i \in 1..Len(file) : file[i].iter = it}

\* The counters of the writer that the trailer repeats.
CountsInv ==
    /\ ops = Len(file)
    /\ Multi => \A it \in 1..Iterations : iterOps[it] = Cardinality(LinesOf(it))

\* The iterations of the entries, in the order they were sent.
StampInv ==
    /\ \A i \in 1..Len(log) :
          /\ IF Multi THEN log[i].iter \in 1..iteration ELSE log[i].iter = 0
          /\ \A j \in 1..(i-1) : log[j].iter <= log[i].iter
    /\ \A w \in Workers :
          pc[w] \in {"send", "blocked"} => stamp[w] = IF Multi THEN iteration ELSE 0
    /\ \A i \in 1..Len(file) : file[i].iter = log[i].iter

\* The goroutine that won the stop stores its reason, and no other does.
ReasonInv ==
    /\ \A w \in Workers : pc[w] \in {"stop", "reason"} => cause[w] # "max_bytes"
    /\ state = "recording" => reason = None
    /\ \A w \in Workers :
          pc[w] = "reason" =>
             /\ state = StoppedState(cause[w])
             /\ wpc # "reason"
             /\ \A v \in Workers : pc[v] = "reason" => v = w
    /\ wpc = "reason" => state = StoppedState(wcause)
    /\ \/ state = "recording" \/ wpc = "reason" \/ \E w \in Workers : pc[w] = "reason"
       \/ reason \in Causes /\ state = StoppedState(reason)
    /\ ReasonMatchesStatus

\* Before the trailer its reserve is free.
BytesInv ==
    /\ MaxBytes > 0 /\ HeaderBytes + Reserve <= MaxBytes
       /\ (\A b \in TrailerBytes : b <= Reserve) /\ ctl \in {"running", "closing"}
       => bytes + Reserve <= MaxBytes
    /\ WithinMaxBytes

\* The trailer is of the file as it is; a crash may leave less of the file.
TrailerInv ==
    /\ trailer # NoTrailer => trailer = TrailerLine /\ ~broken
    /\ disk.lines <= Len(file)

ResultInv == CountsInv /\ StampInv /\ ReasonInv /\ BytesInv /\ TrailerInv

-----------------------------------------------------------------------------
(* The counters and the stamps *)

\* Nothing is counted before anything is written.
LEMMA ResultInit == Init => ResultInv
<1> SUFFICES ASSUME Init PROVE ResultInv
  OBVIOUS
<1>1. Len(file) = 0 /\ Len(log) = 0
  BY DEF Init
<1>2. CountsInv
  <2>1. \A it \in 1..Iterations : LinesOf(it) = {}
    BY <1>1 DEF LinesOf
  <2>2. Cardinality({}) = 0
    BY FS_EmptySet
  <2> QED
    BY <1>1, <2>1, <2>2 DEF Init, CountsInv
<1>3. StampInv
  BY <1>1 DEF Init, StampInv
<1>4. ReasonInv
  BY DEF Init, ReasonInv, ReasonMatchesStatus
<1>5. BytesInv
  <2>1. bytes = HeaderBytes /\ HeaderBytes \in Nat /\ Reserve \in Nat /\ MaxBytes \in Nat
    BY RecorderAssumption DEF Init
  <2> QED
    BY <2>1 DEF BytesInv, WithinMaxBytes
<1>6. TrailerInv
  BY <1>1 DEF Init, TrailerInv
<1> QED
  BY <1>2, <1>3, <1>4, <1>5, <1>6 DEF ResultInv

\* The line a write appends.
LEMMA WriteGrows ==
  ASSUME Inv, WriterWrite
  PROVE  /\ Len(file) \in Nat /\ Len(file') = Len(file) + 1
         /\ Len(file) + 1 = taken /\ taken \in 1..Len(log)
         /\ \A i \in 1..Len(file) : file'[i] = file[i]
         /\ file'[Len(file) + 1].iter = log[taken].iter
         /\ ops' = ops + 1
         /\ Multi => iterOps' = [iterOps EXCEPT ![log[taken].iter] = @ + 1]
<1>1. PICK b \in OpBytes : WriteLine(log[taken], b)
  BY DEF WriterWrite
<1>2. wpc = "write"
  BY DEF WriterWrite
<1> DEFINE line == [type |-> "op", seq |-> seq + 1, worker |-> log[taken].worker,
                    wseq |-> workerSeq[log[taken].worker] + 1,
                    iter |-> log[taken].iter, n |-> log[taken].n]
<1>3. file' = Append(file, line) /\ file \in Seq(OpLine)
  BY <1>1 DEF WriteLine, Inv, TypeInv, TypeOK, FileTypes
<1>4. line.iter = log[taken].iter
  OBVIOUS
<1> HIDE DEF line
<1>5. /\ Len(file) \in Nat /\ Len(file') = Len(file) + 1
      /\ \A i \in 1..Len(file) : file'[i] = file[i]
      /\ file'[Len(file) + 1] = line
  BY <1>3
<1>6. Len(file) = taken - 1 /\ taken \in 1..Len(log)
  BY <1>2, NextInStream DEF Inv
<1>7. Len(file) + 1 = taken
  BY <1>5, <1>6 DEF Inv, TypeInv, TypeOK, ChannelTypes
<1>8. ops' = ops + 1 /\ (Multi => iterOps' = [iterOps EXCEPT ![log[taken].iter] = @ + 1])
  BY <1>1 DEF WriteLine
<1> QED
  BY <1>4, <1>5, <1>6, <1>7, <1>8

\* Only a write changes the file or what is counted of it.
LEMMA FileFrame ==
  ASSUME [Next]_vars
  PROVE  WriterWrite \/ UNCHANGED <<file, hashes, ops, iterOps>>
<1>1. ASSUME NEW w \in Workers, Execute(w) \/ WorkerStep(w)
      PROVE  UNCHANGED <<file, hashes, ops, iterOps>>
  BY <1>1 DEF Execute, WorkerStep, RecordEntry, TrySend, BlockedSend, WorkerStop,
              WorkerReason, fileVars
<1>2. ASSUME WriterStep, ~WriterWrite
      PROVE  UNCHANGED <<file, hashes, ops, iterOps>>
  BY <1>2 DEF WriterStep, WriterReceive, WriterCheck, WriterTruncate, Truncate,
              WriterFails, WriterStop, WriterReason, WriterExit, fileVars
<1>3. ASSUME NextIteration \/ CloseChannel \/ CloseStep \/ Crash \/ Terminated
      PROVE  UNCHANGED <<file, hashes, ops, iterOps>>
  BY <1>3 DEF NextIteration, CloseChannel, CloseStep, WriteTrailer, FlushAndClose,
              FlushFails, Crash, Terminated, fileVars, vars
<1> QED
  BY <1>1, <1>2, <1>3 DEF Next, vars, fileVars

\* Every line is counted once, for the iteration it is stamped with.
LEMMA CountsStep ==
  ASSUME Inv, CountsInv, [Next]_vars
  PROVE  CountsInv'
<1>1. CASE UNCHANGED <<file, hashes, ops, iterOps>>
  BY <1>1 DEF CountsInv, LinesOf
<1>2. CASE WriterWrite
  <2> DEFINE e == log[taken].iter
             k == Len(file) + 1
  <2>1. /\ Len(file) \in Nat /\ Len(file') = k
        /\ \A i \in 1..Len(file) : file'[i] = file[i]
        /\ file'[k].iter = e
        /\ ops' = ops + 1
        /\ Multi => iterOps' = [iterOps EXCEPT ![e] = @ + 1]
    BY <1>2, WriteGrows
  <2> HIDE DEF e
  <2>2. ASSUME Multi, NEW it \in 1..Iterations
        PROVE  iterOps'[it] = Cardinality(LinesOf(it))'
    <3>1. iterOps \in [1..Iterations -> Nat] /\ iterOps[it] = Cardinality(LinesOf(it))
      BY <2>2 DEF CountsInv, Inv, TypeInv, TypeOK, FileTypes
    <3>2. IsFiniteSet(1..Len(file))
      BY <2>1, FS_Interval
    <3>3. IsFiniteSet(LinesOf(it))
      BY <3>2, FS_Subset DEF LinesOf
    <3>4. CASE it = e
      <4>1. LinesOf(it)' = LinesOf(it) \cup {k} /\ k \notin LinesOf(it)
        BY <2>1, <3>4 DEF LinesOf
      <4>2. Cardinality(LinesOf(it) \cup {k}) = Cardinality(LinesOf(it)) + 1
        BY <3>3, <4>1, FS_AddElement
      <4>3. iterOps'[it] = iterOps[it] + 1
        BY <2>1, <2>2, <3>1, <3>4
      <4> QED
        BY <3>1, <4>1, <4>2, <4>3
    <3>5. CASE it # e
      <4>1. LinesOf(it)' = LinesOf(it)
        BY <2>1, <3>5 DEF LinesOf
      <4>2. iterOps'[it] = iterOps[it]
        BY <2>1, <2>2, <3>1, <3>5
      <4> QED
        BY <3>1, <4>1, <4>2
    <3> QED
      BY <3>4, <3>5
  <2>3. Multi' <=> Multi
    BY DEF Multi
  <2> QED
    BY <2>1, <2>2, <2>3 DEF CountsInv
<1> QED
  BY <1>1, <1>2, FileFrame

\* The stamps that are set, and the entries that are sent with them.
LEMMA StampStep ==
  ASSUME Inv, StampInv, [Next]_vars
  PROVE  StampInv'
<1> DEFINE it(j) == IF Multi THEN j ELSE 0
<1>1. /\ Len(log) \in Nat /\ iteration \in 1..Iterations /\ Iterations \in Nat \ {0}
      /\ pc \in [Workers -> {"idle", "record", "send", "blocked", "stop", "reason"}]
      /\ stamp \in [Workers -> 0..Iterations]
      /\ Len(file) <= Len(log) /\ Len(file) \in Nat
  <2>1. /\ pc \in [Workers -> {"idle", "record", "send", "blocked", "stop", "reason"}]
        /\ stamp \in [Workers -> 0..Iterations]
    BY DEF Inv, TypeInv, TypeOK, WorkerTypes
  <2>2. Len(log) \in Nat /\ taken \in 0..Len(log) /\ Len(file) \in Nat /\ Len(file) <= taken
    BY DEF Inv, TypeInv, TypeOK, ChannelTypes, FileTypes, IInv, FileInv
  <2>3. Len(file) <= Len(log)
    BY <2>2
  <2>4. iteration \in 1..Iterations /\ Iterations \in Nat \ {0}
    BY RecorderAssumption DEF Inv, TypeInv, TypeOK, ControllerTypes
  <2> QED
    BY <2>1, <2>2, <2>3, <2>4
<1>2. ASSUME NEW w \in Workers, pc[w] \in {"send", "blocked"}, log' = Append(log, Entry(w)),
             pc' = [pc EXCEPT ![w] = "idle"], UNCHANGED <<stamp, file, iteration>>
      PROVE  StampInv'
  <2>1. /\ Len(log') = Len(log) + 1
        /\ \A i \in 1..Len(log) : log'[i] = log[i]
        /\ log'[Len(log) + 1].iter = stamp[w]
    BY <1>2, LogGrows DEF Inv, TypeInv, Entry
  <2>2. stamp[w] = it(iteration)
    BY <1>2 DEF StampInv
  <2>3. ASSUME NEW i \in 1..Len(log')
        PROVE  /\ IF Multi THEN log'[i].iter \in 1..iteration ELSE log'[i].iter = 0
               /\ \A j \in 1..(i-1) : log'[j].iter <= log'[i].iter
    <3>1. CASE i \in 1..Len(log)
      <4>1. log'[i] = log[i] /\ \A j \in 1..(i-1) : log'[j] = log[j]
        BY <1>1, <2>1, <3>1
      <4> QED
        BY <3>1, <4>1 DEF StampInv
    <3>2. CASE i = Len(log) + 1
      <4>1. log'[i].iter = it(iteration)
        BY <2>1, <2>2, <3>2
      <4>2. \A j \in 1..(i-1) : log'[j] = log[j] /\ j \in 1..Len(log)
        BY <1>1, <2>1, <3>2
      <4>3. \A j \in 1..Len(log) : log[j].iter <= it(iteration)
        BY <1>1 DEF StampInv
      <4> QED
        BY <1>1, <4>1, <4>2, <4>3
    <3> QED
      BY <1>1, <2>1, <3>1, <3>2
  <2>4. \A v \in Workers : pc'[v] \in {"send", "blocked"} => pc[v] \in {"send", "blocked"}
    BY <1>1, <1>2
  <2>5. \A i \in 1..Len(file) : file[i].iter = log'[i].iter
    BY <1>1, <2>1 DEF StampInv
  <2> QED
    BY <1>2, <2>3, <2>4, <2>5 DEF StampInv, Multi
<1>3. ASSUME UNCHANGED <<log, file, iteration>>,
             \A v \in Workers : pc'[v] \in {"send", "blocked"} =>
                \/ pc[v] \in {"send", "blocked"} /\ stamp'[v] = stamp[v]
                \/ stamp'[v] = it(iteration)
      PROVE  StampInv'
  BY <1>3 DEF StampInv, Multi
<1>4. ASSUME NEW w \in Workers, Execute(w) \/ WorkerStep(w) PROVE StampInv'
  <2>1. UNCHANGED <<file, iteration>>
    BY <1>4 DEF Execute, WorkerStep, RecordEntry, TrySend, BlockedSend, WorkerStop,
                WorkerReason, fileVars, ctlVars
  <2>2. CASE Execute(w)
    BY <1>1, <1>3, <2>1, <2>2 DEF Execute, chanVars
  <2>3. CASE RecordEntry(w)
    BY <1>1, <1>3, <2>1, <2>3 DEF RecordEntry, chanVars
  <2>4. CASE TrySend(w) /\ log' = log
    BY <1>1, <1>3, <2>1, <2>4 DEF TrySend
  <2>5. CASE TrySend(w) /\ log' # log
    BY <1>2, <2>1, <2>5 DEF TrySend
  <2>6. CASE BlockedSend(w)
    BY <1>2, <2>1, <2>6 DEF BlockedSend
  <2>7. CASE WorkerStop(w) \/ WorkerReason(w)
    BY <1>1, <1>3, <2>1, <2>7 DEF WorkerStop, WorkerReason, chanVars
  <2> QED
    BY <1>4, <2>2, <2>3, <2>4, <2>5, <2>6, <2>7 DEF WorkerStep
<1>5. ASSUME WriterStep PROVE StampInv'
  <2>1. UNCHANGED <<pc, stamp, log, iteration>>
    BY <1>5 DEF WriterStep, WriterReceive, WriterCheck, WriterWrite, WriterTruncate,
                WriterFails, WriterStop, WriterReason, WriterExit, workerVars, chanVars, ctlVars
  <2>2. CASE UNCHANGED file
    BY <1>3, <2>1, <2>2
  <2>3. CASE WriterWrite
    <3>1. /\ Len(file') = Len(file) + 1 /\ Len(file) + 1 = taken
          /\ \A i \in 1..Len(file) : file'[i] = file[i]
          /\ file'[Len(file) + 1].iter = log[taken].iter
      BY <2>3, WriteGrows
    <3>2. \A i \in 1..Len(file') : file'[i].iter = log[i].iter
      BY <1>1, <3>1 DEF StampInv
    <3> QED
      BY <2>1, <3>2 DEF StampInv, Multi
  <2> QED
    BY <1>5, <2>2, <2>3, FileFrame DEF Next
<1>6. CASE NextIteration
  <2>1. /\ UNCHANGED <<pc, stamp, log, file>> /\ iteration' = iteration + 1
        /\ \A v \in Workers : pc[v] = "idle"
    BY <1>6 DEF NextIteration, Idle, workerVars, chanVars, fileVars
  <2>2. \A i \in 1..Len(log) :
           IF Multi THEN log[i].iter \in 1..(iteration + 1) ELSE log[i].iter = 0
    BY <1>1 DEF StampInv
  <2> QED
    BY <2>1, <2>2 DEF StampInv, Multi
<1>7. CASE CloseChannel \/ CloseStep \/ Crash \/ Terminated \/ UNCHANGED vars
  <2>1. UNCHANGED <<pc, stamp, log, file, iteration>>
    BY <1>7 DEF CloseChannel, CloseStep, WriteTrailer, FlushAndClose, FlushFails, Crash,
                Terminated, vars, workerVars, chanVars, fileVars, ctlVars
  <2> QED
    BY <1>3, <2>1
<1> QED
  BY <1>4, <1>5, <1>6, <1>7 DEF Next

-----------------------------------------------------------------------------
(* The reason, the limit and the trailer *)

\* While nobody stores a reason or ends the recorder, the reasons fit.
LEMMA ReasonFrame ==
  ASSUME ReasonInv, UNCHANGED stateVars,
         wpc' = "reason" <=> wpc = "reason", wpc = "reason" => wcause' = wcause,
         \A w \in Workers :
            /\ pc'[w] = "reason" <=> pc[w] = "reason"
            /\ pc[w] = "reason" => cause'[w] = cause[w]
            /\ pc'[w] = "stop" => cause'[w] # "max_bytes",
         ReasonMatchesStatus'
  PROVE  ReasonInv'
<1>1. state' = state /\ reason' = reason
  BY DEF stateVars
<1>2. \A w \in Workers : pc'[w] \in {"stop", "reason"} => cause'[w] # "max_bytes"
  BY DEF ReasonInv
<1>3. \A w \in Workers : pc'[w] = "reason" =>
          /\ state' = StoppedState(cause'[w])
          /\ wpc' # "reason"
          /\ \A v \in Workers : pc'[v] = "reason" => v = w
  BY <1>1 DEF ReasonInv
<1>4. wpc' = "reason" => state' = StoppedState(wcause')
  BY <1>1 DEF ReasonInv
<1>5. \/ state' = "recording" \/ wpc' = "reason" \/ \E w \in Workers : pc'[w] = "reason"
      \/ reason' \in Causes /\ state' = StoppedState(reason')
  BY <1>1 DEF ReasonInv
<1>6. state' = "recording" => reason' = None
  BY <1>1 DEF ReasonInv
<1> QED
  BY <1>2, <1>3, <1>4, <1>5, <1>6 DEF ReasonInv, StoppedState, Causes

\* What a goroutine that stores a reason may rely on.
LEMMA ReasonFacts ==
  ASSUME Inv
  PROVE  /\ pc \in [Workers -> {"idle", "record", "send", "blocked", "stop", "reason"}]
         /\ cause \in [Workers -> Causes \cup {None}]
         /\ \A w \in Workers : pc[w] \in {"stop", "reason"} => cause[w] \in Causes
         /\ wpc \in {"stop", "reason"} => wcause \in Causes
         /\ state \in {"recording", "truncated", "failed"}
         /\ \A w \in Workers : pc[w] = "reason" => state # "recording"
         /\ wpc = "reason" => state # "recording"
<1>1. \A w \in Workers : pc[w] = "reason" => state # "recording"
  BY DEF Inv, IInv, SenderInv, SenderClauses
<1>2. wpc = "reason" => state # "recording"
  BY DEF Inv, IInv, FileInv
<1> QED
  BY <1>1, <1>2 DEF Inv, TypeInv, TypeOK, WorkerTypes, WriterTypes, CauseTypes

\* The stop of a worker: whoever wins the compare-and-swap stores its reason.
LEMMA ReasonWorker ==
  ASSUME Inv, ReasonInv, NEW w \in Workers, Execute(w) \/ WorkerStep(w)
  PROVE  ReasonInv'
<1> USE ReasonFacts
<1>1. ctl = "running" /\ UNCHANGED <<wpc, wcause, ctl, result>>
  BY DEF Execute, WorkerStep, RecordEntry, TrySend, BlockedSend, WorkerStop,
         WorkerReason, writerVars, ctlVars
<1>2. ReasonMatchesStatus'
  BY <1>1 DEF ReasonMatchesStatus
<1>3. CASE Execute(w) \/ RecordEntry(w) \/ TrySend(w) \/ BlockedSend(w)
  <2>1. UNCHANGED stateVars
    BY <1>3 DEF Execute, RecordEntry, TrySend, BlockedSend
  <2>2. \A v \in Workers : v # w => pc'[v] = pc[v] /\ cause'[v] = cause[v]
    BY <1>3 DEF Execute, RecordEntry, TrySend, BlockedSend
  <2>3. /\ pc[w] # "reason" /\ pc'[w] # "reason"
        /\ pc'[w] = "stop" => cause'[w] \in {"encode_error", "queue_full"}
    BY <1>3 DEF Execute, RecordEntry, TrySend, BlockedSend, stateVars
  <2>4. \A v \in Workers :
            /\ pc'[v] = "reason" <=> pc[v] = "reason"
            /\ pc[v] = "reason" => cause'[v] = cause[v]
            /\ pc'[v] = "stop" => cause'[v] # "max_bytes"
    BY <2>2, <2>3 DEF ReasonInv
  <2> QED
    BY <1>1, <1>2, <2>1, <2>4, ReasonFrame
<1>4. CASE WorkerStop(w) /\ state # "recording"
  <2>1. /\ UNCHANGED stateVars /\ UNCHANGED cause
        /\ pc' = [pc EXCEPT ![w] = "idle"] /\ pc[w] = "stop"
    BY <1>4 DEF WorkerStop, stateVars
  <2>2. \A v \in Workers :
            /\ pc'[v] = "reason" <=> pc[v] = "reason"
            /\ pc[v] = "reason" => cause'[v] = cause[v]
            /\ pc'[v] = "stop" => cause'[v] # "max_bytes"
    BY <2>1 DEF ReasonInv
  <2> QED
    BY <1>1, <1>2, <2>1, <2>2, ReasonFrame
<1>5. CASE WorkerStop(w) /\ state = "recording"
  <2>1. /\ state' = StoppedState(cause[w]) /\ UNCHANGED <<reason, cause>>
        /\ pc' = [pc EXCEPT ![w] = "reason"] /\ pc[w] = "stop"
    BY <1>5 DEF WorkerStop
  <2>2. /\ \A v \in Workers : pc[v] # "reason"
        /\ wpc # "reason" /\ cause[w] \in Causes
    BY <1>5, <2>1
  <2>3. \A v \in Workers : pc'[v] = "reason" <=> v = w
    BY <2>1, <2>2
  <2>4. \A v \in Workers : pc'[v] \in {"stop", "reason"} => cause'[v] # "max_bytes"
    BY <2>1 DEF ReasonInv
  <2>5. state' # "recording"
    BY <2>1, <2>2 DEF StoppedState
  <2> QED
    BY <1>1, <1>2, <2>1, <2>2, <2>3, <2>4, <2>5 DEF ReasonInv, StoppedState
<1>6. CASE WorkerReason(w)
  <2>1. /\ reason' = cause[w] /\ UNCHANGED <<state, cause>>
        /\ pc' = [pc EXCEPT ![w] = "idle"] /\ pc[w] = "reason"
    BY <1>6 DEF WorkerReason
  <2>2. /\ state = StoppedState(cause[w]) /\ wpc # "reason" /\ cause[w] \in Causes
        /\ \A v \in Workers : pc[v] = "reason" => v = w
        /\ state # "recording"
    BY <2>1 DEF ReasonInv
  <2>3. \A v \in Workers : pc'[v] # "reason"
    BY <2>1, <2>2
  <2>4. \A v \in Workers : pc'[v] \in {"stop", "reason"} => cause'[v] # "max_bytes"
    BY <2>1 DEF ReasonInv
  <2> QED
    BY <1>1, <1>2, <2>1, <2>2, <2>3, <2>4 DEF ReasonInv, StoppedState
<1> QED
  BY <1>3, <1>4, <1>5, <1>6 DEF WorkerStep

\* The stop of the writer.
LEMMA ReasonWriter ==
  ASSUME Inv, ReasonInv, WriterStep
  PROVE  ReasonInv'
<1> USE ReasonFacts
<1>1. ctl \in {"running", "closing"} /\ UNCHANGED <<pc, cause, ctl, result>>
  BY DEF WriterStep, WriterReceive, WriterCheck, WriterWrite, WriterTruncate, WriterFails,
         WriterStop, WriterReason, WriterExit, workerVars, ctlVars, Alive
<1>2. ReasonMatchesStatus'
  BY <1>1 DEF ReasonMatchesStatus
<1>3. \A v \in Workers :
            /\ pc'[v] = "reason" <=> pc[v] = "reason"
            /\ pc[v] = "reason" => cause'[v] = cause[v]
            /\ pc'[v] = "stop" => cause'[v] # "max_bytes"
  BY <1>1 DEF ReasonInv
<1>4. CASE \/ WriterReceive \/ WriterCheck \/ WriterWrite \/ WriterTruncate
           \/ WriterFails \/ WriterExit \/ (WriterStop /\ state # "recording")
  <2>1. UNCHANGED stateVars /\ wpc # "reason" /\ wpc' # "reason"
    BY <1>4 DEF WriterReceive, WriterCheck, WriterWrite, WriterTruncate, WriterFails,
                WriterStop, WriterExit, stateVars
  <2> QED
    BY <1>1, <1>2, <1>3, <2>1, ReasonFrame
<1>5. CASE WriterStop /\ state = "recording"
  <2>1. /\ state' = StoppedState(wcause) /\ wpc = "stop" /\ wpc' = "reason"
        /\ UNCHANGED <<reason, wcause>>
    BY <1>5 DEF WriterStop
  <2>2. \A v \in Workers : pc[v] # "reason"
    BY <1>5
  <2>3. state' # "recording"
    BY <2>1 DEF StoppedState
  <2>4. \A v \in Workers : pc'[v] \in {"stop", "reason"} => cause'[v] # "max_bytes"
    BY <1>1 DEF ReasonInv
  <2> QED
    BY <1>1, <1>2, <2>1, <2>2, <2>3, <2>4 DEF ReasonInv, StoppedState
<1>6. CASE WriterReason
  <2>1. /\ reason' = wcause /\ wpc = "reason" /\ wpc' = "receive"
        /\ UNCHANGED <<state, wcause>>
    BY <1>6 DEF WriterReason
  <2>2. /\ state = StoppedState(wcause) /\ wcause \in Causes /\ state # "recording"
        /\ \A v \in Workers : pc[v] # "reason"
    BY <2>1 DEF ReasonInv
  <2>3. \A v \in Workers : pc'[v] \in {"stop", "reason"} => cause'[v] # "max_bytes"
    BY <1>1 DEF ReasonInv
  <2> QED
    BY <1>1, <1>2, <2>1, <2>2, <2>3 DEF ReasonInv, StoppedState
<1> QED
  BY <1>4, <1>5, <1>6 DEF WriterStep

\* Close reports the reason once nobody can store one any more.
LEMMA ReasonController ==
  ASSUME Inv, ReasonInv, NextIteration \/ CloseChannel \/ CloseStep \/ Crash \/ Terminated
  PROVE  ReasonInv'
<1>1. UNCHANGED <<stateVars, wpc, wcause, pc, cause>>
  BY DEF NextIteration, CloseChannel, CloseStep, WriteTrailer, FlushAndClose,
         FlushFails, Crash, Terminated, vars, writerVars, workerVars
<1>2. ReasonMatchesStatus'
  <2>1. CASE NextIteration \/ CloseChannel \/ WriteTrailer \/ Crash
    BY <2>1 DEF NextIteration, CloseChannel, WriteTrailer, Crash, ReasonMatchesStatus
  <2>2. CASE Terminated
    BY <2>2 DEF Terminated, vars, ctlVars, ReasonMatchesStatus, ReasonInv
  <2>3. CASE FlushAndClose \/ FlushFails
    <3>1. ctl = "flushing"
      BY <2>3 DEF FlushAndClose, FlushFails
    <3>2. wpc = "done" /\ \A w \in Workers : pc[w] = "idle"
      BY <3>1 DEF Inv, IInv, CloseInv, Idle
    <3>3. \/ state = "recording" /\ reason = None
          \/ state # "recording" /\ reason \in Causes /\ state = StoppedState(reason)
      BY <3>2 DEF ReasonInv
    <3>4. /\ FinalStatus = "complete" <=> reason = None
          /\ FinalStatus = "truncated" <=> reason = "max_bytes"
      BY <3>3 DEF FinalStatus, StoppedState, Causes, None
    <3>5. \/ result' = [status |-> FinalStatus, reason |-> reason]
          \/ result' = [status |-> "failed", reason |-> "write_error"]
      BY <2>3 DEF FlushAndClose, FlushFails
    <3>6. CASE result' = [status |-> FinalStatus, reason |-> reason]
      <4>1. result'.status = FinalStatus /\ result'.reason = reason
        BY <3>6
      <4> QED
        BY <3>4, <4>1 DEF ReasonMatchesStatus
    <3>7. CASE result' = [status |-> "failed", reason |-> "write_error"]
      BY <3>7 DEF ReasonMatchesStatus, None
    <3> QED
      BY <3>5, <3>6, <3>7
  <2> QED
    BY <2>1, <2>2, <2>3 DEF CloseStep
<1>3. \A v \in Workers : pc'[v] = "stop" => cause'[v] # "max_bytes"
  BY <1>1 DEF ReasonInv
<1> QED
  BY <1>1, <1>2, <1>3, ReasonFrame

LEMMA ReasonStep ==
  ASSUME Inv, ReasonInv, [Next]_vars
  PROVE  ReasonInv'
<1>1. ASSUME UNCHANGED vars PROVE ReasonInv'
  BY <1>1 DEF vars, workerVars, stateVars, writerVars, ctlVars, ReasonInv, ReasonMatchesStatus
<1> QED
  BY <1>1, ReasonWorker, ReasonWriter, ReasonController DEF Next

\* A line is only written when the trailer still fits after it.
LEMMA BytesStep ==
  ASSUME Inv, BytesInv, [Next]_vars
  PROVE  BytesInv'
<1>1. /\ bytes \in Nat /\ MaxBytes \in Nat /\ HeaderBytes \in Nat /\ Reserve \in Nat
      /\ OpBytes \subseteq Nat /\ TrailerBytes \subseteq Nat
  BY RecorderAssumption DEF Inv, TypeInv, TypeOK, FileTypes
<1>2. ASSUME UNCHANGED bytes, ctl' \in {"running", "closing"} => ctl \in {"running", "closing"}
      PROVE  BytesInv'
  BY <1>2 DEF BytesInv, WithinMaxBytes
<1>3. ASSUME NEW w \in Workers, Execute(w) \/ WorkerStep(w) PROVE BytesInv'
  BY <1>2, <1>3 DEF Execute, WorkerStep, RecordEntry, TrySend, BlockedSend, WorkerStop,
                    WorkerReason, fileVars, ctlVars
<1>4. CASE WriterWrite
  <2>1. PICK b \in OpBytes : ~OverLimit(b) /\ bytes' = bytes + b
    BY <1>4 DEF WriterWrite, WriteLine
  <2>2. MaxBytes > 0 => bytes' + Reserve <= MaxBytes /\ bytes' <= MaxBytes
    BY <1>1, <2>1 DEF OverLimit
  <2> QED
    BY <2>2 DEF BytesInv, WithinMaxBytes
<1>5. CASE WriterStep /\ ~WriterWrite
  BY <1>2, <1>5 DEF WriterStep, WriterReceive, WriterCheck, WriterTruncate, Truncate,
                    WriterFails, WriterStop, WriterReason, WriterExit, fileVars, ctlVars
<1>6. CASE WriteTrailer
  <2>1. ctl = "closing" /\ ctl' = "flushing"
    BY <1>6 DEF WriteTrailer
  <2>2. bytes' = bytes \/ \E b \in TrailerBytes : bytes' = bytes + b
    BY <1>6 DEF WriteTrailer
  <2>3. CASE bytes' = bytes
    BY <1>2, <2>1, <2>3
  <2>4. CASE \E b \in TrailerBytes : bytes' = bytes + b
    <3>1. PICK b \in TrailerBytes : bytes' = bytes + b
      BY <2>4
    <3>2. ASSUME MaxBytes > 0, HeaderBytes + Reserve <= MaxBytes,
                 \A c \in TrailerBytes : c <= Reserve
          PROVE  bytes' <= MaxBytes
      <4>1. bytes + Reserve <= MaxBytes /\ b <= Reserve
        BY <2>1, <3>2 DEF BytesInv
      <4> QED
        BY <1>1, <3>1, <4>1
    <3> QED
      BY <2>1, <3>2 DEF BytesInv, WithinMaxBytes
  <2> QED
    BY <2>2, <2>3, <2>4
<1>7. CASE \/ NextIteration \/ CloseChannel \/ FlushAndClose \/ FlushFails \/ Crash
           \/ Terminated \/ UNCHANGED vars
  BY <1>2, <1>7 DEF NextIteration, CloseChannel, FlushAndClose, FlushFails, Crash,
                    Terminated, vars, fileVars, ctlVars
<1> QED
  BY <1>3, <1>4, <1>5, <1>6, <1>7 DEF Next, CloseStep

\* Once the trailer is written the workers are gone and the writer is done.
LEMMA TrailerStep ==
  ASSUME Inv, TrailerInv, [Next]_vars
  PROVE  TrailerInv'
<1>1. trailer # NoTrailer =>
         /\ wpc = "done" /\ ctl \notin {"running", "closing"}
  BY DEF Inv, IInv, CloseInv
<1>2. Len(file) \in Nat /\ disk.lines \in Nat
  BY DEF Inv, TypeInv, TypeOK, FileTypes, ControllerTypes
<1>3. CASE \E w \in Workers : Execute(w) \/ WorkerStep(w)
  <2>1. ctl = "running" /\ UNCHANGED <<trailer, disk, file>>
    BY <1>3 DEF Execute, WorkerStep, RecordEntry, TrySend, BlockedSend, WorkerStop,
                WorkerReason, fileVars, ctlVars
  <2> QED
    BY <1>1, <2>1 DEF TrailerInv
<1>4. CASE WriterStep
  <2>1. ctl \in {"running", "closing"} /\ UNCHANGED <<trailer, disk>>
    BY <1>4 DEF WriterStep, WriterReceive, WriterCheck, WriterWrite, WriterTruncate,
                WriterFails, WriterStop, WriterReason, WriterExit, ctlVars, Alive
  <2>2. Len(file') >= Len(file) /\ Len(file') \in Nat
    BY <1>2, <1>4, WriteGrows, FileFrame DEF Next
  <2> QED
    BY <1>1, <1>2, <2>1, <2>2 DEF TrailerInv
<1>5. CASE WriteTrailer
  <2>1. /\ ctl = "closing" /\ UNCHANGED <<disk, file, stateVars, ops, workerSeq, hashes, iterOps>>
        /\ \/ ~broken /\ trailer' = TrailerLine /\ broken' = broken
           \/ trailer' = trailer
    BY <1>5 DEF WriteTrailer
  <2>2. TrailerLine' = TrailerLine
    BY <2>1 DEF TrailerLine, FinalStatus, stateVars, Multi
  <2> QED
    BY <1>1, <2>1, <2>2 DEF TrailerInv
<1>6. CASE \/ NextIteration \/ CloseChannel \/ FlushAndClose \/ FlushFails \/ Crash
           \/ Terminated \/ UNCHANGED vars
  <2>1. UNCHANGED <<trailer, broken, fileVars, stateVars>>
    BY <1>6 DEF NextIteration, CloseChannel, FlushAndClose, FlushFails, Crash,
                Terminated, vars, writerVars, ctlVars
  <2>2. TrailerLine' = TrailerLine
    BY <2>1 DEF TrailerLine, FinalStatus, stateVars, fileVars, Multi
  <2>3. disk' = disk \/ (disk' \in Disks /\ Cut(disk')) \/ disk'.lines = Len(file)
    BY <1>6 DEF NextIteration, CloseChannel, FlushAndClose, FlushFails, Crash,
                Terminated, vars, ctlVars
  <2>4. disk'.lines <= Len(file')
    BY <1>2, <2>1, <2>3 DEF fileVars, Cut, TrailerInv
  <2> QED
    BY <2>1, <2>2, <2>4 DEF TrailerInv
<1> QED
  BY <1>3, <1>4, <1>5, <1>6 DEF Next, CloseStep

\* In every reachable state.
LEMMA ResultInvariance == Spec => [](Inv /\ ResultInv)
<1>1. Inv /\ ResultInv /\ [Next]_vars => ResultInv'
  BY CountsStep, StampStep, ReasonStep, BytesStep, TrailerStep DEF ResultInv
<1> QED
  BY <1>1, ResultInit, Invariance, PTL DEF Spec

-----------------------------------------------------------------------------
(* What a reader of the file counts *)

\* F numbers the elements of S 1, 2, ..., n without a gap or a repetition.
Numbers(F, S, n) ==
    /\ n \in Nat /\ F \in [S -> 1..n]
    /\ \A a, b \in S : F[a] = F[b] => a = b
    /\ \A k \in 1..n : \E a \in S : F[a] = k

\* A set so numbered has n elements.
LEMMA Numbered ==
  ASSUME NEW S, NEW n, NEW F, Numbers(F, S, n)
  PROVE  Cardinality(S) = n
<1>1. F \in Injection(S, 1..n)
  BY DEF Numbers, Injection, IsInjective
<1>2. F \in Surjection(S, 1..n)
  BY DEF Numbers, Surjection
<1>3. IsFiniteSet(1..n)
  BY FS_Interval DEF Numbers
<1>4. Cardinality(1..n) = n
  <2>1. Cardinality(1..n) = IF 1 > n THEN 0 ELSE n - 1 + 1
    BY FS_Interval DEF Numbers
  <2> QED
    BY <2>1 DEF Numbers
<1>5. IsFiniteSet(S) /\ Cardinality(S) = Cardinality(1..n)
  BY <1>1, <1>2, <1>3, FS_Injection
<1> QED
  BY <1>4, <1>5

\* The lines of the file, as the invariant has them.
LEMMA FileLines ==
  ASSUME Inv
  PROVE  /\ Len(file) \in Nat
         /\ \A i \in 1..Len(file) :
               /\ IsOp(file[i]) /\ ~IsTrailer(file[i])
               /\ file[i].worker \in Workers /\ file[i].n \in Nat /\ file[i].n >= 1
               /\ file[i].iter \in Nat
               /\ file[i].wseq = file[i].n
               /\ file[i].n <= Len(hashes[file[i].worker])
               /\ \A j \in 1..(i-1) :
                     file[j].worker = file[i].worker => file[j].n < file[i].n
               /\ \A m \in 1..(file[i].n - 1) :
                     \E j \in 1..(i-1) : file[j].worker = file[i].worker /\ file[j].n = m
<1>1. Len(file) \in Nat /\ \A i \in 1..Len(file) : file[i] \in OpLine
  BY DEF Inv, TypeInv, TypeOK, FileTypes
<1>2. Len(log) \in Nat /\ Len(file) <= Len(log)
  BY <1>1 DEF Inv, TypeInv, TypeOK, ChannelTypes, IInv, FileInv
<1>3. \A i \in 1..Len(file) :
         file[i].worker = log[i].worker /\ file[i].n = log[i].n /\ file[i].wseq = log[i].n
  BY DEF Inv, IInv, FileInv
<1> SUFFICES ASSUME NEW i \in 1..Len(file)
             PROVE  /\ IsOp(file[i]) /\ ~IsTrailer(file[i])
                    /\ file[i].worker \in Workers /\ file[i].n \in Nat /\ file[i].n >= 1
                    /\ file[i].iter \in Nat
                    /\ file[i].wseq = file[i].n
                    /\ file[i].n <= Len(hashes[file[i].worker])
                    /\ \A j \in 1..(i-1) :
                          file[j].worker = file[i].worker => file[j].n < file[i].n
                    /\ \A m \in 1..(file[i].n - 1) :
                          \E j \in 1..(i-1) : file[j].worker = file[i].worker /\ file[j].n = m
  BY <1>1
<1>4. /\ IsOp(file[i]) /\ ~IsTrailer(file[i])
      /\ file[i].worker \in Workers /\ file[i].n \in Nat /\ file[i].iter \in Nat
  BY <1>1 DEF OpLine, IsOp, IsTrailer
<1>5. i \in 1..Len(log)
  BY <1>1, <1>2
<1>6. file[i].n >= 1
  <2>1. log[i].n \in 1..sent[log[i].worker] /\ sent[log[i].worker] \in Nat
    BY <1>5, LogEntries DEF Inv, IInv, LogInv, TypeInv
  <2> QED
    BY <1>3, <2>1
<1>7. file[i].n <= Len(hashes[file[i].worker])
  BY DEF Inv, IInv, CounterInv
<1>8. /\ \A j \in 1..(i-1) : log[j].worker = log[i].worker => log[j].n < log[i].n
      /\ \A m \in 1..(log[i].n - 1) :
            \E j \in 1..(i-1) : log[j].worker = log[i].worker /\ log[j].n = m
  BY <1>5 DEF Inv, IInv, LogInv
<1>9. \A j \in 1..(i-1) : j \in 1..Len(file)
  BY <1>1
<1>10. \A j \in 1..(i-1) : file[j].worker = log[j].worker /\ file[j].n = log[j].n
  BY <1>3, <1>9
<1> QED
  BY <1>3, <1>4, <1>6, <1>7, <1>8, <1>10

\* The lines of a worker up to one of them are as many as its number says.
LEMMA LineRank ==
  ASSUME Inv, NEW i \in 1..Len(file)
  PROVE  Cardinality(OpsOf(file, file[i].worker, i)) = file[i].n
<1> DEFINE own == OpsOf(file, file[i].worker, i)
           n == file[i].n
           F == [j \in own |-> file[j].n]
<1>1. own = {j \in 1..i : file[j].worker = file[i].worker}
  BY FileLines DEF OpsOf
<1>2. \A j \in own : j \in 1..Len(file) /\ (j = i \/ j \in 1..(i-1))
  BY <1>1, FileLines
<1>3. \A j \in own : file[j].n \in 1..n
  <2> SUFFICES ASSUME NEW j \in own PROVE file[j].n \in 1..n
    OBVIOUS
  <2>1. file[j].n \in Nat /\ file[j].n >= 1 /\ n \in Nat
    BY <1>2, FileLines
  <2>2. file[j].worker = file[i].worker
    BY <1>1
  <2>3. j = i \/ file[j].n < n
    BY <1>2, <2>2, FileLines
  <2> QED
    BY <2>1, <2>3
<1>4. \A j, k \in own : file[j].n = file[k].n => j = k
  <2> SUFFICES ASSUME NEW j \in own, NEW k \in own, j < k PROVE file[j].n < file[k].n
    <3>1. \A j \in own : file[j].n \in Nat /\ j \in Nat
      BY <1>2, FileLines
    <3> QED
      BY <3>1
  <2>1. j \in 1..(k-1) /\ k \in 1..Len(file) /\ file[j].worker = file[k].worker
    BY <1>1, <1>2
  <2> QED
    BY <2>1, FileLines
<1>5. \A m \in 1..n : \E j \in own : file[j].n = m
  <2> SUFFICES ASSUME NEW m \in 1..n PROVE \E j \in own : file[j].n = m
    OBVIOUS
  <2>1. CASE m = n
    BY <1>1, <2>1
  <2>2. CASE m # n
    <3>1. m \in 1..(file[i].n - 1)
      BY <2>2, FileLines
    <3>2. PICK j \in 1..(i-1) : file[j].worker = file[i].worker /\ file[j].n = m
      BY <3>1, FileLines
    <3> QED
      BY <1>1, <3>2
  <2> QED
    BY <2>1, <2>2
<1>6. n \in Nat
  BY FileLines
<1>7. Cardinality(own) = n
  <2>1. F \in [own -> 1..n]
    BY <1>3
  <2>2. \A j, k \in own : F[j] = F[k] => j = k
    BY <1>4
  <2>3. \A m \in 1..n : \E j \in own : F[j] = m
    BY <1>5
  <2>4. Numbers(F, own, n)
    BY <1>6, <2>1, <2>2, <2>3 DEF Numbers
  <2> HIDE DEF own, F, n
  <2> QED
    BY <2>4, Numbered
<1> QED
  BY <1>7

\* The stream a replay sends for a worker is what its hash covers.
LEMMA StreamHashed ==
  ASSUME Inv, NEW w \in Workers
  PROVE  /\ Len(hashes[w]) \in Nat
         /\ StreamOf(file, w) \in Seq({file[i] : i \in 1..Len(file)})
         /\ Len(StreamOf(file, w)) = Len(hashes[w])
         /\ \A k \in 1..Len(hashes[w]) : StreamOf(file, w)[k].n = hashes[w][k]
<1> DEFINE own == OpsOf(file, w, Len(file))
           h == Len(hashes[w])
           F == [j \in own |-> file[j].n]
           At(k) == CHOOSE i \in own : Cardinality(OpsOf(file, w, i)) = k
<1>1. h \in Nat /\ \A k \in 1..h :
         /\ hashes[w][k] = k
         /\ \E i \in 1..Len(file) : file[i].worker = w /\ file[i].n = k
  BY DEF Inv, TypeInv, TypeOK, FileTypes, IInv, CounterInv
<1>2. own = {i \in 1..Len(file) : file[i].worker = w}
  BY FileLines DEF OpsOf
<1>3. \A j \in own : file[j].n \in 1..h
  BY <1>1, <1>2, FileLines
<1>4. \A j, k \in own : file[j].n = file[k].n => j = k
  <2> SUFFICES ASSUME NEW j \in own, NEW k \in own, j < k PROVE file[j].n < file[k].n
    <3>1. \A j \in own : file[j].n \in Nat /\ j \in Nat
      BY <1>2, FileLines
    <3> QED
      BY <3>1
  <2>1. j \in 1..(k-1) /\ k \in 1..Len(file) /\ file[j].worker = file[k].worker
    BY <1>2, FileLines
  <2> QED
    BY <2>1, FileLines
<1>5. \A k \in 1..h : \E j \in own : file[j].n = k
  BY <1>1, <1>2
<1>6. Cardinality(own) = h
  <2>1. F \in [own -> 1..h]
    BY <1>3
  <2>2. \A j, k \in own : F[j] = F[k] => j = k
    BY <1>4
  <2>3. \A m \in 1..h : \E j \in own : F[j] = m
    BY <1>5
  <2>4. Numbers(F, own, h)
    BY <1>1, <2>1, <2>2, <2>3 DEF Numbers
  <2> HIDE DEF own, F, h
  <2> QED
    BY <2>4, Numbered
<1>7. \A i \in own : Cardinality(OpsOf(file, w, i)) = file[i].n
  BY <1>2, LineRank
<1>8. \A k \in 1..h : At(k) \in own /\ file[At(k)].n = k
  <2> SUFFICES ASSUME NEW k \in 1..h PROVE At(k) \in own /\ file[At(k)].n = k
    OBVIOUS
  <2>1. \E i \in own : Cardinality(OpsOf(file, w, i)) = k
    BY <1>5, <1>7
  <2>2. At(k) \in own /\ Cardinality(OpsOf(file, w, At(k))) = k
    BY <2>1
  <2> QED
    BY <1>7, <2>2
<1>9. StreamOf(file, w) = [k \in 1..h |-> file[At(k)]]
  BY <1>6 DEF StreamOf
<1>10. \A k \in 1..h : file[At(k)] \in {file[i] : i \in 1..Len(file)}
  BY <1>2, <1>8
<1>11. \A k \in 1..h : file[At(k)].n = hashes[w][k]
  BY <1>1, <1>8
<1> HIDE DEF At, h, own
<1>12. /\ StreamOf(file, w) \in Seq({file[i] : i \in 1..Len(file)})
       /\ Len(StreamOf(file, w)) = h
       /\ \A k \in 1..h : StreamOf(file, w)[k] = file[At(k)]
  <2>1. h \in Nat
    BY <1>1
  <2> QED
    BY <1>9, <1>10, <2>1
<1> QED
  BY <1>1, <1>11, <1>12 DEF h

-----------------------------------------------------------------------------
(* What is left on disk *)

\* Some of the lines, then the trailer or nothing.
LEMMA DiskLines ==
  ASSUME Inv, ResultInv
  PROVE  /\ disk.lines \in 0..Len(file)
         /\ Len(DiskFile) = IF disk.trailer THEN disk.lines + 1 ELSE disk.lines
         /\ \A i \in 1..disk.lines : DiskFile[i] = file[i] /\ i \in 1..Len(file)
         /\ disk.trailer =>
               /\ DiskFile[disk.lines + 1] = trailer
               /\ disk.lines = Len(file)
               /\ trailer = TrailerLine /\ ~broken
<1>1. /\ disk.lines \in 0..Len(file) /\ disk.trailer \in BOOLEAN
      /\ Len(file) \in Nat /\ file \in Seq(OpLine)
  BY DEF Inv, TypeInv, TypeOK, FileTypes, ControllerTypes, ResultInv, TrailerInv
<1>2. disk.trailer => disk.lines = Len(file) /\ trailer = TrailerLine /\ ~broken
  BY DEF Inv, IInv, CloseInv, ResultInv, TrailerInv
<1> DEFINE part == SubSeq(file, 1, disk.lines)
<1>3. /\ part \in Seq(OpLine) /\ Len(part) = disk.lines
      /\ \A i \in 1..disk.lines : part[i] = file[i]
  BY <1>1
<1>4. DiskFile = part \o (IF disk.trailer THEN <<trailer>> ELSE << >>)
  BY DEF DiskFile
<1> HIDE DEF part
<1>5. CASE disk.trailer
  <2>1. DiskFile = part \o <<trailer>>
    BY <1>4, <1>5
  <2>2. /\ Len(DiskFile) = disk.lines + 1 /\ DiskFile[disk.lines + 1] = trailer
        /\ \A i \in 1..disk.lines : DiskFile[i] = part[i]
    BY <1>1, <1>3, <2>1
  <2> QED
    BY <1>1, <1>2, <1>3, <1>5, <2>2
<1>6. CASE ~disk.trailer
  <2>1. DiskFile = part \o << >>
    BY <1>4, <1>6
  <2>2. DiskFile = part
    BY <1>3, <2>1
  <2> QED
    BY <1>1, <1>2, <1>3, <1>6, <2>2
<1> QED
  BY <1>5, <1>6

\* The operation lines of the file on disk are those of the file.
LEMMA DiskOps ==
  ASSUME Inv, ResultInv
  PROVE  \A i \in 1..Len(DiskFile) :
            /\ IsOp(DiskFile[i]) =>
                  i \in 1..disk.lines /\ i \in 1..Len(file) /\ DiskFile[i] = file[i]
            /\ IsTrailer(DiskFile[i]) => disk.trailer /\ i = disk.lines + 1
            /\ i \in 1..disk.lines => IsOp(DiskFile[i])
<1> SUFFICES ASSUME NEW i \in 1..Len(DiskFile)
             PROVE  /\ IsOp(DiskFile[i]) =>
                          i \in 1..disk.lines /\ i \in 1..Len(file) /\ DiskFile[i] = file[i]
                    /\ IsTrailer(DiskFile[i]) => disk.trailer /\ i = disk.lines + 1
                    /\ i \in 1..disk.lines => IsOp(DiskFile[i])
  OBVIOUS
<1>1. disk.lines \in Nat
  BY DiskLines
<1>2. CASE i \in 1..disk.lines
  BY <1>2, DiskLines, FileLines
<1>3. CASE i \notin 1..disk.lines
  <2>1. disk.trailer /\ i = disk.lines + 1 /\ DiskFile[i] = TrailerLine
    BY <1>1, <1>3, DiskLines
  <2>2. ~IsOp(TrailerLine)
    BY DEF IsOp, TrailerLine
  <2> QED
    BY <1>3, <2>1, <2>2
<1> QED
  BY <1>2, <1>3

\* Scan accepts it.
LEMMA DiskReadable ==
  ASSUME Inv, ResultInv
  PROVE  Readable(DiskFile, HeaderIterations)
<1>1. disk.lines \in Nat /\ Len(DiskFile) \in Nat
  BY DiskLines
<1>2. WorkerSeqsRun(DiskFile)
  <2> SUFFICES ASSUME NEW i \in 1..Len(DiskFile), IsOp(DiskFile[i])
               PROVE  DiskFile[i].wseq
                         = Cardinality(OpsOf(DiskFile, DiskFile[i].worker, i))
    BY DEF WorkerSeqsRun
  <2>1. i \in 1..disk.lines /\ i \in 1..Len(file) /\ DiskFile[i] = file[i]
    BY DiskOps
  <2>2. OpsOf(DiskFile, file[i].worker, i) = OpsOf(file, file[i].worker, i)
    <3>1. \A j \in 1..i : DiskFile[j] = file[j]
      BY <1>1, <2>1, DiskLines
    <3> QED
      BY <3>1 DEF OpsOf
  <2> QED
    BY <2>1, <2>2, LineRank, FileLines
<1>3. IterationsInOrder(DiskFile, HeaderIterations)
  <2>1. \A i \in 1..Len(file) :
           /\ file[i].iter \in Nat
           /\ IF Multi THEN file[i].iter \in 1..Iterations ELSE file[i].iter = 0
           /\ \A j \in 1..(i-1) : file[j].iter <= file[i].iter
    <3>1. /\ Len(file) \in Nat /\ Len(log) \in Nat /\ Len(file) <= Len(log)
          /\ iteration \in 1..Iterations /\ Iterations \in Nat
      <4>1. Len(file) \in Nat /\ Len(log) \in Nat /\ taken \in 0..Len(log)
        BY DEF Inv, TypeInv, TypeOK, FileTypes, ChannelTypes
      <4>2. Len(file) <= taken
        BY DEF Inv, IInv, FileInv
      <4> QED
        BY <4>1, <4>2, RecorderAssumption DEF Inv, TypeInv, TypeOK, ControllerTypes
    <3> SUFFICES ASSUME NEW i \in 1..Len(file)
                 PROVE  /\ file[i].iter \in Nat
                        /\ IF Multi THEN file[i].iter \in 1..Iterations ELSE file[i].iter = 0
                        /\ \A j \in 1..(i-1) : file[j].iter <= file[i].iter
      OBVIOUS
    <3>2. i \in 1..Len(log) /\ \A j \in 1..(i-1) : j \in 1..Len(file)
      BY <3>1
    <3>3. file[i].iter = log[i].iter /\ \A j \in 1..(i-1) : file[j].iter = log[j].iter
      BY <3>2 DEF ResultInv, StampInv
    <3>4. /\ IF Multi THEN log[i].iter \in 1..iteration ELSE log[i].iter = 0
          /\ \A j \in 1..(i-1) : log[j].iter <= log[i].iter
      BY <3>2 DEF ResultInv, StampInv
    <3> QED
      BY <3>1, <3>3, <3>4
  <2>2. \A i \in 1..Len(file) : OpIteration(file[i]) = IF Multi THEN file[i].iter ELSE 1
    BY <2>1 DEF OpIteration
  <2> SUFFICES ASSUME NEW i \in 1..Len(DiskFile), IsOp(DiskFile[i])
               PROVE  /\ HeaderIterations > 0 => OpIteration(DiskFile[i]) <= HeaderIterations
                      /\ \A j \in 1..(i-1) : IsOp(DiskFile[j]) =>
                            OpIteration(DiskFile[j]) <= OpIteration(DiskFile[i])
    BY DEF IterationsInOrder
  <2>3. i \in 1..Len(file) /\ DiskFile[i] = file[i]
    BY DiskOps
  <2>4. HeaderIterations > 0 => OpIteration(DiskFile[i]) <= HeaderIterations
    <3>1. CASE Multi
      <4>1. HeaderIterations = Iterations /\ OpIteration(DiskFile[i]) = file[i].iter
        BY <2>2, <2>3, <3>1 DEF HeaderIterations
      <4> QED
        BY <2>1, <2>3, <3>1, <4>1, RecorderAssumption
    <3>2. CASE ~Multi
      BY <3>2 DEF HeaderIterations
    <3> QED
      BY <3>1, <3>2
  <2>5. ASSUME NEW j \in 1..(i-1), IsOp(DiskFile[j])
        PROVE  OpIteration(DiskFile[j]) <= OpIteration(DiskFile[i])
    <3>1. j \in 1..Len(DiskFile)
      BY <1>1
    <3>2. j \in 1..Len(file) /\ DiskFile[j] = file[j]
      BY <2>5, <3>1, DiskOps
    <3> QED
      BY <2>1, <2>2, <2>3, <3>2
  <2> QED
    BY <2>4, <2>5
<1>4. TrailerFits(DiskFile)
  <2> SUFFICES ASSUME NEW i \in 1..Len(DiskFile), IsTrailer(DiskFile[i])
               PROVE  i = Len(DiskFile) /\ DiskFile[i].ops = OpCount(DiskFile)
    BY DEF TrailerFits
  <2>1. disk.trailer /\ i = disk.lines + 1
    BY DiskOps
  <2>2. i = Len(DiskFile) /\ DiskFile[i] = TrailerLine /\ disk.lines = Len(file)
    BY <2>1, DiskLines
  <2>3. {j \in 1..Len(DiskFile) : IsOp(DiskFile[j])} = 1..disk.lines
    <3>1. \A j \in 1..Len(DiskFile) : IsOp(DiskFile[j]) <=> j \in 1..disk.lines
      BY DiskOps
    <3>2. \A j \in 1..disk.lines : j \in 1..Len(DiskFile)
      BY <1>1, <2>1, <2>2
    <3> QED
      BY <3>1, <3>2
  <2>4. Cardinality(1..disk.lines) = disk.lines
    <3>1. PICK n \in Nat : n = disk.lines
      BY <1>1
    <3>2. Cardinality(1..n) = IF 1 > n THEN 0 ELSE n - 1 + 1
      BY FS_Interval
    <3> QED
      BY <3>1, <3>2
  <2>5. TrailerLine.ops = ops /\ ops = Len(file)
    BY DEF TrailerLine, ResultInv, CountsInv
  <2> QED
    BY <2>2, <2>3, <2>4, <2>5 DEF OpCount
<1> QED
  BY <1>2, <1>3, <1>4 DEF Readable

\* The trailer repeats what a replay of the file computes.
LEMMA TrailerDescribes ==
  ASSUME Inv, ResultInv
  PROVE  TrailerDescribesFile
<1> SUFFICES ASSUME disk.trailer
             PROVE  /\ DOMAIN trailer.workerOps = {file[i].worker : i \in 1..Len(file)}
                    /\ \A w \in DOMAIN trailer.workerOps :
                          /\ trailer.workerOps[w] = Len(StreamOf(file, w))
                          /\ trailer.workerHashes[w]
                               = [k \in 1..Len(StreamOf(file, w)) |-> StreamOf(file, w)[k].n]
                    /\ Multi => \A it \in 1..Iterations :
                          trailer.iterOps[it] = Cardinality(LinesOf(it))
  BY DEF TrailerDescribesFile, LinesOf
<1> DEFINE writers == {v \in Workers : hashes[v] # << >>}
<1>1. trailer = TrailerLine /\ ~broken
  BY DiskLines
<1>2. /\ trailer.workerOps = [w \in writers |-> workerSeq[w]]
      /\ trailer.workerHashes = [w \in writers |-> hashes[w]]
      /\ Multi => trailer.iterOps = iterOps
  BY <1>1 DEF TrailerLine
<1>3. \A w \in Workers : Len(hashes[w]) \in Nat /\ hashes[w] \in Seq(Nat)
  BY DEF Inv, TypeInv, TypeOK, FileTypes
<1>4. writers = {file[i].worker : i \in 1..Len(file)}
  <2>1. ASSUME NEW w \in writers PROVE \E i \in 1..Len(file) : file[i].worker = w
    <3>1. 1 \in 1..Len(hashes[w])
      BY <1>3
    <3> QED
      BY <3>1 DEF Inv, IInv, CounterInv
  <2>2. ASSUME NEW i \in 1..Len(file) PROVE file[i].worker \in writers
    <3>1. /\ file[i].worker \in Workers /\ file[i].n >= 1 /\ file[i].n \in Nat
          /\ file[i].n <= Len(hashes[file[i].worker])
      BY FileLines
    <3>2. Len(hashes[file[i].worker]) # 0
      BY <1>3, <3>1
    <3> QED
      BY <3>1, <3>2
  <2> QED
    BY <2>1, <2>2
<1>5. ASSUME NEW w \in writers
      PROVE  /\ workerSeq[w] = Len(StreamOf(file, w))
             /\ hashes[w] = [k \in 1..Len(StreamOf(file, w)) |-> StreamOf(file, w)[k].n]
  <2>1. /\ Len(StreamOf(file, w)) = Len(hashes[w])
        /\ \A k \in 1..Len(hashes[w]) : StreamOf(file, w)[k].n = hashes[w][k]
    BY StreamHashed
  <2>2. workerSeq[w] = Len(hashes[w])
    BY <1>1 DEF Inv, IInv, CounterInv
  <2>3. hashes[w] = [k \in 1..Len(hashes[w]) |-> hashes[w][k]]
    BY <1>3
  <2> QED
    BY <2>1, <2>2, <2>3
<1>6. Multi => \A it \in 1..Iterations : trailer.iterOps[it] = Cardinality(LinesOf(it))
  BY <1>2 DEF ResultInv, CountsInv
<1> QED
  BY <1>2, <1>4, <1>5, <1>6

\* Whatever ends the recorder, Scan accepts the file; its trailer describes
\* it, the reason Close reports fits the status, and with room for the header
\* and the reserve the file stays within its limit: for any number of workers
\* and iterations, any queue, policy, limit and faults.
THEOREM FileTheorem == Spec => []ResultDescribesFile
<1>1. Inv /\ ResultInv => ResultDescribesFile
  BY ResultOnDisk, DiskReadable, TrailerDescribes
  DEF ResultDescribesFile, AlwaysReadable, ResultInv, ReasonInv, BytesInv
<1> QED
  BY <1>1, ResultInvariance, PTL
=============================================================================
