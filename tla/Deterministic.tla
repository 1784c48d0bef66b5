----------------------------- MODULE Deterministic -----------------------------
(***************************************************************************)
(* Deterministic traffic (internal/mongo/workload_deterministic.go).  An   *)
(* operation is a function of the seed, the iteration, the worker and its  *)
(* number, so it is written as those: [iteration, worker, seq].  A worker  *)
(* sends its operations_per_worker operations and then the next ones until *)
(* the iteration is over; the first pass makes the traffic fingerprint.    *)
(***************************************************************************)
EXTENDS Naturals, Sequences, FiniteSets, SequencesExt

CONSTANTS
    DetWorkers,     \* workers are numbered from 1
    Budget,         \* operations_per_worker
    MaxPasses,      \* bound: passes over the budget
    DetIterations,
    BatchSize,      \* documents of a fast insert
    Stride          \* 100000000: the ids of a worker's fast inserts start at its multiple

ASSUME TrafficAssumption ==
    /\ Budget \in Nat \ {0} /\ DetIterations \in Nat \ {0}
    /\ {DetWorkers, MaxPasses, BatchSize, Stride} \subseteq Nat

Workers == 1..DetWorkers
OpNumbers == 1..(Budget * MaxPasses)
Kinds == {"insert", "fast_insert", "skip"}

VARIABLES
    kind,           \* what operation a number is; the same for all workers here
    detIteration,   \* sess.trafficIteration
    turn,           \* turn[w]: "generate", "send" or "gone"
    passed, number, \* full passes, and operations of this one, of each worker
    stream,         \* t.streams
    firstPasses,    \* run.firstPasses
    noted,          \* the dashboard event of the first pass (times)
    finished,       \* iterations ended
    over,           \* why the iteration's context is done, or "no"
    detStatus, detReason,  \* t.status, t.reason
    ids,            \* ids of the documents inserted so far
    clashes         \* ids inserted again (history)

detVars == <<kind, detIteration, turn, passed, number, stream, firstPasses, noted, finished,
             over, detStatus, detReason, ids, clashes>>

Fresh == [w \in Workers |-> [hash |-> <<>>, generated |-> 0, sent |-> 0, completed |-> FALSE]]

\* newTrafficFingerprint and the first newDeterministicRun.
TInit ==
    /\ kind \in [OpNumbers -> Kinds]
    /\ detIteration = 1
    /\ turn = [w \in Workers |-> "generate"]
    /\ passed = [w \in Workers |-> 0] /\ number = [w \in Workers |-> 1]
    /\ stream = Fresh
    /\ firstPasses = 0 /\ noted = 0 /\ finished = 0 /\ over = "no"
    /\ detStatus = "complete" /\ detReason = ""
    /\ ids = {} /\ clashes = {}

OpNumber(w) == passed[w] * Budget + number[w]

Op(i, w, n) == [iteration |-> i, worker |-> w, seq |-> n]

\* generateFastInsert: the ids continue where the iterations before left off,
\* counting one pass for each.
FastIds(i, w, n) ==
    {w * Stride + (i - 1) * Budget * BatchSize + (n - 1) * BatchSize + j : j \in 0..(BatchSize - 1)}

\* deterministicDocumentID, of one document; a hash of all that it depends on.
InsertedIds(i, w, n) ==
    CASE kind[n] = "fast_insert" -> {[fast |-> id] : id \in FastIds(i, w, n)}
      [] kind[n] = "insert"      -> {[hash |-> Op(i, w, n)]}
      [] OTHER                   -> {}

\* The next operation of the pass, or the end of the pass.
Advance(w) ==
    IF number[w] < Budget
    THEN /\ number' = [number EXCEPT ![w] = @ + 1]
         /\ UNCHANGED <<passed, firstPasses, noted>>
    ELSE /\ number' = [number EXCEPT ![w] = 1]
         /\ passed' = [passed EXCEPT ![w] = @ + 1]
         /\ firstPasses' = IF passed[w] = 0 THEN firstPasses + 1 ELSE firstPasses
         /\ noted' = IF passed[w] = 0 /\ firstPasses' = DetWorkers THEN noted + 1 ELSE noted

LeaveIteration(w) == turn' = [turn EXCEPT ![w] = "gone"]

\* The loop sees the end of the context, also while it pauses.
See(w) ==
    /\ turn[w] \in {"generate", "send"} /\ over # "no"
    /\ LeaveIteration(w)
    /\ UNCHANGED <<kind, detIteration, passed, number, stream, firstPasses, noted, finished, over,
                   detStatus, detReason, ids, clashes>>

\* A number that names no operation is passed over.
Generate(w) ==
    /\ turn[w] = "generate" /\ over = "no" /\ passed[w] < MaxPasses
    /\ LET skip == kind[OpNumber(w)] = "skip"
       IN  /\ stream' = [stream EXCEPT ![w].generated = @ + 1,
                                       ![w].completed = @ \/ (skip /\ number[w] = Budget)]
           /\ IF skip THEN Advance(w) /\ UNCHANGED turn
              ELSE turn' = [turn EXCEPT ![w] = "send"]
                   /\ UNCHANGED <<passed, number, firstPasses, noted>>
    /\ UNCHANGED <<kind, detIteration, finished, over, detStatus, detReason, ids, clashes>>

\* Mutant: every pass is hashed.
SendHashingAll(w) ==
    /\ turn[w] = "send"
    /\ LET new == InsertedIds(detIteration, w, OpNumber(w))
       IN  /\ stream' = [stream EXCEPT ![w].sent = @ + 1,
                             ![w].hash = Append(@, Op(detIteration, w, OpNumber(w))),
                             ![w].completed = @ \/ number[w] = Budget]
           /\ ids' = ids \cup new /\ clashes' = clashes \cup (ids \cap new)
    /\ turn' = [turn EXCEPT ![w] = "generate"]
    /\ Advance(w)
    /\ UNCHANGED <<kind, detIteration, finished, over, detStatus, detReason>>

\* The operation is sent, whether or not the context ends meanwhile.
SendOp(w) ==
    /\ turn[w] = "send"
    /\ LET new == InsertedIds(detIteration, w, OpNumber(w))
       IN  /\ stream' = [stream EXCEPT ![w].sent = @ + 1,
                             ![w].hash = IF passed[w] = 0 THEN Append(@, Op(detIteration, w, OpNumber(w)))
                                         ELSE @,
                             ![w].completed = @ \/ number[w] = Budget]
           /\ ids' = ids \cup new /\ clashes' = clashes \cup (ids \cap new)
    /\ turn' = [turn EXCEPT ![w] = "generate"]
    /\ Advance(w)
    /\ UNCHANGED <<kind, detIteration, finished, over, detStatus, detReason>>

Over(why) ==
    /\ over = "no" /\ why \in {"timeout", "stopped"} /\ over' = why
    /\ UNCHANGED <<kind, detIteration, turn, passed, number, stream, firstPasses, noted, finished,
                   detStatus, detReason, ids, clashes>>

\* finishIteration, and the next newDeterministicRun of the session.
FinishIteration ==
    /\ over # "no" /\ detIteration <= DetIterations
    /\ \A w \in Workers : turn[w] = "gone"
    /\ LET short == \E w \in Workers : ~stream[w].completed
       IN  IF short /\ detStatus = "complete"
           THEN detStatus' = "incomplete" /\ detReason' = over
           ELSE UNCHANGED <<detStatus, detReason>>
    /\ detIteration' = IF over = "stopped" THEN DetIterations + 1 ELSE detIteration + 1
    /\ stream' = [w \in Workers |-> [stream[w] EXCEPT !.completed = FALSE]]
    /\ turn' = [w \in Workers |-> IF detIteration' <= DetIterations THEN "generate" ELSE "gone"]
    /\ passed' = [w \in Workers |-> 0] /\ number' = [w \in Workers |-> 1]
    /\ firstPasses' = 0 /\ noted' = 0 /\ over' = "no" /\ finished' = finished + 1
    /\ UNCHANGED <<kind, ids, clashes>>

TNext ==
    \/ \E w \in Workers : See(w) \/ Generate(w) \/ SendOp(w)
    \/ Over("timeout") \/ Over("stopped") \/ FinishIteration

TSpec == TInit /\ [][TNext]_detVars

-----------------------------------------------------------------------------
TTypeOK ==
    /\ detIteration \in 1..(DetIterations + 1)
    /\ turn \in [Workers -> {"generate", "send", "gone"}]
    /\ \A w \in Workers : passed[w] \in 0..MaxPasses /\ number[w] \in 1..Budget
    /\ detStatus \in {"complete", "incomplete"}

\* What worker w sends in the first passes of iterations 1 to i, and in what order.
FirstPasses(w, i) == {Op(k, w, n) : k \in 1..i, n \in {m \in 1..Budget : kind[m] # "skip"}}

Before(a, b) == a.iteration < b.iteration \/ (a.iteration = b.iteration /\ a.seq < b.seq)

\* The fingerprint of a run that reports complete is a function of the seed, the
\* definitions and the numbers of workers, operations and iterations alone: each
\* worker's hash covers just its first pass of each iteration
\* (deterministicWorker), however many passes and stops there were. Of a run
\* that was stopped it covers a prefix, with all iterations that ended.
FingerprintIsFirstPasses ==
    \A w \in Workers :
        LET hashed == stream[w].hash
            all == FirstPasses(w, DetIterations)
        IN  /\ Range(hashed) \subseteq all
            /\ \A i, j \in DOMAIN hashed : i < j => Before(hashed[i], hashed[j])
            /\ detStatus = "complete" =>
                  /\ FirstPasses(w, finished) \subseteq Range(hashed)
                  /\ \A op \in Range(hashed) : {o \in all : Before(o, op)} \subseteq Range(hashed)

\* "A later pass uses the next operation numbers, so inserts keep distinct
\* deterministic _ids" (deterministicWorker), when a fast insert patches _id: so
\* in the first iteration. The ids of the next one start after those of one pass
\* and may be those of a second pass of the first.
LaterPassIds == detIteration = 1 => clashes = {}

\* Both: what a run sends is told by its settings, and it is new.
TrafficAsSpecified == FingerprintIsFirstPasses /\ LaterPassIds
=============================================================================
