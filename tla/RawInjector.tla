---------------------------- MODULE RawInjector ----------------------------
(* The raw injector: each worker sends batches of prepared commands whose   *)
(* ids are the pair of its number and a sequence number. A run goes on where *)
(* the documents of an earlier one end.                                     *)
EXTENDS Integers, FiniteSets

CONSTANTS
    RawWorkers,     \* bound on concurrency
    RawTypes,       \* raw_injector.type
    RawBatch,       \* batch_size
    RawRuns,        \* bound: runs, which keep or drop the collection
    RawBatches,     \* bound: batches of a worker in all runs
    RawFailures     \* bound: scans and inserts that fail

ASSUME RawAssumption == RawBatch \in Nat

VARIABLES
    rawType,
    rawAt,          \* "off", "scan", "work"
    docs,           \* the collection: <<worker, number>>
    seq,            \* seq[w]: the next number; -1 before the scan
    scanFailed,     \* workers whose scan failed
    sent,           \* batches each worker sent
    rawRuns, rawFailures

rvars == <<rawType, rawAt, docs, seq, scanFailed, sent, rawRuns, rawFailures>>

Numbers == 0..RawBatch * RawBatches + RawRuns
Resumes(type) == type \in {"insert", "mixed", "upsert"}

RTypeOK ==
    /\ rawType \in RawTypes /\ rawAt \in {"off", "scan", "work"}
    /\ docs \subseteq RawWorkers \X Numbers
    /\ seq \in [RawWorkers -> Numbers \cup {-1}]
    /\ scanFailed \subseteq RawWorkers
    /\ sent \in [RawWorkers -> 0..RawBatches]
    /\ rawRuns \in 0..RawRuns /\ rawFailures \in 0..RawFailures

RInit ==
    /\ rawType \in RawTypes /\ rawAt = "off"
    /\ docs = {}
    /\ seq = [w \in RawWorkers |-> -1]
    /\ scanFailed = {}
    /\ sent = [w \in RawWorkers |-> 0]
    /\ rawRuns = 0 /\ rawFailures = 0

-----------------------------------------------------------------------------
\* RunRawInjector up to the scans: only types that write new documents scan, and
\* not after a drop; the others start at 0.
RunRawInjector(type, drop) ==
    /\ rawAt = "off" /\ rawRuns < RawRuns
    /\ rawType' = type
    /\ rawRuns' = rawRuns + 1
    /\ docs' = IF drop THEN {} ELSE docs
    /\ scanFailed' = {}
    /\ IF ~drop /\ Resumes(type)
       THEN rawAt' = "scan" /\ seq' = [w \in RawWorkers |-> -1]
       ELSE rawAt' = "work" /\ seq' = [w \in RawWorkers |-> 0]
    /\ UNCHANGED <<sent, rawFailures>>

\* findLastSequence: the highest number of the worker, or 0; the run goes on
\* after it. A scan that fails leaves 0, with a warning.
LastSequence(w) ==
    LET own == {d[2] : d \in {x \in docs : x[1] = w}}
    IN  IF own = {} THEN 0 ELSE CHOOSE n \in own : \A m \in own : m <= n

ScanFrom(w, next) ==
    /\ rawAt = "scan" /\ seq[w] = -1
    /\ \/ /\ seq' = [seq EXCEPT ![w] = IF rawType = "upsert" THEN 0 ELSE next]
          /\ UNCHANGED <<scanFailed, rawFailures>>
       \/ /\ rawFailures < RawFailures
          /\ seq' = [seq EXCEPT ![w] = 0]
          /\ scanFailed' = scanFailed \cup {w}
          /\ rawFailures' = rawFailures + 1
    /\ UNCHANGED <<rawType, rawAt, docs, sent, rawRuns>>

\* A plausible mistake: the next run starts with the number that was found.
ScanWithoutNext(w) == ScanFrom(w, LastSequence(w))
Scan(w) == ScanFrom(w, LastSequence(w) + 1)

StartWork ==
    /\ rawAt = "scan" /\ \A w \in RawWorkers : seq[w] # -1
    /\ rawAt' = "work"
    /\ UNCHANGED <<rawType, docs, seq, scanFailed, sent, rawRuns, rawFailures>>

-----------------------------------------------------------------------------
RawBatchOf(w) == {<<w, n>> : n \in seq[w]..seq[w] + RawBatch - 1}
Sends(w, op) ==
    /\ rawAt = "work" /\ sent[w] < RawBatches
    /\ op = rawType \/ (rawType = "mixed" /\ op # "upsert")
    /\ sent' = [sent EXCEPT ![w] = @ + 1]
    /\ UNCHANGED <<rawType, rawAt, scanFailed, rawRuns>>

\* The numbers are used up also when the command fails. It is not ordered, so
\* a duplicate leaves the other documents of the batch.
Insert(w) ==
    /\ Sends(w, "insert")
    /\ seq' = [seq EXCEPT ![w] = @ + RawBatch]
    /\ \/ docs' = docs \cup RawBatchOf(w) /\ UNCHANGED rawFailures
       \/ rawFailures < RawFailures /\ rawFailures' = rawFailures + 1 /\ UNCHANGED docs

Upsert(w) ==
    /\ Sends(w, "upsert")
    /\ seq' = [seq EXCEPT ![w] = @ + RawBatch]
    /\ docs' = docs \cup RawBatchOf(w)
    /\ UNCHANGED rawFailures

\* Numbers below seq, or 0 when there are none.
Chosen(w) == IF seq[w] > 0 THEN 0..seq[w] - 1 ELSE {0}
Target(w, op, n) ==
    /\ Sends(w, op)
    /\ n \in Chosen(w)
    /\ docs' = IF op = "delete" THEN docs \ {<<w, n>>} ELSE docs
    /\ UNCHANGED <<seq, rawFailures>>

\* The duration is over or the run was stopped.
StopWork ==
    /\ rawAt = "work"
    /\ rawAt' = "off"
    /\ UNCHANGED <<rawType, docs, seq, scanFailed, sent, rawRuns, rawFailures>>

RNext ==
    \/ \E type \in RawTypes, drop \in BOOLEAN : RunRawInjector(type, drop)
    \/ StartWork \/ StopWork
    \/ \E w \in RawWorkers : Scan(w) \/ Insert(w) \/ Upsert(w)
                             \/ \E op \in {"update", "delete", "find"}, n \in Numbers : Target(w, op, n)

RSpec == RInit /\ [][RNext]_rvars

-----------------------------------------------------------------------------
(* A run that keeps the collection inserts documents it does not have, also *)
(* after deletes, failed inserts and upserts of earlier runs, as long as    *)
(* the scan of the worker works ("resume sequences").                       *)
FreshIds ==
    rawAt = "work" /\ rawType \in {"insert", "mixed"} =>
        \A w \in RawWorkers \ scanFailed : \A n \in Numbers : n >= seq[w] => <<w, n>> \notin docs
=============================================================================
