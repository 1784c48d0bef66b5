\* Backpressure "fail", every fault, a byte limit that two to four lines reach.
CONSTANTS
    Workers = {w1, w2}
    QueueSize = 1
    Block = FALSE
    Iterations = 2
    MaxBytes = 8
    HeaderBytes = 2
    OpBytes = {1, 2}
    TrailerBytes = {1, 2}
    Reserve = 2
    Faults = {"encode", "write", "flush", "crash"}
    MaxOps = 2
SPECIFICATION Spec
INVARIANTS
    PrefixOfEveryWorker
    CompleteMeansEverything
    ResultDescribesFile
PROPERTY KeepsContract
