\* Backpressure "block": three workers on a queue of one, no fault but a crash.
CONSTANTS
    Workers = {w1, w2, w3}
    QueueSize = 1
    Block = TRUE
    Iterations = 1
    MaxBytes = 4
    HeaderBytes = 2
    OpBytes = {1}
    TrailerBytes = {1}
    Reserve = 1
    Faults = {"crash"}
    MaxOps = 2
SPECIFICATION FairSpec
PROPERTY SendsAndCloseReturn
