\* A limit with room for the header and nothing else.
CONSTANTS
    Workers = {w1, w2}
    QueueSize = 1
    Block = FALSE
    Iterations = 1
    MaxBytes = 2
    HeaderBytes = 2
    OpBytes = {1}
    TrailerBytes = {1}
    Reserve = 1
    Faults = {}
    MaxOps = 1
SPECIFICATION Spec
INVARIANT BytesCapped
