\* Two workers, queues of one operation, every fault.
CONSTANTS
    Workers = 2
    Setups <- MCSetups
    QueueSize = 1
    Faults = {"scan", "outcome", "read", "exec", "panic", "monitor"}
SPECIFICATION FairSpec
INVARIANTS
    BarrierSound
    StatusTrue
PROPERTIES
    KeepsContract
    ReplayEnds
