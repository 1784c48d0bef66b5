\* Two starts, one stop, every fault, both branches of a start.
CONSTANTS
    MaxRuns = 2
    MaxStops = 1
    Iterations = 1
    Kinds = {"workload", "multi"}
    Faults = {"abort", "error", "panic"}
SPECIFICATION FairSpec
INVARIANTS
    RunningHasOwner
    OneRunAtATime
    CountsIntoOwnCollector
    InsightsMatchCollector
    Settled
PROPERTY EveryRunEnds
