\* Two starts, no stop and no fault: a start after a run that counted operations.
CONSTANTS
    MaxRuns = 2
    MaxStops = 0
    Iterations = 1
    Kinds = {"workload"}
    Faults = {}
SPECIFICATION Spec
INVARIANT PromotedByOwnOperations
