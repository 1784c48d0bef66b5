\* Two starts, no stop and no fault: a start between two steps of the run that ends.
CONSTANTS
    MaxRuns = 2
    MaxStops = 0
    Iterations = 1
    Kinds = {"workload"}
    Faults = {}
SPECIFICATION Spec
INVARIANT EveryRunStored
