\* Two starts, one stop, no fault: a start right after the stop.
CONSTANTS
    MaxRuns = 2
    MaxStops = 1
    Iterations = 1
    Kinds = {"workload"}
    Faults = {}
SPECIFICATION Spec
INVARIANT OneConnection
