\* The algorithms of the reports on small inputs (MCAlgorithms).
CONSTANTS
    TrendMaxPinnedRuns = 2
    TrendMaxRuns = 3
    TrendMaxShapeBaselines = 2
    MaxTrendHistoryRuns = 2
    TrendStoreMaxSize = 8
    HasFile = TRUE
    KeepRuns = 1
    RunShapes <- SmallRuns
    TrendFiles <- SmallFiles
    LastRun = 3
    Findings <- SmallFindings
    ExplainedPlans <- SmallPlans
    Queries <- SmallQueries
    Indexes <- SmallIndexes
    SelectiveMinDocs = 100
    SelectiveRatio = 10
SPECIFICATION Spec
CHECK_DEADLOCK FALSE
INVARIANTS
    TrendDataBounded
    TrendVerdictsSound
    EveryTierGetsASlot
    HighConfidenceIsEarned
    NothingIsGuessed
    SuitableServes
    ReportAccounts
