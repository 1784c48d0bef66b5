\* The explains of a finished run, and a start of the next one (MCServices).
CONSTANTS
    SetupDatabases <- ServedDatabases
    SeedWriters = {1, 2}
    SeedBatchSize = 1
    SeedCount = 2
    ShardModes = {"force_on"}
    Mongos = TRUE
    WithShardConfig = TRUE
    GateProfiles <- ServedProfiles
    GateFallback = 1
    RunTicks = 3
    OutcomeWorkers = {"w1", "w2"}
    OutcomeQueueSize = 1
    OutcomesPerWorker = 1
    OutcomeIterations = 2
    Processes = {"p1", "p2"}
    KeepRuns = 1
    MaxRunIds = 2
    MaxDamage = 1
    MaxCrashes = 1
    MaxOps = 2
    FileNames = {"x1", "x2"}
    UserFile = "u"
    MaxFileStarts = 2
    NameAttempts = 2
    Dashboards = {1, 2, 3}
    KeepDashboards = 1
    MaxPinned = 1
    MaxHarm = 1
    DefinitionIds = {1, 2}
    Editors = {"e1"}
    Orders = {"ab", "ba"}
    MaxSubmits = 2
    MaxTicks = 1
    MaxBadSaves = 1
    RawWorkers = {1, 2}
    RawTypes = {"insert", "mixed", "upsert", "find"}
    RawBatch = 1
    RawRuns = 2
    RawBatches = 2
    RawFailures = 1
    ExplainWorkers = {"w1", "w2"}
    JobDatabase <- ServedJobs
    Retries = 1
    BaseTimes = {1, 2, 4}
    TopTime = 3
    TargetCount = 2
    Sweeps = {"s1"}
    Plain = {"p1"}
    Levels = 2
    MaxStops = 1
    PoolWorkers = {"w1", "w2"}
    PoolCollections = {"c"}
    CacheSize = 1
    PoolMaxSize = 2
    MaxDocuments = 3
    MaxDeletes = 1
    DetWorkers = 2
    Budget = 1
    MaxPasses = 2
    DetIterations = 2
    BatchSize = 2
    Stride = 100
    Groups <- ServedGroups
    MaxGroups = 2
    SamplesPerShape = 1
    MaxSampleBytes = 2
    MaxRetainedBytes = 4
    MaxEvents = 2
    SamplePeriod = 1
    SampleShare = 1
    Durations = {1, 2}
    QueryBytes = {0, 1, 3}
    MaxOperations = 3
    Trackers = {"w1"}
    OperationKinds = {"find"}
    Latencies = {1}
    TracksPerWorker = 1
    Pollers = {"d1", "d2"}
    PollsPerPoller = 1
    MinWindow = 1
    LastTick = 3
    Parts = {"explains"}
SPECIFICATION Spec
CHECK_DEADLOCK FALSE
INVARIANT StartStopsExplains
