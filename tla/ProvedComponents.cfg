SPECIFICATION ProvedSpec
CONSTANTS
    MaxNonce = 2
    MaxStale = 2
    Tasks = {t1, t2}
    None = None
    IndexedPools = {1, 2, 3}
    Anchors = {9}
    MaxBlock = 2
    PageSize = 1
    MaxPages = 2
    BlockGap = 1
    MaxFailures = 1
    MaxRollbacks = 1
    HealthChecks = {"c1", "c2"}
    MainTask = "main"
    MaxSpawns = 3
    MaxStall = 1
    Graceful = TRUE
    Addresses = {"a", "b", "c"}
    Pages <- ScannedPages
    MaxRestarts = 2
    Requests = {1, 2, 3}
    PriorityOf <- Priorities
    TokenUnits = 2
    Refill = 1
    capacity = 1
    maxAttempts = 2
    MaxTime = 5
    MaxIndexed = 2
    Queries = {"q1", "q2"}
    Sockets = {"s1", "s2", "s3"}
    NoSocket = "none"
    maxReconnects = 2
    MaxTimers = 3
    MaxQueue = 2
    BatchSize = 1
    MaxLineBlock = 2
    MaxErrorLines = 4
    Window = 1
    RateLimitTTL = 1
    Fallback = 68
    InitialFee = 68
    MaxFee = 149
    emaPercent = 30
    MaxInflight = 2
    MaxAge = 2
    PoolOrder <- FetchedPools
    KindOf <- FetchedKinds
    CyclePools = {"a"}
    Heads = {"h"}
    Others = {"o"}
    NoState = NoState
    Invalid = Invalid
    InvalidAfter = 3
    SkipAfter = 2
    MaxPrice = 1
    MaxFaults = 3
SYMMETRY Symmetry
\* The indexer's starts, its blocks, restarts of the bot and time are bounded.
CHECK_DEADLOCK FALSE
INVARIANTS
    TypeOK
    IssuedBelowNext
    NoNonceForgotten
    NoPoolSkipped
    OneIndexer
    MarksPersist
    SchedulerSound
    NoStreamSilent
    ErrorsAccounted
    FeeCoversBase
    TicksCoverPrice
PROPERTY AllocatorSpec
