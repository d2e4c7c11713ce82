SPECIFICATION WorkflowSpec
CONSTANTS
    a1 = a1
    a2 = a2
    a3 = a3
    a4 = a4
    Arcs = {a1, a2, a3, a4}
    f1 = f1
    Folders = {f1}
    Shards <- MCShards
    Priorities <- OnePriority
    DefaultPriority = 5
    CacheLimit = 3
    NullsLast = TRUE
    NoArc = NoArc
INVARIANT TypeOK
INVARIANT CacheFresh
INVARIANT HeldIsRunning
INVARIANT LeasesExclusive
INVARIANT StartedHasShard
PROPERTY EmptyMeansNoneLeft
PROPERTY OwnShardFirst
PROPERTY OnlyEligibleReturned
PROPERTY ImplementsLeases
PROPERTY NobodyInterferes
SYMMETRY ArcSymmetry
