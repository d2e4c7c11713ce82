SPECIFICATION RequestsSpec
CONSTANTS
    a1 = a1
    a2 = a2
    Arcs = {a1, a2}
    f1 = f1
    Folders = {f1}
    Shards <- MCShards
    Priorities <- OnePriority
    DefaultPriority = 5
    CacheLimit = 2
    NullsLast = TRUE
    NoArc = NoArc
INVARIANT LeasesExclusive
SYMMETRY ArcSymmetry
