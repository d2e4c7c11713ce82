SPECIFICATION HealthySpec
CONSTANTS
    a1 = a1
    a2 = a2
    a3 = a3
    Arcs = {a1, a2, a3}
    MaxConcurrentWorkers = 2
    BatchSize = 2
    MaxWorkerTries = 1
    MaxSize = 3
    OptimizeLimit = 2
    TargetLimit = 1
PROPERTY QuietShutdownLeavesNone
SYMMETRY ArcSymmetry
CHECK_DEADLOCK FALSE
