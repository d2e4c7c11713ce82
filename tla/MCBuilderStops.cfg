SPECIFICATION Spec
CONSTANTS
    a1 = a1
    a2 = a2
    a3 = a3
    Arcs = {a1, a2}
    MaxConcurrentWorkers = 2
    BatchSize = 1
    MaxWorkerTries = 1
    MaxSize = 3
    OptimizeLimit = 2
    TargetLimit = 1
PROPERTY BuilderStops
CHECK_DEADLOCK FALSE
