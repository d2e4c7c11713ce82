SPECIFICATION RestartingSpec
CONSTANTS
    a1 = a1
    a2 = a2
    a3 = a3
    a4 = a4
    Arcs = {a1, a2, a3, a4}
    MaxConcurrentWorkers = 2
    BatchSize = 2
    MaxWorkerTries = 1
    MaxSize = 3
    OptimizeLimit = 2
    TargetLimit = 1
INVARIANT BuilderTypeOK
INVARIANT InHandIsRunning
INVARIANT OneWorkerPerFile
INVARIANT TriesBounded
INVARIANT RunningIsAccountedFor
PROPERTY FinishedIsFinal
PROPERTY ImplementsLeases
SYMMETRY ArcSymmetry
CHECK_DEADLOCK FALSE
