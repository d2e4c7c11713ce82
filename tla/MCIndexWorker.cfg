SPECIFICATION Spec
CONSTANTS
    a1 = a1
    a2 = a2
    a3 = a3
    Arcs = {a1, a2, a3}
    PartOf <- OnePart
    MaxLines = 3
INVARIANT WorkerTypeOK
INVARIANT EveryFileDecided
INVARIANT StatusAsReported
CHECK_DEADLOCK FALSE
