SPECIFICATION Spec
CONSTANTS
    MaxRecords = 3
    BatchSize = 2
INVARIANT ArcRecordsValidated
CHECK_DEADLOCK FALSE
