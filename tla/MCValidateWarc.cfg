SPECIFICATION Spec
CONSTANTS
    MaxRecords = 4
    BatchSize = 2
INVARIANT ValidateTypeOK
INVARIANT MissingListExact
INVARIANT VerdictCorrect
CHECK_DEADLOCK FALSE
