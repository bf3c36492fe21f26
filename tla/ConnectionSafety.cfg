SPECIFICATION Spec
CONSTANTS
    NULL = NULL
    MaxParams = 1
    MaxRows = 2
    MaxCalls = 4
    MaxFaults = 3
CHECK_DEADLOCK FALSE
INVARIANTS NothingLeaked StatementOfSession BindInBounds ExecutionsBounded TrueMeansExecuted Recovers
