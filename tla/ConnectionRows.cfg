SPECIFICATION Spec
CONSTANTS
    NULL = NULL
    MaxParams = 1
    MaxRows = 2
    MaxCalls = 2
    MaxFaults = 1
CHECK_DEADLOCK FALSE
INVARIANT TrueMeansAllRows
