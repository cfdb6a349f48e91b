SPECIFICATION Spec
CONSTANTS
    NULL = NULL
    MaxCalls = 2
    AccessMayFail = FALSE
    OldInDirectory = FALSE
INVARIANTS
    WholeSomewhere
CHECK_DEADLOCK FALSE
