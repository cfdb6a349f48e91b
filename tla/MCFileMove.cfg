SPECIFICATION Spec
CONSTANTS
    NULL = NULL
    MaxCalls = 3
    AccessMayFail = FALSE
    OldInDirectory = FALSE
INVARIANTS
    NothingLost
    WholeInOneCall
    AnswerTrue
CHECK_DEADLOCK FALSE
