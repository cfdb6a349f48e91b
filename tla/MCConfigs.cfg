SPECIFICATION Spec
CONSTANTS
    Threads = {u1}
    Names = {"cipher", "demo"}
    Orders = {0, 1, 3, 9}
    MaxCalls = 4
    NULL = NULL
    u1 = u1
    u2 = u2
INVARIANTS
    Sorted
    SynchronousConsistent
    LevelAsConfigured
PROPERTIES
    NamedKeepsOthers
CHECK_DEADLOCK FALSE
