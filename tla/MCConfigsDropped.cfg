SPECIFICATION Spec
CONSTANTS
    Threads = {u1}
    Names = {"demo"}
    Orders = {1}
    MaxCalls = 1
    NULL = NULL
    u1 = u1
    u2 = u2
PROPERTIES
    OthersKept
CHECK_DEADLOCK FALSE
