SPECIFICATION Spec
CONSTANTS
    Threads = {u1, u2}
    Names = {"FileProtection"}
    Orders = {}
    MaxCalls = 2
    NULL = NULL
    u1 = u1
    u2 = u2
PROPERTIES
    OthersKept
CHECK_DEADLOCK FALSE
