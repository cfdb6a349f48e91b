SPECIFICATION Spec
CONSTANTS
    u1 = u1
    u2 = u2
    u3 = u3
    NULL = NULL
    Threads = {u1, u2, u3}
    Runners = {u1}
    Holders = {u1, u2}
    Inserters = {u3}
    MaxRows = 4
INVARIANTS
    FlagCovers
    AllOrNothing
    ReturnedClean
CHECK_DEADLOCK FALSE
