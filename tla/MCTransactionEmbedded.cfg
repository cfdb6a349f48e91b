SPECIFICATION Spec
CONSTANTS
    u1 = u1
    u2 = u2
    u3 = u3
    NULL = NULL
    Threads = {u1, u2, u3}
    Runners = {u1}
    Holders = {u2}
    Inserters = {u3}
    MaxRows = 1
PROPERTIES
    EmbeddedReturns
CHECK_DEADLOCK FALSE
