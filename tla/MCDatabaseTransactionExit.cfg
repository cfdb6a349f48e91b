SPECIFICATION Spec
CONSTANTS
    u1 = u1
    u2 = u2
    u3 = u3
    h1 = h1
    h2 = h2
    h3 = h3
    NULL = NULL
    Threads = {u1}
    Handles = {h1}
    MaxRows = 4
    MaxConfigs = 1
    AutoRollback = TRUE
PROPERTIES
    AloneCommitted
