SPECIFICATION Spec
CONSTANTS
    Threads = {u1, u2}
    Users = {u1, u2}
    Closers = {u1}
    HardwareConcurrency = 1
    MaxConcurrency = 2
    MaxHold = 2
    MaxConfigs = 0
    ConfigMayFail = FALSE
    CloseInBlockade = FALSE
    u1 = u1
    u2 = u2
    u3 = u3
PROPERTIES
    CloseReturns
CHECK_DEADLOCK FALSE
