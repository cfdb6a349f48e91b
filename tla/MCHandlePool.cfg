SPECIFICATION Spec
CONSTANTS
    Threads = {u1, u2, u3}
    Users = {u2, u3}
    Closers = {u1}
    HardwareConcurrency = 1
    MaxConcurrency = 2
    MaxHold = 1
    MaxConfigs = 1
    ConfigMayFail = TRUE
    CloseInBlockade = FALSE
    u1 = u1
    u2 = u2
    u3 = u3
INVARIANTS
    SoleUse
    AliveExact
    OnlyReturningOpen
PROPERTIES
    CloseReturns
    ImplementsAbstract
