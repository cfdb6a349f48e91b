SPECIFICATION SafetySpec
CONSTANTS
    Threads = {u1, u2}
    Users = {u1, u2}
    Closers = {}
    HardwareConcurrency = 1
    MaxConcurrency = 2
    MaxHold = 3
    MaxConfigs = 0
    ConfigMayFail = FALSE
    CloseInBlockade = FALSE
    u1 = u1
    u2 = u2
    u3 = u3
INVARIANTS
    AliveBounded
