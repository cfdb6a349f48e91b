SPECIFICATION QueueSpec
CONSTANTS
    k1 = k1
    k2 = k2
    k3 = k3
    End = End
    Keys = {k1, k2}
    Delay = 2
    MaxTime = 6
INVARIANTS
    MapMatchesList
    OldestLast
PROPERTIES
    LeftAlone
    Checkpointed
