SPECIFICATION Spec
CONSTANTS
    u1 = u1
    u2 = u2
    u3 = u3
    h1 = h1
    h2 = h2
    h3 = h3
    NULL = NULL
    Threads = {u1, u2, u3}
    Handles = {h1, h2, h3}
    MaxRows = 4
    MaxConfigs = 1
    AutoRollback = TRUE
SYMMETRY Perms
INVARIANTS
    AllOrNothing
    TransactionOwned
    ClosedWithoutTransactions
