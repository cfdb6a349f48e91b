SPECIFICATION Spec
CONSTANTS
    p1 = p1
    p2 = p2
    d1 = d1
    d2 = d2
    d3 = d3
    t1 = t1
    NULL = NULL
    Paths = {p1}
    Holders = {d1, d2, d3}
    Copies = {1, 2}
    Threads = {t1}
    Tags = {7}
INVARIANTS
    OneCorePerPath
CHECK_DEADLOCK FALSE
