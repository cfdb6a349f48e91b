SPECIFICATION NetSpec
CONSTANTS
    v1 = v1
    v2 = v2
    r1 = r1
    r2 = r2
    c1 = c1
    None = None
    Owners = {v1, v2}
    Requests = {r1, r2}
    Cookies = {c1}
    MaxSerializers = 1
INVARIANTS
    Settled
    CookieMissedOnce
PROPERTIES
    HudGoes
