CONSTANTS
    Requests = {r1, r2}
    SessionIds = {s1, s2}
    Realms <- EsmoRealm
    MaxOverlap = 2
    Documents = 1
    MaxRefusals = 0
    None = None
SYMMETRY Symmetry
SPECIFICATION Spec
INVARIANTS
    HandsOverOwnSession
