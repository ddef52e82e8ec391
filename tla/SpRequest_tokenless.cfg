CONSTANTS
    Requests = {r1}
    SessionIds = {s1}
    Realms <- EsmoRealm
    MaxOverlap = 1
    Documents = 1
    MaxRefusals = 0
    None = None
SPECIFICATION Spec
INVARIANTS
    HandsOverAToken
