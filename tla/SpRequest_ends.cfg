CONSTANTS
    Requests = {r1, r2}
    SessionIds = {s1, s2}
    Realms <- NorwegianRealm
    MaxOverlap = 2
    Documents = 1
    MaxRefusals = 0
    None = None
SPECIFICATION FairSpec
INVARIANTS
    IsolatedWhenAlone
PROPERTIES
    EveryLoginEnds
    EveryStepCounts
