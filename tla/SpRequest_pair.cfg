CONSTANTS
    Requests = {r1, r2}
    SessionIds = {s1, s2}
    Realms <- EsmoRealm
    MaxOverlap = 2
    Documents = 2
    MaxRefusals = 1
    None = None
SYMMETRY Symmetry
SPECIFICATION Spec
INVARIANTS
    TypeOK
    IsolationInv
    MixingInv
    IsolatedWhenAlone
    SignedAsPostedWhenAlone
    AuthenticatorsDoNotMix
    TakesFromItsBurst
    BurstInv
PROPERTIES
    KeepsPromise
