CONSTANTS
    Logins = {l1, l2}
    SessionIds = {s1, s2}
    Realms <- SomeRealms
    Flows <- SomeFlows
    Lower <- LowerCase
    EsmoNo = "esmoNo"
    EsmoNoProd = "esmoNoProd"
    RealmOf <- SomeHomes
    MaxAttempts = 2
    MaxReturns = 2
    None = None
SYMMETRY Symmetry
SPECIFICATION Spec
INVARIANTS
    TypeOK
    RedirectsHome
    EndsInOwnAccount
    PageIsOfLastAttempt
PROPERTIES
    ComesHome
CHECK_DEADLOCK FALSE
