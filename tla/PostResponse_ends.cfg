CONSTANTS
    Requests = {r1, r2}
    Sessions = {s1, s2}
    People = {"ann", "Ann", "bob"}
    Contents <- FewContents
    Claims = 2
    PersonIdentifier = 1
    Prefixes = {"esmo"}
    Name <- LowerCase
    MaxOverlap = 2
    None = None
SPECIFICATION FairSpec
PROPERTIES
    KeepsRecords
    EveryReturnEnds
    EveryStepCounts
INVARIANTS
    RecordInv
    BurstInv
