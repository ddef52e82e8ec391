CONSTANTS
    Requests = {r1, r2, r3}
    Sessions = {s1, s2}
    People = {"ann", "Ann", "bob"}
    Contents <- SomeContents
    Claims = 2
    PersonIdentifier = 1
    Prefixes = {"esmo"}
    Name <- LowerCase
    MaxOverlap = 2
    None = None
SYMMETRY Symmetry
SPECIFICATION Spec
INVARIANTS
    TypeOK
    RecordIsOwnWhenAlone
    ReadsOwnSessionWhenAlone
    NothingOutlivesItsBurst
