CONSTANTS
    Attributes = {personIdentifier, mail}
    EidasAttributes = {personIdentifier}
    PersonIdentifier = personIdentifier
    Unknown = unknown
    Strange = {strange}
    MaxReturned = 3
    Missing = missing
    None = None
SPECIFICATION Spec
INVARIANTS
    TypeOK
    ReturnsReachTheirFields
    GetsWhatItAskedFor
PROPERTIES
    SortsTheAnswer
CHECK_DEADLOCK FALSE
