CONSTANTS
    AheadFrom = 291
    AheadUntil = 1000
    Delays <- SomeDelays
    Skews <- SomeSkews
    MaxDelays = 3
    UpdateUri = "/sm/updateSessionData"
    OtherUris = {"/fakeSm/updateSessionData"}
    None = None
SPECIFICATION Spec
INVARIANTS
    TypeOK
    PromptRequestsAreAuthorized
    AuthorizedAsSigned
