CONSTANTS
    Requests = {r1, r2}
    Instances = {i1}
    LoginObject = login
    None = None
    RefreshLeeway = 0
    Idle = 2
    Absolute = 0
    TouchInterval = 1
    AllowPassthrough = FALSE
    ExpiresIn = {1}
    RotateAnswers = {TRUE, FALSE}
    MaxInFlight = 1
    TombstoneTTL = 1
    MaxTime = 3
    MaxToken = 3
SPECIFICATION Spec
INVARIANTS
    Inv
    DeletedStaysDeleted
    SpentOnlyWhenLost
    RejectedOnlyWhenDead
PROPERTIES
    EveryRequestAnswered
    ImplementsService
