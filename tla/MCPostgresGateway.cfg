CONSTANTS
    Requests = {r1, r2}
    Instances = {i1, i2}
    LoginObject = login
    None = None
    Wiped = Wiped
    RefreshLeeway = 0
    Idle = 2
    Absolute = 0
    TouchInterval = 1
    AllowPassthrough = FALSE
    ExpiresIn = {1}
    RotateAnswers = {TRUE}
    MaxInFlight = 1
    TombstoneTTL = 1
    MaxTime = 3
    MaxToken = 2
    DbFaults = TRUE
    Crashes = TRUE
SPECIFICATION Spec
SYMMETRY Symmetry
INVARIANTS
    DeletedStaysDeleted
    SequentialSpentOnlyWhenLost
PROPERTIES
    IdleMeansDead
