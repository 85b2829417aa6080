CONSTANTS
    Callers = {c1, c2}
    OperationsOf <- FirstDoesAll
    Unset = Unset
    Other = Other
    Torn = Torn
    MaxApp = 2
    piece = piece
SPECIFICATION MCSpec
INVARIANTS
    Consistent
    ResultsAreTrue
    DeliveredArePrefix
PROPERTIES
    ActsAtMostOnce
    CancelEnds
CHECK_DEADLOCK FALSE
