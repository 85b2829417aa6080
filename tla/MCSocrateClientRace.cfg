CONSTANTS
    Callers = {c1, c2}
    OperationsOf <- FirstDoesAll
    Unset = Unset
    Other = Other
    Torn = Torn
    MaxApp = 2
    piece = piece
SPECIFICATION MCSpec
INVARIANTS
    SafeToShare
CHECK_DEADLOCK FALSE
