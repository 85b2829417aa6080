CONSTANTS
    Requests = {r1, r2}
    Kids = {k1, k2}
    None = None
    CacheTTL = 3
    MinRefetchInterval = 2
    NegativeCacheTTL = 2
    MaxInFlight = 1
    MaxTime = 5
    MaxChanges = 2
    Blank = Blank
    NilID = NilID
    NotUUID = NotUUID
    NotString = NotString
SPECIFICATION MCSpec
SYMMETRY Symmetry
INVARIANTS
    Consistent
    ServedIffEntitled
    FixturesAgree
    DriftIsListed
PROPERTIES
    KeysAreCurrent
CHECK_DEADLOCK FALSE
