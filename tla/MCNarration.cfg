CONSTANTS
    Getters = {g1, g2}
    Keys = {k1, k2, k3}
    None = None
    MaxSize = 2
    TTL = 1
    MaxTime = 3
SPECIFICATION MCSpec
INVARIANTS
    Consistent
    ResultsAreGenuine
    
PROPERTIES
    EventuallyReturns
