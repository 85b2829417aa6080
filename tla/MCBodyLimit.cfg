CONSTANTS
    Requests = {r1, r2}
    Identified = {t1}
    Addresses = {a1, a2}
    Tenants = {t2}
    None = None
    Rate = 1
    Burst = 1
    AnonymousRate = 1
    AnonymousBurst = 1
    MaxAnonymousKeys = 1
    IdleTTL = 2
    MaxInFlight = 1
    MaxTime = 3
    Readers = {p1, p2}
    Writers = {w1}
    Dev = Dev
    Generic = Generic
SPECIFICATION MCSpec
SYMMETRY Symmetry
INVARIANT
    OverrideApplies
