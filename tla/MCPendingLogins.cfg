CONSTANTS
    Browsers = {b1, b2}
    States = {s1, s2, s3}
    Callbacks = {c1, c2}
    None = None
    TTL = 1
    Max = 2
    MaxTime = 3
SPECIFICATION Spec
SYMMETRY Symmetry
INVARIANTS
    AcceptedOnce
    BoundToBrowser
PROPERTIES
    RefusedForCause
    BoundIsExact
