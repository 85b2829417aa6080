CONSTANTS
    Callers = {c1, c2}
    Scopes = {s1, s2}
    None = None
    MaxScoped = 1
    RenewBefore = 1
    Lifetime = 3
    UnknownLifetime = 2
    MaxTime = 1
    MaxTokens = 2
    MaxTick = 3
SPECIFICATION MCSpec
SYMMETRY Symmetry
INVARIANTS
    Consistent
    ExpiryNotOverstated
    InvalidationIsEffective
    FloorNeverCostsADecision
PROPERTIES
    ModesAreHonoured
