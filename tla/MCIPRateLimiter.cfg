CONSTANTS
    IPs = {i1, i2}
    Requests = {r1, r2}
    Limiters = {l1, l2, l3}
    None = None
    Burst = 2
    Refill = 2
    IdleTimeout = 4
    CleanupInterval = 2
    Patience = 1
SPECIFICATION Spec
SYMMETRY Symmetry
INVARIANTS TypeOK BoundedResidence
PROPERTY ImplementsTokenBucket
