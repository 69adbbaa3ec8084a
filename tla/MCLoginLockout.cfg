CONSTANTS
    m1 = m1
    m2 = m2
    i1 = i1
    i2 = i2
    Attempts <- MCAttempts
    Members = {m1, m2}
    IPs = {i1, i2}
    Requests = {r1, r2}
    AuditRows = {s1, s2, s3, s4}
    None = None
    Threshold = 2
SPECIFICATION Spec
INVARIANTS TypeOK BoundedOvershoot TripIsJustified
PROPERTY LockoutLifts
