CONSTANTS
    Requests = {r1, r2}
    Passwords = {p1, p2, p3, p4}
    LegacyHash = legacy
    Addresses = {a1}
    None = None
    MaxRuns = 2
SPECIFICATION Spec
SYMMETRY Symmetry
INVARIANTS TypeOK StaleChangesBounded
PROPERTY LoneSettingsAreWhole
CHECK_DEADLOCK FALSE
