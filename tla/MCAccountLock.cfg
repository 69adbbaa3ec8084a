CONSTANTS
    Members = {m1, m2}
    Requests = {r1, r2}
    Lowest = 2
    Highest = 4
    MaxLocks = 2
SPECIFICATION Spec
INVARIANTS TypeOK BoundedDuplicates NotifiedMeansSent
SYMMETRY Symmetry
