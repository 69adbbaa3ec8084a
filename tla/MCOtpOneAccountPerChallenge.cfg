CONSTANTS
    Challenges = {c1}
    Requests = {r1, r2, r3}
    NoChallenge = none
    MaxAttempts = 3
SPECIFICATION Spec
INVARIANT OneAccountPerChallenge
CHECK_DEADLOCK FALSE
