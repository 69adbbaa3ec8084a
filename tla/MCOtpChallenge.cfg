\* One row, since rows never meet, and three requests that race on it: a right
\* code, the wrong codes that exhaust it and a second redeemer can all be in
\* flight together.  Three attempts: a first, a middle and the last one.
CONSTANTS
    Challenges = {c1}
    Requests = {r1, r2, r3}
    NoChallenge = none
    MaxAttempts = 3
SYMMETRY Symmetry
SPECIFICATION Spec
INVARIANTS TypeOK RedeemedOnce ExhaustedIsDead EffectsMatchPurpose AccountBeforeConsume
PROPERTIES ConsumedIsFinal ImplementsOneTimePass
\* Rows are a bounded set here: once each is used up there is nothing to do.
CHECK_DEADLOCK FALSE
