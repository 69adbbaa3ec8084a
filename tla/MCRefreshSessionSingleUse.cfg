CONSTANTS
    Tokens = {t1, t2, t3, t4}
    NoToken = NoToken
    Requests = {r1, r2, r3}
SPECIFICATION Spec
INVARIANT SingleUse
SYMMETRY Symmetry
