--------------------------- MODULE MCLoginLockout ---------------------------
(* Model checking LoginLockout: one member tried from two addresses, and a *)
(* second member tried from one of them.                                   *)
EXTENDS LoginLockout

CONSTANTS m1, m2, i1, i2

MCAttempts == {[member |-> m1, ip |-> i1], [member |-> m1, ip |-> i2],
               [member |-> m2, ip |-> i1]}
=============================================================================
