---------------------------- MODULE MCAccountLock ----------------------------
(* Model checking AccountLock: two members, two refusals at once.          *)
EXTENDS AccountLock, TLC

Symmetry == Permutations(Requests) \cup Permutations(Members)
=============================================================================
