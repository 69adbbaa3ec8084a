--------------------------- MODULE MCIPRateLimiter ---------------------------
(* Model checking IPRateLimiter: two addresses, two requests at once.      *)
EXTENDS IPRateLimiter, TLC

Symmetry == Permutations(Limiters) \cup Permutations(Requests)
=============================================================================
