---------------------------- MODULE MCCredentials ----------------------------
(* Model checking Credentials: more passwords than two requests can hold.   *)
EXTENDS Credentials, TLC

Symmetry == Permutations(Requests) \cup Permutations(Passwords)
=============================================================================
