-------------------------- MODULE MCRefreshSession --------------------------
(* Model checking RefreshSession: four tokens, three requests.             *)
EXTENDS RefreshSession, TLC

Symmetry == Permutations(Tokens) \cup Permutations(Requests)
=============================================================================
