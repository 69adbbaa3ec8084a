--------------------------- MODULE MCOtpChallenge ---------------------------
(* OtpChallenge on small sets; rows and requests are interchangeable.      *)
EXTENDS OtpChallenge, TLC

Symmetry == Permutations(Challenges) \cup Permutations(Requests)
=============================================================================
