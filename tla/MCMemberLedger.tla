--------------------------- MODULE MCMemberLedger ---------------------------
(* Model checking MemberLedger: an irregular schedule of three             *)
(* installments, the second of which carries no penalty flag.              *)
EXTENDS MemberLedger

MCPrincipal == <<2, 1, 2>>
=============================================================================
