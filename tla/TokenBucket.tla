----------------------------- MODULE TokenBucket -----------------------------
(***************************************************************************)
(* What the per-IP limiter promises: every client address has a bucket of  *)
(* Burst tokens that refills by one token every Refill ticks, and a        *)
(* request is let through exactly by spending a token of its address.      *)
(* Levels are counted in ticks, so a token is worth Refill.                *)
(***************************************************************************)
EXTENDS Naturals

CONSTANTS IPs, Burst, Refill

VARIABLE level

Full == Burst * Refill

Refilled(n) == IF n < Full THEN n + 1 ELSE n

Init == level = [ip \in IPs |-> Full]

Tick == level' = [ip \in IPs |-> Refilled(level[ip])]

Admit(ip) ==
    /\ level[ip] >= Refill
    /\ level' = [level EXCEPT ![ip] = @ - Refill]

Next == Tick \/ \E ip \in IPs : Admit(ip)

Spec == Init /\ [][Next]_level
=============================================================================
