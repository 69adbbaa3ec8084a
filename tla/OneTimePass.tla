---------------------------- MODULE OneTimePass ----------------------------
(***************************************************************************)
(* What a one-time passcode challenge promises its callers, with nothing   *)
(* of how otp_verifications keeps the promise: a pass is issued, may be    *)
(* proved (its code presented), and ends either spent by exactly one       *)
(* winner or void.  What it buys is handed out at most once, and only from *)
(* a spent pass; it may never be handed out (the winner can fail or crash).*)
(***************************************************************************)

CONSTANT Passes

VARIABLES pass,      \* the phase of each pass
          redeemed   \* whether what the pass buys was handed out

vars == <<pass, redeemed>>

Phases == {"absent", "issued", "proved", "spent", "void"}

TypeOK ==
    /\ pass \in [Passes -> Phases]
    /\ redeemed \in [Passes -> BOOLEAN]

Init ==
    /\ pass = [p \in Passes |-> "absent"]
    /\ redeemed = [p \in Passes |-> FALSE]

Move(p, from, to) ==
    /\ pass[p] \in from
    /\ pass' = [pass EXCEPT ![p] = to]
    /\ UNCHANGED redeemed

Issue(p) == Move(p, {"absent"}, "issued")
Prove(p) == Move(p, {"issued"}, "proved")
Spend(p) == Move(p, {"issued", "proved"}, "spent")
Void(p)  == Move(p, {"issued", "proved"}, "void")

Redeem(p) ==
    /\ pass[p] = "spent"
    /\ ~redeemed[p]
    /\ redeemed' = [redeemed EXCEPT ![p] = TRUE]
    /\ UNCHANGED pass

Next == \E p \in Passes : Issue(p) \/ Prove(p) \/ Spend(p) \/ Void(p) \/ Redeem(p)

Spec == Init /\ [][Next]_vars
=============================================================================
