------------------------------ MODULE MCPortal ------------------------------
(* Model checking Portal: inputs that meet on one email and one member id.  *)
EXTENDS Portal, TLC

CONSTANTS r1, r2, e1, e2, m1, m2, i1, na

Form(e, m, status) == [email |-> e, member |-> m, status |-> status]

MCRegistrations == {Form(e1, m1, "active"), Form(None, m2, "pending_review")}

MCNewEmails == {e1, e2}

MCProfiles == {[identity |-> i1, email |-> e1]}

MCLegacyRows == {[member |-> m1, email |-> e1, status |-> "closed"],
                 [member |-> m2, email |-> e1, status |-> "inactive"],
                 [member |-> None, email |-> na, status |-> ""]}

\* The run again meets only what was under way when it began.
MCMaxBusy == [n \in 0..MaxRuns |-> IF n < MaxRuns THEN 2 ELSE 1]

Symmetry == Permutations(Requests) \cup Permutations(SignIns) \cup Permutations(Ids)
=============================================================================
