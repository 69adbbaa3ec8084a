---------------------------- MODULE MemberLedger ----------------------------
(***************************************************************************)
(* The ledger reports of one member: postings and statements come in, days *)
(* pass, and every report may be asked for at any time.  A behaviour       *)
(* follows one family of reports, chosen at the start: the families read   *)
(* disjoint rows.                                                          *)
(***************************************************************************)
EXTENDS LoanLedger, DepositLedger, Statements

VARIABLE family

loanVars      == <<loanKind, entries>>
depositVars   == <<member, postings>>
statementVars == <<statements, linked, reader>>

vars == <<today, family, loanVars, depositVars, statementVars>>

Init ==
    /\ today = 0
    /\ family \in {"loans", "deposits", "statements"}
    /\ LoanInit /\ DepositInit /\ StatementInit
    /\ family # "loans" => loanKind = "loan"
    /\ family # "deposits" => member = "adult"
    /\ family # "statements" => linked = NoAccount

ADayPasses == NextDay /\ UNCHANGED <<family, loanVars, depositVars, statementVars>>

LoanStep ==
    /\ family = "loans" /\ LoanNext
    /\ UNCHANGED <<family, depositVars, statementVars>>

DepositStep ==
    /\ family = "deposits" /\ DepositNext
    /\ UNCHANGED <<family, loanVars, statementVars>>

StatementStep ==
    /\ family = "statements" /\ StatementNext
    /\ UNCHANGED <<family, loanVars, depositVars>>

Next == ADayPasses \/ LoanStep \/ DepositStep \/ StatementStep

Spec == Init /\ [][Next]_vars

\* The rows the core system posts, and what the reports' windows assume.
TypeOK ==
    /\ today \in 0..MaxDay
    /\ LoanTypeOK /\ DepositTypeOK /\ StatementTypeOK

\* Inductive: every other invariant of the reports follows from it.
IInv ==
    /\ family \in {"loans", "deposits", "statements"}
    /\ TypeOK
    /\ ReaderInv
=============================================================================
