----------------------------- MODULE LoanLedger -----------------------------
(***************************************************************************)
(* A loan or an account receivable as three reports show it: /loans and    *)
(* /ar compute what is due from the schedule's installments and the        *)
(* postings, /amortization picks the next installment to pay from the      *)
(* schedule's balances.  Both must tell the member the same.               *)
(*                                                                         *)
(* Postings come from the cooperative's core system; amounts are whole     *)
(* units, and a penalty is represented by the installments it is charged   *)
(* for.                                                                    *)
(***************************************************************************)
EXTENDS Calendar, Sequences, FiniteSets, Functions

CONSTANTS Principal,    \* PRINDUE_PP of each installment
          Flagged,      \* the installments with PENFLAG = 'Y'
          Grace,        \* LoanPENGP, days before a penalty is charged
          ARGrace,      \* 15 days in the code
          MaxPostings   \* the bound: payments and settlements made

ASSUME LoanAssumption ==
    /\ Principal \in Seq(Nat)
    /\ Flagged \subseteq DOMAIN Principal
    /\ Grace \in Nat /\ ARGrace \in Nat

VARIABLES loanKind,   \* "loan" (SLC_CODE 12) or "ar" (13)
          entries     \* sldtl: SLE_CODE 11 "principal", 41 and 42 "penalty"

Installments == DOMAIN Principal

\* PRINDUE_PP summed over some installments.
Total(ks) == SumFunctionOnSet(Principal, ks)

Amount == Total(Installments)

Due(k) == k * DaysPerMonth

\* What is left to pay once installment k is paid.
PrinBal(k) == Total({j \in Installments : j > k})

-----------------------------------------------------------------------------
(* Sums over the postings.                                                 *)

Paid(dates) ==
    SumFunctionOnSet([i \in DOMAIN entries |-> entries[i].amount],
                     {i \in DOMAIN entries : entries[i].sle = "principal"
                                                /\ entries[i].date \in dates})

\* SUM(AMT), SLE_CODE = 11: the release of the loan less what was paid.
Balance == Amount - Paid(0..today)

BalanceBefore(d) == Amount - Paid(0..(d - 1))

Settlements == {entries[i].date : i \in {j \in DOMAIN entries : entries[j].sle = "penalty"}}

AtLeastZero(n) == IF n > 0 THEN n ELSE 0

-----------------------------------------------------------------------------
(* /loans and /ar.                                                         *)

Active == Balance > 0

PrincipalDue == AtLeastZero(Total({k \in Installments : Due(k) <= today}) - Amount + Balance)

\* Seeded fault: a day of grace is lost.
LateByGrace(k, d) == d - Due(k) >= Grace

\* DATEDIFF(CURDATE(), DUEDATE) > LoanPENGP
PastGrace(k, d) == d - Due(k) > Grace

\* Seeded fault: paid installments are charged too.
EverOwed(k, d) == TRUE

\* PRINBAL < the balance of the day before.
StillOwed(k, d) == PrinBal(k) < BalanceBefore(d)

\* The installments /loans charges a penalty for on day d, counting from the
\* day before the last settlement of a penalty before d.
Charged(d) ==
    {k \in Flagged :
        /\ \A s \in Settlements : s < d => Due(k) >= s - 1
        /\ PastGrace(k, d) /\ StillOwed(k, d)}

\* A loan that matured over a month ago shows no penalty at all.
MaturedOverdue == Due(Len(Principal)) < MonthsBack(today, 1)

LoanPenalty == IF MaturedOverdue THEN {} ELSE Charged(today)

LongDue(d) == {k \in Flagged : Due(k) < d - ARGrace}

\* Seeded fault: what was scheduled is not set against what was paid.
AnyLongDue == LongDue(today) # {}

Unpaid == Total(LongDue(today)) - Amount + Balance > 0

\* What a penalty can be computed from.
Penalizable == {k \in LongDue(today) : Principal[k] > 0}

\* /ar charges for the last installment long due, if they are not all paid.
ARPenalty ==
    IF Unpaid THEN {k \in Penalizable : \A j \in Penalizable : j <= k} ELSE {}

\* The answers: an account with nothing left to pay is not listed.
FindActiveLoans ==
    IF loanKind = "loan" /\ Active
    THEN {[balance |-> Balance, principalDue |-> PrincipalDue, penaltyDue |-> LoanPenalty]}
    ELSE {}

FindActiveAR ==
    IF loanKind = "ar" /\ Active
    THEN {[balance |-> Balance, principalDue |-> PrincipalDue, penaltyDue |-> ARPenalty]}
    ELSE {}

-----------------------------------------------------------------------------
(* /amortization.                                                          *)

\* Seeded fault: the nearest future installment, as in the report's first
\* version.
Upcoming == {k \in Installments : Due(k) >= today}

\* PRINBAL < balance
Unsettled == {k \in Installments : PrinBal(k) < Balance}

\* ROW_NUMBER() ... ORDER BY DUEDATE, rn = 1
NextInstallment == {k \in Unsettled : \A j \in Unsettled : k <= j}

-----------------------------------------------------------------------------
LoanInit == loanKind \in {"loan", "ar"} /\ entries = <<>>

Post(sle, amount) ==
    /\ Len(entries) < MaxPostings
    /\ entries' = Append(entries, [date |-> today, sle |-> sle, amount |-> amount])
    /\ UNCHANGED <<today, loanKind>>

\* Any amount, up to all that is left.
Pay == \E n \in 1..Balance : Post("principal", n)

\* The penalty shown is what the member settles.
SettlePenalty ==
    /\ \/ loanKind = "loan" /\ LoanPenalty # {}
       \/ loanKind = "ar" /\ ARPenalty # {}
    /\ Post("penalty", 0)

LoanNext == Pay \/ SettlePenalty

-----------------------------------------------------------------------------
(* Properties.                                                             *)

LoanTypeOK ==
    /\ loanKind \in {"loan", "ar"}
    /\ entries \in Seq([date : 0..today, sle : {"principal", "penalty"}, amount : 0..Amount])
    /\ Balance \in 0..Amount

\* The next installment is "the earlier, already-overdue installment that was
\* skipped ... which the /loans, /ar principal_due formula already computes":
\* an active account has exactly one next installment, and it is overdue or due
\* today exactly when the other report shows something due.
NextDueAgrees ==
    \A answer \in FindActiveLoans \cup FindActiveAR :
        \E k \in Installments :
            /\ NextInstallment = {k}
            /\ Due(k) <= today <=> answer.principalDue > 0
            /\ answer.principalDue <= answer.balance

\* /loans does not charge an installment again whose penalty was settled, but for
\* one due the day before, if the loan has no grace days.
LoanPenaltyOnce ==
    loanKind = "loan" =>
        \A s \in Settlements : \A d \in (s + 1)..today :
            \A k \in Charged(s) \cap Charged(d) : Grace = 0 /\ Due(k) = s - 1

\* "penalty_due replays the per-installment penalty formula since the last
\* penalty settlement": from the next day on, /ar shows no penalty for an
\* installment that was long due when the penalty was settled.
ARPenaltyOnce ==
    loanKind = "ar" =>
        \A s \in Settlements : s < today => ARPenalty \cap LongDue(s) = {}

\* A penalty is only shown to a member who was behind: /ar by its own
\* principal due, /loans, which looks at postings before today, by yesterday's.
PenaltyOnlyWhenBehind ==
    /\ \A ar \in FindActiveAR : ar.penaltyDue # {} => ar.principalDue > 0
    /\ \A loan \in FindActiveLoans :
          loan.penaltyDue # {} =>
              Total({k \in Installments : Due(k) < today}) > Amount - BalanceBefore(today)
=============================================================================
