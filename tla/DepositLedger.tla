---------------------------- MODULE DepositLedger ----------------------------
(***************************************************************************)
(* Deposits as four reports show them: /balance sums all postings,         *)
(* /activity charts deposits and withdrawals by month, /transactions lists *)
(* the recent postings, /health scores how many months were positive.      *)
(* They read the same rows through different windows and filters.          *)
(***************************************************************************)
EXTENDS Calendar, Sequences, FiniteSets, Functions

CONSTANTS ActivityMonths,   \* 6 in the code: n < 5
          HealthMonths,     \* 12: n < 11
          RecentMonths,     \* 3
          Eighteenth,       \* the day a young member turns 18
          LoanPct,          \* loan_repayment_pct, 100 without loans
          Amounts,          \* how much may be put in or taken out
          MaxDeposits       \* the bound: postings made

\* The recent transactions go less far back than the chart.
ASSUME DepositAssumption ==
    /\ ActivityMonths \in Nat \ {0} /\ HealthMonths \in Nat \ {0}
    /\ RecentMonths \in Nat /\ RecentMonths < ActivityMonths
    /\ LoanPct \in Nat
    /\ Amounts \subseteq Nat \ {0}

VARIABLES member,     \* "adult" (ClientType 1, 2) or "kiddie" (3, 4)
          postings    \* sldtl: savings 22, time deposit 24, share capital 31

Products == {"savings", "time_deposit", "share_capital"}

\* Seeded fault: AMT is summed with the sign it has in the ledger.
NetAsStored(is) == SumFunctionOnSet([i \in DOMAIN postings |-> postings[i].amt], is)

\* The sum of AMT * -1: in the ledger a deposit is negative.
Net(is) == SumFunctionOnSet([i \in DOMAIN postings |-> -postings[i].amt], is)

Of(products, dates) ==
    {i \in DOMAIN postings : postings[i].slc \in products /\ postings[i].date \in dates}

-----------------------------------------------------------------------------
(* /balance and /transactions, for regular members and minors only.        *)

\* TIMESTAMPDIFF(YEAR, DateOfBirth, CURDATE()) < 18
Eligible == member = "adult" \/ today < Eighteenth

DepositBalance(products) == IF Eligible THEN Net(Of(products, 0..today)) ELSE 0

\* Loan postings, and all but the last ten, are left out here.
LastTransactions ==
    IF Eligible THEN Of(Products, MonthsBack(today, RecentMonths)..today) ELSE {}

-----------------------------------------------------------------------------
(* /activity and /health, for anyone.                                      *)

\* Seeded fault: the months are counted from 1.
OneMonthLess(n) == {MonthsBack(MonthStart(today), k) : k \in 0..(n - 2)}

\* WITH RECURSIVE months
Months(n) == {MonthsBack(MonthStart(today), k) : k \in 0..(n - 1)}

InMonth(m) == m..(m + DaysPerMonth - 1)

Charted == {"savings", "time_deposit"}

DepositAmt(m) ==
    Net({i \in Of(Charted, InMonth(m)) : postings[i].amt < 0})

\* Seeded fault: a withdrawal keeps the sign of a deposit.
WithdrawalNegated(m) ==
    Net({i \in Of(Charted, InMonth(m)) : postings[i].amt > 0})

WithdrawalAmt(m) ==
    -Net({i \in Of(Charted, InMonth(m)) : postings[i].amt > 0})

NetAmt(m) == DepositAmt(m) - WithdrawalAmt(m)

\* ROUND(a / b, 0)
Rounded(a, b) == (2 * a + b) \div (2 * b)

\* Seeded fault: months with a net outflow are counted.
Outflow(product, m) == Net(Of({product}, InMonth(m))) < 0

Positive(product, m) == Net(Of({product}, InMonth(m))) > 0

\* The percentage of months with a net-positive posting.
MonthsPct(product) ==
    LET months == Months(HealthMonths)
    IN  Rounded(100 * Cardinality({m \in months : Positive(product, m)}), Cardinality(months))

HealthScore == Rounded(MonthsPct("share_capital") + MonthsPct("savings") + LoanPct, 3)

-----------------------------------------------------------------------------
DepositInit == member \in {"adult", "kiddie"} /\ postings = <<>>

PostDeposit(product, amt) ==
    /\ Len(postings) < MaxDeposits
    /\ postings' = Append(postings, [date |-> today, slc |-> product, amt |-> amt])
    /\ UNCHANGED <<today, member>>

Deposit(product, n) == PostDeposit(product, -n)

Withdraw(product, n) ==
    /\ n <= Net(Of({product}, 0..today))
    /\ PostDeposit(product, n)

DepositNext ==
    \E product \in Products, n \in Amounts : Deposit(product, n) \/ Withdraw(product, n)

-----------------------------------------------------------------------------
(* Properties.                                                             *)

DepositTypeOK ==
    /\ member \in {"adult", "kiddie"}
    /\ postings \in Seq([date : 0..today, slc : Products,
                        amt : Amounts \cup {-n : n \in Amounts}])
    /\ \A product \in Products : Net(Of({product}, 0..today)) >= 0

ChartStart == CHOOSE m \in Months(ActivityMonths) : \A k \in Months(ActivityMonths) : m <= k

\* What the chart shows to have come in and gone out explains the balance: the
\* balance is what it was before the chart plus the net of every month.
ActivityReconciles ==
    Eligible =>
        DepositBalance(Charted) =
            Net(Of(Charted, 0..(ChartStart - 1)))
                + SumFunction([m \in Months(ActivityMonths) |-> NetAmt(m)])

\* Every savings posting among the recent transactions is part of the chart.
RecentIsCharted ==
    \A i \in LastTransactions :
        postings[i].slc \in Charted =>
            \E m \in Months(ActivityMonths) : postings[i].date \in InMonth(m)

\* Putting money in never lowers the health score, whatever rounding and the
\* moving window do, and taking money out never raises it.
SavingNeverHurts ==
    [][Len(postings') > Len(postings) =>
          IF postings'[Len(postings')].amt < 0 THEN HealthScore' >= HealthScore
          ELSE HealthScore' <= HealthScore]_<<postings, today, member>>
=============================================================================
