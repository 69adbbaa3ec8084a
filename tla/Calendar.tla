------------------------------ MODULE Calendar ------------------------------
(***************************************************************************)
(* CURDATE() and MySQL's date arithmetic as the ledger reports use them,   *)
(* on days counted from 0 and months of one length.                        *)
(***************************************************************************)
EXTENDS Integers

CONSTANTS DaysPerMonth,
          MaxDay          \* the bound: the last day of a behaviour

ASSUME CalendarAssumption == DaysPerMonth \in Nat \ {0} /\ MaxDay \in Nat

VARIABLE today

\* DATE_FORMAT(d, '%Y-%m-01')
MonthStart(d) == d - (d % DaysPerMonth)

\* d - INTERVAL n MONTH
MonthsBack(d, n) == d - n * DaysPerMonth

NextDay == today < MaxDay /\ today' = today + 1
=============================================================================
