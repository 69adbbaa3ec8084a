CONSTANTS
    DaysPerMonth = 2
    MaxDay = 10
    Principal <- MCPrincipal
    Flagged = {1, 3}
    Grace = 1
    ARGrace = 1
    MaxPostings = 3
    ActivityMonths = 3
    HealthMonths = 4
    RecentMonths = 2
    Eighteenth = 7
    LoanPct = 100
    Amounts = {1, 2}
    MaxDeposits = 2
    CtrlNos = {1, 2}
    Members = {m1, m2}
    WindowMonths = 2
    NoAccount = NoAccount
SPECIFICATION Spec
INVARIANTS TypeOK NextDueAgrees LoanPenaltyOnce PenaltyOnlyWhenBehind ActivityReconciles RecentIsCharted ListedOpens
PROPERTIES SavingNeverHurts NewestIsListed
CHECK_DEADLOCK FALSE
