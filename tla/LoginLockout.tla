---------------------------- MODULE LoginLockout ----------------------------
(***************************************************************************)
(* The login lockout: LoginService and VerifyLoginOTPService count the     *)
(* failed rows of login_audit_logs of the last 15 minutes, refuse the      *)
(* request when the member id or the IP has reached the threshold, and log *)
(* a failure that got past.  Counting and logging are separate statements  *)
(* outside any transaction, so concurrent requests overshoot the threshold.*)
(*                                                                         *)
(* Rows of status 'success', and rows older than the window, decide        *)
(* nothing and are not represented.  Rows leave the window in any order, a *)
(* superset of the oldest-first order of the clock.                        *)
(***************************************************************************)
EXTENDS Naturals, FiniteSets

CONSTANTS Members,    \* the member ids attempted (known to the portal or not)
          IPs,        \* the client addresses
          Attempts,   \* who tries from where
          Requests,   \* the requests the server handles at once
          AuditRows,  \* the bound: failed rows the window can hold
          None,       \* an unused audit row; the origin of an idle request
          Threshold   \* loginLockoutThreshold

ASSUME LockoutAssumption ==
    /\ Attempts \subseteq [member : Members, ip : IPs]
    /\ Threshold \in Nat \ {0}
    /\ IsFiniteSet(Requests)
    /\ IsFiniteSet(AuditRows)
    /\ None \notin Attempts

VARIABLES log,   \* the failed login_audit_logs rows inside the window
          req    \* each request's progress, origin and the count it read

vars == <<log, req>>

Stages == {"idle", "counting", "admitted", "tripped"}
Limit  == Cardinality(AuditRows)
Idle   == [stage |-> "idle", from |-> None, seen |-> 0]

RowsOfMember(m) == {s \in AuditRows : log[s] # None /\ log[s].member = m}
RowsOfIP(i)     == {s \in AuditRows : log[s] # None /\ log[s].ip = i}

\* The two SELECT COUNT(*) of CountRecentFailedLogins.
FailuresOfMember(m) == Cardinality(RowsOfMember(m))
FailuresOfIP(i)     == Cardinality(RowsOfIP(i))

-----------------------------------------------------------------------------
(* enforceLoginLockout, as functions of the two counts.                    *)

\* Seeded fault: either counter below the threshold lets the request in.
AdmitsEither(byMember, byIP) == byMember < Threshold \/ byIP < Threshold

Admits(byMember, byIP) == byMember < Threshold /\ byIP < Threshold

\* Seeded faults: the IP count is not considered; the counts are added up.
MemberOnly(byMember, byIP) == byMember
SummedUp(byMember, byIP)   == byMember + byIP

\* The count reported to lockMemberAccount.
Reported(byMember, byIP) == IF byIP > byMember THEN byIP ELSE byMember

-----------------------------------------------------------------------------
Init ==
    /\ log = [s \in AuditRows |-> None]
    /\ req = [r \in Requests |-> Idle]

At(r, stage) == req[r].stage = stage
Finish(r)    == req' = [req EXCEPT ![r] = Idle]

\* INSERT of a failed row for attempt a.
LogFailure(a) ==
    \E s \in AuditRows : log[s] = None /\ log' = [log EXCEPT ![s] = a]

\* A login, or the verification of a login OTP, reads the member's count.
CountMember(r, a) ==
    /\ At(r, "idle")
    /\ req' = [req EXCEPT ![r] = [stage |-> "counting", from |-> a,
                                  seen |-> FailuresOfMember(a.member)]]
    /\ UNCHANGED log

\* The IP's count is read by a second statement; then the gate decides.
CountIPAndGate(r) ==
    /\ At(r, "counting")
    /\ LET byMember == req[r].seen
           byIP     == FailuresOfIP(req[r].from.ip)
       IN  req' = [req EXCEPT ![r] =
                     [stage |-> IF Admits(byMember, byIP) THEN "admitted" ELSE "tripped",
                      from  |-> req[r].from,
                      seen  |-> Reported(byMember, byIP)]]
    /\ UNCHANGED log

\* Unknown member, wrong password, suspended account or wrong code.
RecordLoginAttempt(r) ==
    /\ At(r, "admitted")
    /\ LogFailure(req[r].from)
    /\ Finish(r)

\* The credentials are right, or a statement fails (that of the audit row
\* included: recordLoginAttempt drops its error).
LeaveUnrecorded(r) ==
    /\ req[r].stage \in {"counting", "admitted"}
    /\ Finish(r)
    /\ UNCHANGED log

\* Seeded fault: the refused request is itself logged as a failure.
RefuseAndRecord(r) ==
    /\ At(r, "tripped")
    /\ LogFailure(req[r].from) \/ UNCHANGED log
    /\ Finish(r)

\* ErrAccountTemporarilyLocked, after lockMemberAccount (module AccountLock)
\* was handed the count.  A refusal is not logged.
Refuse(r) ==
    /\ At(r, "tripped")
    /\ Finish(r)
    /\ UNCHANGED log

\* A row becomes older than 15 minutes.
LeaveWindow(s) ==
    /\ log[s] # None
    /\ log' = [log EXCEPT ![s] = None]
    /\ UNCHANGED req

\* The development-only unlock, first statement: the rows that gate m or i.
DeleteRecentFailedLogins(m, i) ==
    /\ log' = [s \in AuditRows |->
                 IF s \in RowsOfMember(m) \cup RowsOfIP(i) THEN None ELSE log[s]]
    /\ UNCHANGED req

Crash ==
    /\ \E r \in Requests : ~At(r, "idle")
    /\ req' = [r \in Requests |-> Idle]
    /\ UNCHANGED log

Next ==
    \/ \E r \in Requests :
          \/ \E a \in Attempts : CountMember(r, a)
          \/ CountIPAndGate(r) \/ RecordLoginAttempt(r) \/ LeaveUnrecorded(r)
          \/ Refuse(r)
    \/ \E s \in AuditRows : LeaveWindow(s)
    \/ \E m \in Members, i \in IPs : DeleteRecentFailedLogins(m, i)
    \/ Crash

\* The clock is all that is relied on: every row eventually leaves the window.
Fairness == \A s \in AuditRows : WF_vars(LeaveWindow(s))

Spec == Init /\ [][Next]_vars /\ Fairness

-----------------------------------------------------------------------------
(* Properties.                                                             *)

TypeOK ==
    /\ log \in [AuditRows -> Attempts \cup {None}]
    /\ req \in [Requests -> [stage : Stages, from : Attempts \cup {None},
                             seen : 0..Limit]]

\* The most failures a burst of concurrent requests can log.
MostFailures == Threshold - 1 + Cardinality(Requests)

\* "A burst of concurrent requests can briefly overshoot the threshold ...
\* Bounded": no member id and no IP ever has more failures in the window than
\* the threshold allows plus one for every other request in flight.
BoundedOvershoot ==
    /\ \A m \in Members : FailuresOfMember(m) <= MostFailures
    /\ \A i \in IPs : FailuresOfIP(i) <= MostFailures

\* A refusal is justified by the count it reports: at least the threshold,
\* and never more than a burst can log, although the two counts were read at
\* different times and the window moved meanwhile.
TripIsJustified ==
    \A r \in Requests :
        At(r, "tripped") => req[r].seen \in Threshold..MostFailures

\* "Self-correcting": a locked member id, or IP, is let in again once the window
\* has passed, however often it is retried meanwhile.
LockoutLifts ==
    /\ \A m \in Members :
          FailuresOfMember(m) >= Threshold ~> FailuresOfMember(m) < Threshold
    /\ \A i \in IPs : FailuresOfIP(i) >= Threshold ~> FailuresOfIP(i) < Threshold

-----------------------------------------------------------------------------
(* The inductive invariant behind BoundedOvershoot and TripIsJustified.    *)

\* Requests that may still log a failure of member m, or of IP i.
PendingOfMember(m) ==
    {r \in Requests :
        /\ req[r].from # None /\ req[r].from.member = m
        /\ At(r, "admitted") \/ (At(r, "counting") /\ req[r].seen < Threshold)}
PendingOfIP(i) ==
    {r \in Requests :
        At(r, "admitted") /\ req[r].from # None /\ req[r].from.ip = i}

\* Every request still to log takes the place of one not counted yet.
Reserved ==
    /\ \A m \in Members :
          FailuresOfMember(m) + Cardinality(PendingOfMember(m)) <= MostFailures
    /\ \A i \in IPs :
          FailuresOfIP(i) + Cardinality(PendingOfIP(i)) <= MostFailures

InFlight(r) ==
    /\ ~At(r, "idle") => req[r].from # None
    /\ req[r].seen <= MostFailures
    /\ At(r, "tripped") => req[r].seen >= Threshold

IInv ==
    /\ TypeOK
    /\ Reserved
    /\ \A r \in Requests : InFlight(r)
=============================================================================
