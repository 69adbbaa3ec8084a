----------------------------- MODULE AccountLock -----------------------------
(***************************************************************************)
(* The record and the notice of a lockout: lockMemberAccount, which every  *)
(* refused login (module LoginLockout) runs, the rows of                   *)
(* locked_member_accounts it writes, and the email goroutine it starts.    *)
(* The rows decide nothing about later logins; they and the email tell the *)
(* member and support what happened.  Looking for an active row and        *)
(* inserting one are separate statements and no unique key guards them.    *)
(***************************************************************************)
EXTENDS Naturals, FiniteSets, Sequences

CONSTANTS Members,   \* the member ids that get locked
          Requests,  \* the refused requests handled at once
          Lowest,    \* loginLockoutThreshold, the lowest count reported
          Highest,   \* the bound: the highest count reported
          MaxLocks   \* the bound: how many rows are ever inserted

ASSUME LockAssumption ==
    /\ Lowest \in Nat \ {0} /\ Highest \in Nat /\ MaxLocks \in Nat
    /\ IsFiniteSet(Requests)

VARIABLES lock,   \* the table; a row's position is its auto-increment id
          mails,  \* the email goroutines under way
          req     \* the lockMemberAccount call of each request

vars == <<lock, mails, req>>

Counts == Lowest..Highest

\* sent: whether the email went out, which the column notified_at records.
Locks == [member : Members, attempts : Counts, locked : BOOLEAN,
          expired : BOOLEAN, sent : BOOLEAN, notified : BOOLEAN]
Calls == [stage : {"creating"}, member : Members, attempts : Counts]
            \cup [stage : {"bumping"}, id : 1..MaxLocks, attempts : Counts]
Mails == [stage : {"sending", "marking"}, id : 1..MaxLocks]
Idle  == [stage |-> "idle"]

-----------------------------------------------------------------------------
(* The statements of the repository.                                       *)

\* Seeded fault: is_locked and expires_at are tested the wrong way round.
InactiveRow(l, m) == l.member = m /\ ~(l.locked /\ ~l.expired)

\* WHERE member_id = ? AND is_locked = TRUE AND expires_at > NOW()
Active(l, m) == l.member = m /\ l.locked /\ ~l.expired

ActiveIds(m) == {k \in DOMAIN lock : Active(lock[k], m)}

\* ORDER BY id DESC LIMIT 1
Newest(ids) == CHOOSE k \in ids : \A j \in ids : j <= k

NewLock(m, n) == [member |-> m, attempts |-> n, locked |-> TRUE,
                  expired |-> FALSE, sent |-> FALSE, notified |-> FALSE]

\* Seeded fault: the id before the insert is taken for the new row's.
LastId(rows) == Len(rows)

\* LastInsertId of a row inserted after rows.
InsertId(rows) == Len(rows) + 1

-----------------------------------------------------------------------------
Init ==
    /\ lock = <<>>
    /\ mails = {}
    /\ req = [r \in Requests |-> Idle]

At(r, stage)     == req[r].stage = stage
Finish(r)        == req' = [req EXCEPT ![r] = Idle]
Call(r, call)    == req' = [req EXCEPT ![r] = call]
Set(k, row)      == lock' = [lock EXCEPT ![k] = row]

\* No active row was found: one will be inserted.
FindNone(r, m, n) ==
    /\ At(r, "idle")
    /\ ActiveIds(m) = {}
    /\ Call(r, [stage |-> "creating", member |-> m, attempts |-> n])
    /\ UNCHANGED <<lock, mails>>

\* The newest active row will be refreshed if its count, as read now, is lower;
\* else the call is over and changes nothing.
FindActive(r, m, n) ==
    /\ At(r, "idle")
    /\ ActiveIds(m) # {}
    /\ n > lock[Newest(ActiveIds(m))].attempts
    /\ Call(r, [stage |-> "bumping", id |-> Newest(ActiveIds(m)), attempts |-> n])
    /\ UNCHANGED <<lock, mails>>

\* UPDATE ... SET attempt_count = ? WHERE id = ?
UpdateAttempts(r) ==
    /\ At(r, "bumping")
    /\ Set(req[r].id, [lock[req[r].id] EXCEPT !.attempts = req[r].attempts])
    /\ Finish(r)
    /\ UNCHANGED mails

\* INSERT; an email goroutine starts if the member exists, was found and has a
\* valid address.
CreateLock(r) ==
    /\ At(r, "creating")
    /\ Len(lock) < MaxLocks
    /\ lock' = Append(lock, NewLock(req[r].member, req[r].attempts))
    /\ \/ mails' = mails \cup {[stage |-> "sending", id |-> InsertId(lock)]}
       \/ UNCHANGED mails
    /\ Finish(r)

\* A statement fails; the login is refused all the same.
Fail(r) ==
    /\ ~At(r, "idle")
    /\ Finish(r)
    /\ UNCHANGED <<lock, mails>>

\* Seeded fault: the goroutine goes on after a failed send.
SendAndGoOn(k) ==
    LET sending == [stage |-> "sending", id |-> k]
    IN  /\ sending \in mails
        /\ Set(k, [lock[k] EXCEPT !.sent = TRUE]) \/ UNCHANGED lock
        /\ mails' = (mails \ {sending}) \cup {[stage |-> "marking", id |-> k]}
        /\ UNCHANGED req

\* The goroutine hands the email to the SMTP server, or fails to.
SendEmail(k) ==
    LET sending == [stage |-> "sending", id |-> k]
    IN  /\ sending \in mails
        /\ \/ /\ Set(k, [lock[k] EXCEPT !.sent = TRUE])
              /\ mails' = (mails \ {sending}) \cup {[stage |-> "marking", id |-> k]}
           \/ /\ mails' = mails \ {sending}
              /\ UNCHANGED lock
        /\ UNCHANGED req

\* notified_at is written after the email went out; the write may fail.
MarkNotified(k) ==
    LET marking == [stage |-> "marking", id |-> k]
    IN  /\ marking \in mails
        /\ Set(k, [lock[k] EXCEPT !.notified = TRUE]) \/ UNCHANGED lock
        /\ mails' = mails \ {marking}
        /\ UNCHANGED req

\* The development-only unlock, second statement: every locked row of m.
UnlockMember(m) ==
    /\ lock' = [k \in DOMAIN lock |->
                  IF lock[k].member = m THEN [lock[k] EXCEPT !.locked = FALSE]
                  ELSE lock[k]]
    /\ UNCHANGED <<mails, req>>

\* Ten days have passed since the row was inserted.
Expire(k) ==
    /\ ~lock[k].expired
    /\ Set(k, [lock[k] EXCEPT !.expired = TRUE])
    /\ UNCHANGED <<mails, req>>

\* The process dies, with the requests and goroutines in flight.
Crash ==
    /\ req' = [r \in Requests |-> Idle]
    /\ mails' = {}
    /\ UNCHANGED lock

Next ==
    \/ \E r \in Requests :
          \/ \E m \in Members, n \in Counts : FindNone(r, m, n) \/ FindActive(r, m, n)
          \/ UpdateAttempts(r) \/ CreateLock(r) \/ Fail(r)
    \/ \E k \in DOMAIN lock : SendEmail(k) \/ MarkNotified(k) \/ Expire(k)
    \/ \E m \in Members : UnlockMember(m)
    \/ Crash

Spec == Init /\ [][Next]_vars

-----------------------------------------------------------------------------
(* Properties.                                                             *)

\* Calls and goroutines in flight always name a row that exists.
TypeOK ==
    /\ lock \in Seq(Locks) /\ Len(lock) <= MaxLocks
    /\ mails \subseteq Mails /\ \A g \in mails : g.id \in DOMAIN lock
    /\ req \in [Requests -> Calls \cup {Idle}]
    /\ \A r \in Requests : At(r, "bumping") => req[r].id \in DOMAIN lock

\* Duplicate rows (and emails) for one lockout are bounded by the number of
\* refusals handled at once: only requests that overlapped the first insert can
\* add one, however long the member keeps being retried.
Creating(m) == {r \in Requests : At(r, "creating") /\ req[r].member = m}

BoundedDuplicates ==
    \A m \in Members :
        Cardinality(ActiveIds(m)) + Cardinality(Creating(m)) <= Cardinality(Requests)

\* notified_at "records that the lockout email was actually sent, so support can
\* tell whether the member was informed": it never claims an email that was not.
NotifiedMeansSent == \A k \in DOMAIN lock : lock[k].notified => lock[k].sent

-----------------------------------------------------------------------------
(* The inductive invariant behind them.                                    *)

\* A goroutine that is about to write notified_at has sent its email.
MarkingIsSent == \A g \in mails : g.stage = "marking" => lock[g.id].sent

IInv == TypeOK /\ BoundedDuplicates /\ NotifiedMeansSent /\ MarkingIsSent
=============================================================================
