---------------------------- MODULE LegacyMembers ----------------------------
(***************************************************************************)
(* cmd/migrate_legacy_members, the backfill that copies the old portal's   *)
(* member_record rows into users while the portal may be serving.  It goes *)
(* row by row: a lookup by member id, then a transaction of its own.  A    *)
(* row whose email is taken is inserted again without it; a row that       *)
(* cannot be inserted is listed in a report.  "Safe to re-run: any         *)
(* member_id already present in users is skipped."                         *)
(***************************************************************************)
EXTENDS UserTable

CONSTANTS LegacyRows,   \* member_record: member id, email and status as typed
          Junk,         \* what the front desk typed for "no email"
          Backfill,     \* the actor, as the owner of a transaction
          MaxRuns       \* the bound: how often the command is run

VARIABLES mig,      \* the run under way, or how the last one ended
          left,     \* rows the run has still to look at
          skipped,  \* members the run could not insert, with the reason
          report,   \* the report file: the members it lists
          runs

migVars == <<mig, left, skipped, report, runs>>

MigIs(stage)  == mig.stage = stage
MigSet(state) == mig' = state

MigStates ==
    [stage : {"off", "next", "finished", "unreported", "died"}]
    \cup [stage : {"insert", "retry"}, row : LegacyRows]
    \cup [stage : {"pair", "commit"}, row : LegacyRows, id : Ids]

MigInit ==
    /\ mig = [stage |-> "off"]
    /\ left = {} /\ skipped = {} /\ report = {} /\ runs = 0

-----------------------------------------------------------------------------
(* The conversions of a legacy row: unknown statuses become active, junk    *)
(* emails and blank ones NULL.                                              *)

EmailOf(row)  == IF row.email \in Junk THEN None ELSE row.email

\* Seeded fault: the status is copied as it is.
RawStatus(row) == row.status

StatusOf(row) == IF row.status = "inactive" THEN "inactive" ELSE "active"

-----------------------------------------------------------------------------
Start ==
    /\ mig.stage \in {"off", "finished", "unreported", "died"}
    /\ runs < MaxRuns
    /\ runs' = runs + 1
    /\ left' = LegacyRows /\ skipped' = {}
    /\ MigSet([stage |-> "next"])
    /\ UNCHANGED <<users, report>>

Skip(row, reason) == skipped' = skipped \cup {[member |-> row.member, reason |-> reason]}

\* An empty m_id.
SkipNameless ==
    /\ MigIs("next")
    /\ \E row \in left :
          /\ row.member = None
          /\ Skip(row, "empty m_id")
          /\ left' = left \ {row}
    /\ UNCHANGED <<users, mig, report, runs>>

\* Seeded fault: a member is recognised by email.
KnownByEmail(row) == \E id \in Ids : Committed(id) /\ users[id].email = EmailOf(row)

\* SELECT id FROM users WHERE member_id = ?, deleted or not.
AlreadyMigrated(row) == \E id \in Ids : Committed(id) /\ users[id].member = row.member

LookUp ==
    /\ MigIs("next")
    /\ \E row \in left :
          /\ row.member # None
          /\ left' = left \ {row}
          /\ IF AlreadyMigrated(row) THEN UNCHANGED mig
             ELSE MigSet([stage |-> "insert", row |-> row])
    /\ UNCHANGED <<users, skipped, report, runs>>

\* A row that is refused for its member id alone is skipped.
InsertMember(email) ==
    LET row == mig.row
        error == InsertError(email, row.member)
    IN  /\ Undecided(email, row.member) = {}
        /\ \/ /\ error = None
              /\ \E id \in Ids :
                    /\ InsertRow(id, Row(email, row.member, StatusOf(row), Backfill))
                    /\ MigSet([stage |-> "pair", row |-> row, id |-> id])
              /\ UNCHANGED skipped
           \/ /\ error = "member_taken"
              /\ Skip(row, error) /\ MigSet([stage |-> "next"])
              /\ UNCHANGED users

\* Seeded fault: no second attempt.
GiveUp == Skip(mig.row, "email_taken") /\ MigSet([stage |-> "next"])

\* "Keep the row by dropping the email on this later duplicate rather than
\* losing the member entirely."
DropEmail == MigSet([stage |-> "retry", row |-> mig.row]) /\ UNCHANGED skipped

InsertLegacy ==
    LET email == EmailOf(mig.row)
    IN  /\ MigIs("insert")
        /\ \/ InsertMember(email)
           \/ /\ Undecided(email, mig.row.member) = {}
              /\ InsertError(email, mig.row.member) = "email_taken"
              /\ DropEmail
              /\ UNCHANGED users
        /\ UNCHANGED <<left, report, runs>>

InsertWithoutEmail ==
    /\ MigIs("retry")
    /\ InsertMember(None)
    /\ UNCHANGED <<left, report, runs>>

PairLegacy ==
    /\ MigIs("pair")
    /\ InsertCredRow(mig.id)
    /\ MigSet([stage |-> "commit", row |-> mig.row, id |-> mig.id])
    /\ UNCHANGED <<left, skipped, report, runs>>

\* The acknowledgement may be lost: the row is then both there and skipped.
CommitLegacy ==
    /\ MigIs("commit")
    /\ CommitRow(mig.id)
    /\ UNCHANGED skipped \/ Skip(mig.row, "failed")
    /\ MigSet([stage |-> "next"])
    /\ UNCHANGED <<left, report, runs>>

\* A statement of the transaction fails, as a deadlock's victim for instance.
FailLegacy ==
    /\ mig.stage \in {"insert", "retry", "pair", "commit"}
    /\ users' = RolledBack({Backfill})
    /\ Skip(mig.row, "failed") /\ MigSet([stage |-> "next"])
    /\ UNCHANGED <<left, report, runs>>

\* A failed lookup or read of the old table ends the command (log.Fatalf), as
\* does a kill; no report is written.
Die ==
    /\ mig.stage \in {"next", "insert", "retry", "pair", "commit"}
    /\ users' = RolledBack({Backfill})
    /\ MigSet([stage |-> "died"])
    /\ left' = {} /\ skipped' = {}
    /\ UNCHANGED <<report, runs>>

\* The file of an earlier run is replaced, but stays if nothing was skipped;
\* that it could not be created is only logged.
WriteReport ==
    /\ MigIs("next") /\ left = {}
    /\ \/ /\ report' = IF skipped = {} THEN report ELSE {s.member : s \in skipped}
          /\ MigSet([stage |-> "finished"])
       \/ /\ skipped # {}
          /\ MigSet([stage |-> "unreported"])
          /\ UNCHANGED report
    /\ skipped' = {}
    /\ UNCHANGED <<users, left, runs>>

MigStep ==
    \/ SkipNameless \/ LookUp \/ InsertLegacy \/ InsertWithoutEmail
    \/ PairLegacy \/ CommitLegacy \/ WriteReport

-----------------------------------------------------------------------------
(* Properties.                                                             *)

\* A run that ends well has every legacy member either in the table or in its
\* report, whatever the portal did meanwhile.
NoLegacyMemberLost ==
    MigIs("finished") =>
        \A row \in LegacyRows :
            \/ \E id \in Ids : Committed(id) /\ users[id].member = row.member
            \/ row.member \in report

\* Nobody is left out because of a shared or a placeholder email.
EmailNeverCostsAMember == \A s \in skipped : s.reason # "email_taken"
=============================================================================
