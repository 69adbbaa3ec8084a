------------------------------ MODULE UserTable ------------------------------
(***************************************************************************)
(* The users table with its paired user_account_cred rows, as every part   *)
(* of the portal shares it: registrations, profile edits, social sign-ins  *)
(* and the legacy member backfill, each with statements and transactions   *)
(* of its own.  A row that a transaction has inserted is invisible to      *)
(* plain reads until it commits, but its unique keys already block others. *)
(*                                                                         *)
(* Of the locks InnoDB takes, the modules keep those that decide what a    *)
(* statement returns.  The others only delay it: the shared key locks of   *)
(* inserts that collide, those a foreign key takes on the parent row, the  *)
(* row locks of an edit that waits.  A delayed statement is one not taken  *)
(* yet, and where delays form a cycle InnoDB fails one of the statements,  *)
(* which any statement of any actor may.                                   *)
(***************************************************************************)
EXTENDS Naturals, FiniteSets

CONSTANTS Ids,       \* the rows the table has room for
          Emails, Members,
          None       \* NULL; no row; no transaction

VARIABLE users

Statuses == {"active", "pending_review", "inactive", "suspended"}

\* The columns that decide something, whether the paired row exists, and the
\* transaction that inserted the row, until it commits.
Row(email, member, status, tx) ==
    [email |-> email, member |-> member, status |-> status,
     deleted |-> FALSE, cred |-> FALSE, tx |-> tx]

Rows(Actors) ==
    [email : Emails \cup {None}, member : Members, status : Statuses,
     deleted : BOOLEAN, cred : BOOLEAN, tx : Actors \cup {None}]

Exists(id)    == users[id] # None
Committed(id) == Exists(id) /\ users[id].tx = None

\* FROM users u JOIN user_account_cred c ... AND u.deleted_at IS NULL
Findable(id) == Committed(id) /\ ~users[id].deleted /\ users[id].cred

WithEmail(e)  == {id \in Ids : Findable(id) /\ e # None /\ users[id].email = e}
WithMember(m) == {id \in Ids : Findable(id) /\ users[id].member = m}

-----------------------------------------------------------------------------
(* The unique keys.  They cover deleted rows, and uncommitted ones, on whose *)
(* end the result of a conflicting statement depends.                        *)

\* Seeded fault: a missing email is stored as '' and collides with itself.
EmptyRivals(e, id) == {i \in Ids \ {id} : Exists(i) /\ users[i].email = e}

\* uq_users_email, under which NULL is unique against itself.
EmailRivals(e, id) ==
    {i \in Ids \ {id} : Exists(i) /\ e # None /\ users[i].email = e}

\* Seeded fault: no key on the member id, only the lookup.
FoundRivals(m) == WithMember(m)

\* uq_users_member_id
MemberRivals(m) == {i \in Ids : Exists(i) /\ users[i].member = m}

\* The transactions that have yet to commit one of these rows.
Owners(ids) == {users[i].tx : i \in ids} \ {None}

\* The result of INSERT INTO users; a row that collides on both keys is
\* reported for its email.
InsertError(e, m) ==
    IF EmailRivals(e, None) # {} THEN "email_taken"
    ELSE IF MemberRivals(m) # {} THEN "member_taken"
    ELSE None

\* The transactions on whose end that result depends: until then there is none.
Undecided(e, m) ==
    Owners(IF EmailRivals(e, None) # {} THEN EmailRivals(e, None) ELSE MemberRivals(m))

\* Seeded fault: the two inserts are autocommitted statements.
InsertAutocommit(id, row) ==
    ~Exists(id) /\ users' = [users EXCEPT ![id] = [row EXCEPT !.tx = None]]

InsertRow(id, row) == ~Exists(id) /\ users' = [users EXCEPT ![id] = row]

InsertCredRow(id) == users' = [users EXCEPT ![id] = [@ EXCEPT !.cred = TRUE]]

CommitRow(id) == users' = [users EXCEPT ![id] = [@ EXCEPT !.tx = None]]

\* Rows after the transactions of the given actors are rolled back.
RolledBack(actors) ==
    [id \in Ids |-> IF Exists(id) /\ users[id].tx \in actors THEN None ELSE users[id]]

-----------------------------------------------------------------------------
UsersInit == users = [id \in Ids |-> None]

\* What the cooperative's staff may do to a row by hand, once; no code in src/
\* writes these columns.
StaffUpdate(id) ==
    /\ Findable(id) /\ users[id].status # "suspended"
    /\ \/ users' = [users EXCEPT ![id] = [@ EXCEPT !.status = "suspended"]]
       \/ users' = [users EXCEPT ![id] = [@ EXCEPT !.deleted = TRUE]]

\* "Every user row gets a paired credential row": without it no read would ever
\* find the member, while its unique keys would still refuse a registration.
EveryUserHasCred == \A id \in Ids : Committed(id) => users[id].cred
=============================================================================
