------------------------------ MODULE Accounts ------------------------------
(***************************************************************************)
(* Registration and profile edits on the users table.  A registration      *)
(* looks for its email and its member id before it inserts, "only a        *)
(* friendly fast path": between the lookups and the insert another request *)
(* may take either, and the unique keys decide.  The account and its       *)
(* credential row are inserted in one transaction.  What a registration    *)
(* does with its challenge before and after is module OtpChallenge's.      *)
(***************************************************************************)
EXTENDS UserTable

CONSTANTS Requests,        \* the requests handled at once
          Registrations,   \* what clients submit: an email, or NULL, with a
                           \* member id and the status of the form
          NewEmails        \* the addresses members change theirs to

VARIABLE reg   \* the progress of each request

RegIdle == [stage |-> "idle"]

\* A request that was answered.
Answered(answer, id, e) ==
    [stage |-> "done", answer |-> answer, id |-> id, email |-> e]

RegIs(r, stage)  == reg[r].stage = stage
RegSet(r, state) == reg' = [reg EXCEPT ![r] = state]
RegEnd(r, answer, id, e) == RegSet(r, Answered(answer, id, e))

RegRequests ==
    {RegIdle}
    \cup [stage : {"find_member", "insert"}, form : Registrations]
    \cup [stage : {"pair", "commit"}, id : Ids]
    \cup [stage : {"update"}, id : Ids, email : NewEmails]
    \cup [stage : {"reread"}, id : Ids]
    \cup [stage : {"done"}, id : Ids \cup {None}, email : Emails \cup {None},
          answer : {"registered", "updated", "email_taken", "member_taken",
                    "not_found", "failed"}]

RegInit == reg = [r \in Requests |-> RegIdle]

-----------------------------------------------------------------------------
(* Registration.                                                           *)

\* FindUserByEmail; a Young Saver may have no email to look for.
FindEmail(r, form) ==
    /\ RegIs(r, "idle")
    /\ IF WithEmail(form.email) # {}
       THEN RegEnd(r, "email_taken", None, form.email)
       ELSE RegSet(r, [stage |-> "find_member", form |-> form])
    /\ UNCHANGED users

FindMember(r) ==
    /\ RegIs(r, "find_member")
    /\ IF WithMember(reg[r].form.member) # {}
       THEN RegEnd(r, "member_taken", None, None)
       ELSE RegSet(r, [stage |-> "insert", form |-> reg[r].form])
    /\ UNCHANGED users

\* CreateUser, first insert: it waits for uncommitted rivals, and a duplicate
\* is translated to the answer of the lookup it slipped past.
InsertUser(r) ==
    LET f == reg[r].form
    IN  /\ RegIs(r, "insert")
        /\ Undecided(f.email, f.member) = {}
        /\ \/ /\ InsertError(f.email, f.member) = None
              /\ \E id \in Ids :
                    /\ InsertRow(id, Row(f.email, f.member, f.status, r))
                    /\ RegSet(r, [stage |-> "pair", id |-> id])
           \/ /\ InsertError(f.email, f.member) # None
              /\ RegEnd(r, InsertError(f.email, f.member), None, f.email)
              /\ UNCHANGED users

InsertCred(r) ==
    /\ RegIs(r, "pair")
    /\ InsertCredRow(reg[r].id)
    /\ RegSet(r, [stage |-> "commit", id |-> reg[r].id])

\* The commit may take place and its acknowledgement be lost.
Commit(r) ==
    /\ RegIs(r, "commit")
    /\ CommitRow(reg[r].id)
    /\ RegEnd(r, "registered", reg[r].id, None) \/ RegEnd(r, "failed", None, None)

-----------------------------------------------------------------------------
(* UpdateProfileService.                                                   *)

\* Seeded fault: a member's own address counts as taken.
AnyHolder(id, e) == WithEmail(e)

OtherHolders(id, e) == WithEmail(e) \ {id}

FindOtherEmail(r, id, e) ==
    /\ RegIs(r, "idle") /\ Findable(id)
    /\ IF OtherHolders(id, e) # {}
       THEN RegEnd(r, "email_taken", id, e)
       ELSE RegSet(r, [stage |-> "update", id |-> id, email |-> e])
    /\ UNCHANGED users

\* A deleted row is not matched, so nothing is written that could collide.
UpdateRivals(id, e) == IF users[id].deleted THEN {} ELSE EmailRivals(e, id)

\* UpdateUserProfile: that no row was matched is not noticed.
UpdateUserProfile(r) ==
    LET id == reg[r].id
        rivals == UpdateRivals(id, reg[r].email)
    IN  /\ RegIs(r, "update")
        /\ Owners(rivals) = {}
        /\ \/ /\ rivals = {}
              /\ users' = IF users[id].deleted THEN users
                          ELSE [users EXCEPT ![id] = [@ EXCEPT !.email = reg[r].email]]
              /\ RegSet(r, [stage |-> "reread", id |-> id])
           \/ /\ rivals # {}
              /\ RegEnd(r, "email_taken", id, reg[r].email)
              /\ UNCHANGED users

\* FindUserByID, to answer with the row as it is now.
Reread(r) ==
    /\ RegIs(r, "reread")
    /\ RegEnd(r, IF Findable(reg[r].id) THEN "updated" ELSE "not_found", reg[r].id, None)
    /\ UNCHANGED users

-----------------------------------------------------------------------------
\* Seeded fault: the transaction is left open.
FailHolding(r) ==
    /\ ~RegIs(r, "idle") /\ ~RegIs(r, "done")
    /\ RegEnd(r, "failed", None, None)
    /\ UNCHANGED users

\* A statement fails, its lock wait times out or InnoDB ends it to resolve a
\* deadlock; an open transaction is rolled back.
FailRequest(r) ==
    /\ ~RegIs(r, "idle") /\ ~RegIs(r, "done")
    /\ users' = RolledBack({r})
    /\ RegEnd(r, "failed", None, None)

\* The answer is delivered.
Answer(r) ==
    /\ RegIs(r, "done")
    /\ RegSet(r, RegIdle)
    /\ UNCHANGED users

AccountStep(r) ==
    \/ FindMember(r) \/ InsertUser(r) \/ InsertCred(r) \/ Commit(r)
    \/ UpdateUserProfile(r) \/ Reread(r)

AccountRequest(r) ==
    \/ \E form \in Registrations : FindEmail(r, form)
    \/ \E id \in Ids, e \in NewEmails : FindOtherEmail(r, id, e)

-----------------------------------------------------------------------------
(* Properties.                                                             *)

Becomes(r, answer) ==
    /\ reg[r].stage # "done"
    /\ reg'[r].stage = "done" /\ reg'[r].answer = answer

\* "both paths converge on one clean, consistent response": whether the lookup
\* or the unique key refuses an email, another account has that very address;
\* nobody is refused for having none, or for keeping their own.
EmailRefusalJustified ==
    [][\A r \in Requests :
          Becomes(r, "email_taken") =>
              \E id \in Ids \ {reg'[r].id} :
                  /\ Committed(id)
                  /\ users[id].email = reg'[r].email
                  /\ users[id].email # None]_<<users, reg>>
=============================================================================
