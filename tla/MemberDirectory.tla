-------------------------- MODULE MemberDirectory --------------------------
(***************************************************************************)
(* What the users table and the linked identities promise to everyone who  *)
(* reads them, with nothing of the transactions, locks and processes that  *)
(* write them.  An account appears whole, with its credentials, under a    *)
(* member id and an address nobody else has or had; nobody disappears; and *)
(* a provider identity is linked to an account there once, for good.       *)
(***************************************************************************)

CONSTANTS Ids, Emails, Members, Statuses, Identities,
          None   \* NULL; no account; no link

VARIABLES account,   \* what is to be seen of each row
          linked     \* the account an identity signs in

vars == <<account, linked>>

Accounts == [email : Emails \cup {None}, member : Members, status : Statuses,
             deleted : BOOLEAN, cred : BOOLEAN]

Init ==
    /\ account = [id \in Ids |-> None]
    /\ linked = [i \in Identities |-> None]

Known(id) == account[id] # None

EmailFree(e, id) == \A other \in Ids \ {id} : Known(other) => account[other].email # e

MemberFree(m) == \A other \in Ids : Known(other) => account[other].member # m

Enrol(id) ==
    LET a == account'[id]
    IN  /\ ~Known(id) /\ a # None
        /\ a \in Accounts /\ a.cred /\ ~a.deleted
        /\ a.email = None \/ EmailFree(a.email, id)
        /\ MemberFree(a.member)
        /\ account' = [account EXCEPT ![id] = a]
        /\ UNCHANGED linked

ChangeEmail(id) ==
    LET e == account'[id].email
    IN  /\ Known(id) /\ ~account[id].deleted
        /\ e \in Emails /\ EmailFree(e, id)
        /\ account' = [account EXCEPT ![id].email = e]
        /\ UNCHANGED linked

Suspend(id) ==
    /\ Known(id)
    /\ account' = [account EXCEPT ![id].status = "suspended"]
    /\ UNCHANGED linked

Remove(id) ==
    /\ Known(id)
    /\ account' = [account EXCEPT ![id].deleted = TRUE]
    /\ UNCHANGED linked

Link(i) ==
    LET id == linked'[i]
    IN  /\ linked[i] = None /\ id # None
        /\ id \in Ids /\ Known(id)
        /\ linked' = [linked EXCEPT ![i] = id]
        /\ UNCHANGED account

Next ==
    \/ \E id \in Ids :
          /\ account'[id] # account[id]
          /\ Enrol(id) \/ ChangeEmail(id) \/ Suspend(id) \/ Remove(id)
    \/ \E i \in Identities : linked'[i] # linked[i] /\ Link(i)

Spec == Init /\ [][Next]_vars
=============================================================================
