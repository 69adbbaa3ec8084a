----------------------------- MODULE SocialLink -----------------------------
(***************************************************************************)
(* Social and SSO sign-in: a verified provider identity is looked up with  *)
(* FOR UPDATE, linked to the member with its email the first time, and     *)
(* signed in as the member it is linked to ever after, all in one          *)
(* transaction "so a concurrent login with the same provider identity      *)
(* can't race".  No account is ever created.                               *)
(*                                                                         *)
(* In InnoDB, FOR UPDATE on a row that is not there locks the gap it would *)
(* be in.  Gap locks do not exclude one another, only the insert of        *)
(* another transaction, so two first sign-ins may both get theirs and then *)
(* wait for each other: InnoDB rolls one back.  The insert also locks the  *)
(* linked user's row for its foreign key, which an edit of that user may   *)
(* delay; what the insert returns does not depend on it.                   *)
(***************************************************************************)
EXTENDS UserTable

CONSTANTS SignIns,      \* the sign-ins handled at once
          Identities,   \* (provider_id, provider_user_id)
          Profiles      \* what the verifiers say: an identity and its email

VARIABLES links,   \* user_social_accounts: the user of an identity
          sso      \* the progress of each sign-in

SsoIdle == [stage |-> "idle"]

SsoIs(s, stage)  == sso[s].stage = stage
SsoSet(s, state) == sso' = [sso EXCEPT ![s] = state]

SsoEnd(s, answer, i, u) ==
    SsoSet(s, [stage |-> "done", answer |-> answer, identity |-> i, user |-> u])

SsoRequests ==
    {SsoIdle}
    \cup [stage : {"find_user", "verified"}, profile : Profiles]
    \cup [stage : {"link"}, profile : Profiles, user : Ids, suspended : BOOLEAN]
    \cup [stage : {"read_user"}, identity : Identities, user : Ids,
          snapshot : BOOLEAN \cup {None}]
    \cup [stage : {"commit"}, identity : Identities, user : Ids, suspended : BOOLEAN]
    \cup [stage : {"done"}, identity : Identities, user : Ids,
          answer : {"signed_in", "suspended"}]
    \cup [stage : {"done"}, identity : {None}, user : {None},
          answer : {"not_associated", "failed"}]

\* tx: the sign-in that has inserted the row and not committed it yet.
Links == [user : Ids, tx : SignIns \cup {None}]

LinkInit ==
    /\ links = [i \in Identities |-> None]
    /\ sso = [s \in SignIns |-> SsoIdle]

-----------------------------------------------------------------------------
(* The locks on links, which are functions of the progress of their holders. *)

\* The sign-ins inside a transaction that has locked the row of i.
RowHolders(i) ==
    {s \in SignIns : sso[s].stage \in {"read_user", "commit"} /\ sso[s].identity = i}

\* The sign-ins that hold the gap of i.
GapHolders(i) ==
    {s \in SignIns : sso[s].stage \in {"find_user", "link"} /\ sso[s].profile.identity = i}

\* The links of the committed state, and of the actors' own.
Linked(i) == links[i] # None

WithoutLinksOf(actors) ==
    [i \in Identities |-> IF Linked(i) /\ links[i].tx \in actors THEN None ELSE links[i]]

Suspended(id) == users[id].status = "suspended"

-----------------------------------------------------------------------------
\* A verifier or the redirect flow vouches for the profile, and the provider is
\* enabled.  One without an email is refused before this.
Verify(s, p) ==
    /\ SsoIs(s, "idle")
    /\ SsoSet(s, [stage |-> "verified", profile |-> p])
    /\ UNCHANGED <<users, links>>

\* Seeded fault: the member is looked up by the profile's email first.
UserByEmail(p) ==
    IF WithEmail(p.email) # {} THEN CHOOSE id \in WithEmail(p.email) : TRUE
    ELSE links[p.identity].user

UserOf(p) == links[p.identity].user

\* SELECT user_id ... FOR UPDATE finds the link, and waits for whoever holds it;
\* the refreshed tokens decide nothing.
FindLinked(s) ==
    LET i == sso[s].profile.identity
    IN  /\ SsoIs(s, "verified")
        /\ Linked(i) /\ RowHolders(i) = {}
        /\ SsoSet(s, [stage |-> "read_user", identity |-> i,
                      user |-> UserOf(sso[s].profile), snapshot |-> None])
        /\ UNCHANGED <<users, links>>

\* SELECT user_id ... FOR UPDATE finds nothing and locks the gap.
FindUnlinked(s) ==
    LET p == sso[s].profile
    IN  /\ SsoIs(s, "verified")
        /\ ~Linked(p.identity)
        /\ SsoSet(s, [stage |-> "find_user", profile |-> p])
        /\ UNCHANGED <<users, links>>

\* linkExistingUserTx: the member with this email, as of now.  It is the first
\* plain read of the transaction, which will see the row like this from now on.
FindUserToLink(s) ==
    LET p == sso[s].profile
        found == {id \in Ids : Committed(id) /\ ~users[id].deleted /\ users[id].email = p.email}
    IN  /\ SsoIs(s, "find_user")
        /\ \/ /\ found = {}
              /\ SsoEnd(s, "not_associated", None, None)
           \/ \E id \in found :
                 SsoSet(s, [stage |-> "link", profile |-> p, user |-> id,
                            suspended |-> Suspended(id)])
        /\ UNCHANGED <<users, links>>

\* The insert is granted once nobody else holds the gap.
InsertLink(s) ==
    LET i == sso[s].profile.identity
    IN  /\ SsoIs(s, "link")
        /\ GapHolders(i) \ {s} = {}
        /\ ~Linked(i)
        /\ links' = [links EXCEPT ![i] = [user |-> sso[s].user, tx |-> s]]
        /\ SsoSet(s, [stage |-> "read_user", identity |-> i,
                      user |-> sso[s].user, snapshot |-> sso[s].suspended])
        /\ UNCHANGED users

Linking == {s \in SignIns : SsoIs(s, "link")}

\* Two sign-ins wait for each other's gap, which distinct identities may share:
\* InnoDB picks one of them and rolls it back.  Other cycles end as FailSignIn.
DeadlockVictim(s) ==
    /\ s \in Linking /\ Linking \ {s} # {}
    /\ SsoEnd(s, "failed", None, None)
    /\ UNCHANGED <<users, links>>

\* findUserByIDTx does not ask whether the member was deleted.
ReadUser(s) ==
    LET u == sso[s].user
        seen == sso[s].snapshot
    IN  /\ SsoIs(s, "read_user")
        /\ Committed(u) /\ users[u].cred
        /\ SsoSet(s, [stage |-> "commit", identity |-> sso[s].identity, user |-> u,
                      suspended |-> IF seen = None THEN Suspended(u) ELSE seen])
        /\ UNCHANGED <<users, links>>

\* The link of a suspended member is kept; the acknowledgement may be lost.
CommitLink(s) ==
    LET i == sso[s].identity
    IN  /\ SsoIs(s, "commit")
        /\ links' = [links EXCEPT ![i] = [user |-> links[i].user, tx |-> None]]
        /\ \/ SsoEnd(s, IF sso[s].suspended THEN "suspended" ELSE "signed_in", i, sso[s].user)
           \/ SsoEnd(s, "failed", None, None)
        /\ UNCHANGED users

\* A statement fails, or the lock wait times out.
FailSignIn(s) ==
    /\ ~SsoIs(s, "idle") /\ ~SsoIs(s, "done")
    /\ links' = WithoutLinksOf({s})
    /\ SsoEnd(s, "failed", None, None)
    /\ UNCHANGED users

Redirect(s) ==
    /\ SsoIs(s, "done")
    /\ SsoSet(s, SsoIdle)
    /\ UNCHANGED <<users, links>>

SignInStep(s) ==
    \/ FindLinked(s) \/ FindUnlinked(s) \/ FindUserToLink(s) \/ InsertLink(s)
    \/ DeadlockVictim(s) \/ ReadUser(s) \/ CommitLink(s)

-----------------------------------------------------------------------------
(* Properties.                                                             *)

\* Whoever signs in through an identity is the member it was linked to first,
\* even after that member has changed address and another has taken it.
SignInMatchesLink ==
    \A s \in SignIns :
        SsoIs(s, "done") /\ sso[s].answer = "signed_in" =>
            links[sso[s].identity] = [user |-> sso[s].user, tx |-> None]
=============================================================================
