------------------------------- MODULE Portal -------------------------------
(***************************************************************************)
(* Everything that works on the users table at once: registrations and     *)
(* profile edits (Accounts), social sign-ins (SocialLink), the legacy      *)
(* member backfill in a process of its own (LegacyMembers), and staff.     *)
(***************************************************************************)
EXTENDS Accounts, SocialLink, LegacyMembers

CONSTANT MaxBusy   \* the bound: how many of them are at work at a time, by how
                   \* often the backfill has been run

ASSUME PortalAssumption ==
    /\ None \notin Ids \cup Emails \cup Members \cup Requests \cup SignIns \cup {Backfill}
    /\ None \notin Rows(Requests \cup SignIns \cup {Backfill}) \cup Links
    /\ None \notin {"email_taken", "member_taken"}
    /\ Requests \cap SignIns = {} /\ Backfill \notin Requests \cup SignIns
    /\ Registrations \subseteq [email : Emails \cup {None}, member : Members, status : Statuses]
    /\ NewEmails \subseteq Emails
    /\ Profiles \subseteq [identity : Identities, email : Emails]
    /\ LegacyRows \subseteq [member : Members \cup {None}, email : Emails \cup Junk, status : STRING]
    /\ MaxRuns \in Nat /\ MaxBusy \in [0..MaxRuns -> Nat]

vars == <<users, reg, links, sso, migVars>>

Init == UsersInit /\ RegInit /\ LinkInit /\ MigInit

Migrating == mig.stage \in {"next", "insert", "retry", "pair", "commit"}

Busy == Cardinality({r \in Requests : ~RegIs(r, "idle")})
        + Cardinality({s \in SignIns : ~SsoIs(s, "idle")})
        + (IF Migrating THEN 1 ELSE 0)

MayStart == Busy < MaxBusy[runs]

\* An answer touches nothing shared: it is delivered at once.
AllAnswered ==
    (\A r \in Requests : ~RegIs(r, "done")) /\ (\A s \in SignIns : ~SsoIs(s, "done"))

Account(r) ==
    /\ \/ Answer(r)
       \/ /\ AllAnswered
          /\ AccountStep(r) \/ FailRequest(r) \/ (MayStart /\ AccountRequest(r))
    /\ UNCHANGED <<links, sso, migVars>>

Social(s) ==
    /\ \/ Redirect(s)
       \/ /\ AllAnswered
          /\ SignInStep(s) \/ FailSignIn(s) \/ (MayStart /\ \E p \in Profiles : Verify(s, p))
    /\ UNCHANGED <<reg, migVars>>

Migration ==
    /\ AllAnswered
    /\ MigStep \/ FailLegacy \/ Die \/ (MayStart /\ Start)
    /\ UNCHANGED <<reg, links, sso>>

Staff == /\ AllAnswered
         /\ \E id \in Ids : StaffUpdate(id)
         /\ UNCHANGED <<reg, links, sso, migVars>>

\* The portal's process dies; the backfill goes on.
Crash ==
    /\ AllAnswered
    /\ users' = RolledBack(Requests \cup SignIns)
    /\ links' = WithoutLinksOf(SignIns)
    /\ reg' = [r \in Requests |-> RegIdle]
    /\ sso' = [s \in SignIns |-> SsoIdle]
    /\ UNCHANGED migVars

Next ==
    \/ \E r \in Requests : Account(r)
    \/ \E s \in SignIns : Social(s)
    \/ Migration \/ Staff \/ Crash

Spec == Init /\ [][Next]_vars

-----------------------------------------------------------------------------
(* Properties.                                                             *)

TypeOK ==
    /\ users \in [Ids -> Rows(Requests \cup SignIns \cup {Backfill}) \cup {None}]
    /\ reg \in [Requests -> RegRequests]
    /\ links \in [Identities -> Links \cup {None}]
    /\ sso \in [SignIns -> SsoRequests]
    /\ mig \in MigStates /\ left \subseteq LegacyRows
    /\ runs \in 0..MaxRuns

AtWork ==
    {r \in Requests : reg[r].stage \notin {"idle", "done"}}
    \cup {s \in SignIns : sso[s].stage \notin {"idle", "done"}}
    \cup (IF Migrating THEN {Backfill} ELSE {})

\* Whatever fails, dies or loses its acknowledgement, a row, its keys and a link
\* stay locked only by an actor still at work on that one thing: nobody is ever
\* left to wait for a transaction that no one will end.
NoLockLeftBehind ==
    /\ \A id \in Ids : Exists(id) /\ ~Committed(id) =>
          /\ users[id].tx \in AtWork
          /\ \A other \in Ids : Exists(other) /\ users[other].tx = users[id].tx => other = id
    /\ \A i \in Identities : Linked(i) /\ links[i].tx # None =>
          /\ links[i].tx \in AtWork
          /\ \A j \in Identities : Linked(j) /\ links[j].tx = links[i].tx => j = i

\* What is to be seen of a row, and of a link: nothing before it is committed.
Shown(row) == [email |-> row.email, member |-> row.member, status |-> row.status,
               deleted |-> row.deleted, cred |-> row.cred]

Seen(id) == IF Committed(id) THEN Shown(users[id]) ELSE None

LinkSeen(i) == IF Linked(i) /\ links[i].tx = None THEN links[i].user ELSE None

Directory == INSTANCE MemberDirectory
             WITH account <- [id \in Ids |-> Seen(id)],
                  linked <- [i \in Identities |-> LinkSeen(i)]

ASSUME AccountAssumption == None \notin Directory!Accounts

\* Registrations, profile edits, the backfill and social sign-ins, interleaved
\* statement by statement and cut short by failures and crashes, look like single
\* steps on a directory in which nothing is ever half done, taken twice or lost.
ImplementsDirectory == Directory!Spec
-----------------------------------------------------------------------------
(* The inductive invariant behind the other properties.                    *)

\* An uncommitted row belongs to the transaction that is about to finish it;
\* a committed one is complete.
RegHolds(r, id) == reg[r].stage \in {"pair", "commit"} /\ reg[r].id = id
MigHolds(id)    == mig.stage \in {"pair", "commit"} /\ mig.id = id

RowInv(id) ==
    \/ users[id].tx = None /\ users[id].cred
    \/ users[id].tx \in Requests /\ RegHolds(users[id].tx, id)
    \/ users[id].tx = Backfill /\ MigHolds(id)

\* And every transaction still has its row, every edit a committed one.
RegInv(r) ==
    /\ reg[r].stage \in {"pair", "commit"} =>
          Exists(reg[r].id) /\ users[reg[r].id].tx = r
    /\ RegIs(r, "commit") => users[reg[r].id].cred
    /\ reg[r].stage \in {"update", "reread"} => Committed(reg[r].id)

AtRow == mig.stage \in {"insert", "retry", "pair", "commit"}

MigInv ==
    /\ AtRow => mig.row.member # None
    /\ mig.stage \in {"pair", "commit"} =>
          /\ Exists(mig.id) /\ users[mig.id].tx = Backfill
          /\ users[mig.id].member = mig.row.member
    /\ MigIs("commit") => users[mig.id].cred

\* A run has every row before it, under way, in the table, or on its list.
InTable(m) == \E id \in Ids : Committed(id) /\ users[id].member = m

Accounted(row) ==
    \/ row \in left
    \/ InTable(row.member)
    \/ \E s \in skipped : s.member = row.member
    \/ AtRow /\ mig.row = row

RunInv == Migrating => \A row \in LegacyRows : Accounted(row)

\* A link that is not committed belongs to the one sign-in that holds its row,
\* and whoever holds a row signs in as its user.
Holding(s, i) == sso[s].stage \in {"read_user", "commit"} /\ sso[s].identity = i

LinkInv ==
    /\ \A i \in Identities :
          Linked(i) => links[i].tx = None \/ Holding(links[i].tx, i)
    /\ \A i \in Identities, s \in SignIns :
          Holding(s, i) =>
              /\ Linked(i) /\ links[i].user = sso[s].user
              /\ \A t \in SignIns : Holding(t, i) => t = s

IInv ==
    /\ TypeOK
    /\ \A id \in Ids : Exists(id) => RowInv(id)
    /\ \A r \in Requests : RegInv(r)
    /\ MigInv /\ RunInv /\ NoLegacyMemberLost /\ EmailNeverCostsAMember
    /\ LinkInv /\ SignInMatchesLink

\* Behind ImplementsDirectory.  The keys are unique, uncommitted
\* rows included; nobody is deleted before the commit; whoever is or is about to
\* be linked is committed; and there is no link in a gap that is locked.
UniqueKeys ==
    \A i, j \in Ids :
        Exists(i) /\ Exists(j) /\ i # j =>
            /\ users[i].member # users[j].member
            /\ users[i].email # None => users[i].email # users[j].email

NewRowsKept == \A id \in Ids : Exists(id) => Committed(id) \/ ~users[id].deleted

GapInv ==
    /\ \A i \in Identities :
          Linked(i) => Committed(links[i].user) /\ GapHolders(i) = {}
    /\ \A s \in Linking : Committed(sso[s].user)

KeyInv == IInv /\ UniqueKeys /\ NewRowsKept /\ GapInv
=============================================================================
