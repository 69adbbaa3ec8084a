---------------------------- MODULE PortalProofs ----------------------------
(***************************************************************************)
(* Proofs about Portal, for any number of requests, sign-ins, rows and     *)
(* legacy members.  A step of one actor touches its own uncommitted row,   *)
(* or a committed one without making it incomplete; what every other actor *)
(* knows of the table survives that, so each action only has to restore    *)
(* what the invariant says of its own actor.                               *)
(***************************************************************************)
EXTENDS Portal, Integers, TLAPS

Actors == Requests \cup SignIns \cup {Backfill}

UsersOK == users \in [Ids -> Rows(Actors) \cup {None}]

LEMMA UsersTyped == IInv => UsersOK
  BY DEF IInv, TypeOK, UsersOK, Actors

-----------------------------------------------------------------------------
(* What the fields of a row or of an actor's progress are, by stage.       *)

LEMMA RowShape ==
    ASSUME UsersOK, NEW id \in Ids, Exists(id)
    PROVE  /\ users[id] \in Rows(Actors) /\ users[id] # None
           /\ users[id].member \in Members /\ users[id].tx \in Actors \cup {None}
           /\ users[id].cred \in BOOLEAN /\ users[id].deleted \in BOOLEAN
           /\ users[id].status \in Statuses /\ users[id].email \in Emails \cup {None}
  BY DEF UsersOK, Exists, Rows

LEMMA RegShape ==
    ASSUME IInv, NEW r \in Requests
    PROVE  /\ reg[r].stage \in {"find_member", "insert"} => reg[r].form \in Registrations
           /\ reg[r].stage \in {"pair", "commit", "update", "reread"} => reg[r].id \in Ids
           /\ reg[r].stage = "update" => reg[r].email \in NewEmails
  <1>1. reg[r] \in RegRequests
    BY DEF IInv, TypeOK
  <1> QED BY <1>1 DEF RegRequests, RegIdle

LEMMA SsoShape ==
    ASSUME IInv, NEW s \in SignIns
    PROVE  /\ sso[s].stage \in {"verified", "find_user", "link"} =>
                 sso[s].profile \in Profiles
           /\ sso[s].stage \in {"link", "read_user", "commit"} => sso[s].user \in Ids
           /\ sso[s].stage \in {"read_user", "commit"} => sso[s].identity \in Identities
           /\ sso[s].stage \in {"link", "commit"} => sso[s].suspended \in BOOLEAN
           /\ sso[s].stage = "read_user" => sso[s].snapshot \in BOOLEAN \cup {None}
           /\ sso[s].stage = "done" /\ sso[s].answer = "signed_in" =>
                 sso[s].identity \in Identities /\ sso[s].user \in Ids
  <1>1. sso[s] \in SsoRequests
    BY DEF IInv, TypeOK
  <1> QED BY <1>1 DEF SsoRequests, SsoIdle

LEMMA MigShape ==
    ASSUME IInv
    PROVE  /\ mig.stage \in {"insert", "retry", "pair", "commit"} => mig.row \in LegacyRows
           /\ mig.stage \in {"pair", "commit"} => mig.id \in Ids
  <1>1. mig \in MigStates
    BY DEF IInv, TypeOK
  <1> QED BY <1>1 DEF MigStates

\* A new row is a row, and a row with one column changed is one too.
LEMMA RowTyped ==
    ASSUME NEW e \in Emails \cup {None}, NEW m \in Members, NEW st \in Statuses,
           NEW a \in Actors
    PROVE  /\ Row(e, m, st, a) \in Rows(Actors)
           /\ Row(e, m, st, a) # None
           /\ Row(e, m, st, a).member = m
           /\ Row(e, m, st, a).tx = a /\ a # None
  <1>1. Row(e, m, st, a) \in Rows(Actors)
    BY DEF Row, Rows
  <1> QED BY <1>1, PortalAssumption DEF Row, Actors

LEMMA RowEdited ==
    ASSUME NEW row \in Rows(Actors)
    PROVE  /\ [row EXCEPT !.cred = TRUE] \in Rows(Actors)
           /\ [row EXCEPT !.tx = None] \in Rows(Actors)
           /\ [row EXCEPT !.status = "suspended"] \in Rows(Actors)
           /\ [row EXCEPT !.deleted = TRUE] \in Rows(Actors)
           /\ \A e \in Emails : [row EXCEPT !.email = e] \in Rows(Actors)
           /\ row # None
  BY PortalAssumption DEF Rows, Statuses, Actors

-----------------------------------------------------------------------------
(* The effect of a step on the table.                                      *)

\* The step adds, completes or removes rows of the given actors, or edits
\* committed rows, which stay committed, whole and the same member's.
Touches(actors) ==
    /\ UsersOK'
    /\ \A id \in Ids :
          /\ Committed(id) =>
                /\ Committed(id)' /\ users'[id].member = users[id].member
          /\ Committed(id)' => users'[id].cred
          /\ Exists(id) /\ users[id].tx \notin actors \cup {None} => users'[id] = users[id]
          /\ Exists(id)' /\ users'[id].tx \notin actors \cup {None} => users'[id] = users[id]

\* A committed row has its credential row.
LEMMA CommittedWhole ==
    ASSUME IInv, NEW id \in Ids, Committed(id)
    PROVE  users[id].cred
  BY PortalAssumption DEF IInv, Committed, RowInv

LEMMA UntouchedUsers ==
    ASSUME IInv, UNCHANGED users, NEW actors
    PROVE  Touches(actors)
  BY UsersTyped, CommittedWhole DEF Touches, UsersOK, Committed, Exists

LEMMA InsertTouches ==
    ASSUME IInv, NEW id \in Ids, NEW row \in Rows(Actors), NEW a \in Actors,
           row.tx = a, InsertRow(id, row)
    PROVE  /\ Touches({a}) /\ users'[id] = row /\ Exists(id)'
           /\ \A i \in Ids : i # id => users'[i] = users[i]
  <1>1. users'[id] = row /\ \A i \in Ids : i # id => users'[i] = users[i]
    BY UsersTyped DEF InsertRow, UsersOK
  <1>2. UsersOK'
    BY UsersTyped DEF InsertRow, UsersOK
  <1>3. row # None /\ a # None
    BY RowEdited, PortalAssumption DEF Actors
  <1>4. ~Exists(id)
    BY DEF InsertRow
  <1> QED BY <1>1, <1>2, <1>3, <1>4, CommittedWhole DEF Touches, Committed, Exists

LEMMA CredTouches ==
    ASSUME IInv, NEW id \in Ids, NEW a \in Actors, Exists(id), users[id].tx = a,
           InsertCredRow(id)
    PROVE  /\ Touches({a}) /\ Exists(id)' /\ users'[id].tx = a /\ users'[id].cred
           /\ users'[id].member = users[id].member
           /\ \A i \in Ids : i # id => users'[i] = users[i]
  <1>1. /\ users'[id] = [users[id] EXCEPT !.cred = TRUE]
        /\ \A i \in Ids : i # id => users'[i] = users[i]
    BY UsersTyped DEF InsertCredRow, UsersOK
  <1>2. users[id] \in Rows(Actors)
    BY UsersTyped, RowShape
  <1>3. /\ users'[id].tx = a /\ users'[id].cred
        /\ users'[id].member = users[id].member
    BY <1>1, <1>2 DEF Rows
  <1>4. users'[id] \in Rows(Actors) /\ users'[id] # None
    BY <1>1, <1>2, RowEdited
  <1>5. UsersOK'
    BY UsersTyped, <1>2, RowEdited DEF InsertCredRow, UsersOK
  <1>6. a # None
    BY PortalAssumption DEF Actors
  <1> QED BY <1>1, <1>3, <1>4, <1>5, <1>6, CommittedWhole DEF Touches, Committed, Exists

LEMMA CommitTouches ==
    ASSUME IInv, NEW id \in Ids, NEW a \in Actors, Exists(id), users[id].tx = a,
           users[id].cred, CommitRow(id)
    PROVE  /\ Touches({a}) /\ Committed(id)'
           /\ users'[id].member = users[id].member
           /\ \A i \in Ids : i # id => users'[i] = users[i]
  <1>1. /\ users'[id] = [users[id] EXCEPT !.tx = None]
        /\ \A i \in Ids : i # id => users'[i] = users[i]
    BY UsersTyped DEF CommitRow, UsersOK
  <1>2. users[id] \in Rows(Actors)
    BY UsersTyped, RowShape
  <1>3. /\ users'[id].tx = None /\ users'[id].cred
        /\ users'[id].member = users[id].member
    BY <1>1, <1>2 DEF Rows
  <1>4. users'[id] \in Rows(Actors) /\ users'[id] # None
    BY <1>1, <1>2, RowEdited
  <1>5. UsersOK'
    BY UsersTyped, <1>2, RowEdited DEF CommitRow, UsersOK
  <1>6. a # None
    BY PortalAssumption DEF Actors
  <1> QED BY <1>1, <1>3, <1>4, <1>5, <1>6, CommittedWhole DEF Touches, Committed, Exists

LEMMA RollbackTouches ==
    ASSUME IInv, NEW actors \in SUBSET Actors, users' = RolledBack(actors)
    PROVE  /\ Touches(actors)
           /\ \A id \in Ids : Exists(id)' => users'[id].tx \notin actors
  <1>1. \A id \in Ids :
           users'[id] = IF Exists(id) /\ users[id].tx \in actors THEN None ELSE users[id]
    BY DEF RolledBack
  <1>2. UsersOK'
    BY UsersTyped DEF RolledBack, UsersOK
  <1>3. None \notin actors
    BY PortalAssumption DEF Actors
  <1> QED BY <1>1, <1>2, <1>3, CommittedWhole DEF Touches, Committed, Exists

\* An edit of one committed row that leaves its member and its pair alone.
LEMMA EditTouches ==
    ASSUME IInv, NEW id \in Ids, Committed(id), NEW row \in Rows(Actors),
           row.tx = None, row.cred = users[id].cred, row.member = users[id].member,
           users' = [users EXCEPT ![id] = row], NEW actors
    PROVE  Touches(actors)
  <1>1. users'[id] = row /\ \A i \in Ids : i # id => users'[i] = users[i]
    BY UsersTyped DEF UsersOK
  <1>2. UsersOK'
    BY UsersTyped DEF UsersOK
  <1>3. row # None /\ users[id].cred
    BY RowEdited, CommittedWhole
  <1> QED BY <1>1, <1>2, <1>3, CommittedWhole DEF Touches, Committed, Exists

-----------------------------------------------------------------------------
(* What a step of some actors leaves the others with.                      *)

\* Rows of an actor that the step is not about stay that actor's.
LEMMA RowsOfOthers ==
    ASSUME IInv, NEW actors, Touches(actors),
           \A q \in Requests \ actors : reg'[q] = reg[q],
           Backfill \notin actors => mig' = mig,
           NEW id \in Ids, Exists(id)', users'[id].tx \notin actors
    PROVE  RowInv(id)'
  <1>1. CASE users'[id].tx = None
    <2>1. Committed(id)'
      BY <1>1 DEF Committed
    <2> QED BY <1>1, <2>1 DEF Touches, RowInv
  <1>2. CASE users'[id].tx # None
    <2>1. users'[id] = users[id]
      BY <1>2 DEF Touches
    <2>2. Exists(id)
      BY <2>1 DEF Exists
    <2>3. RowInv(id)
      BY <2>2 DEF IInv
    <2> QED BY <1>2, <2>1, <2>3 DEF RowInv, RegHolds, MigHolds
  <1> QED BY <1>1, <1>2

\* A request that the step is not about finds its rows as it left them.
LEMMA RequestUntouched ==
    ASSUME IInv, NEW actors, Touches(actors), NEW q \in Requests \ actors,
           reg'[q] = reg[q]
    PROVE  RegInv(q)'
  <1>1. RegInv(q) /\ q # None
    BY PortalAssumption DEF IInv
  <1>2. reg[q].stage \in {"pair", "commit", "update", "reread"} => reg[q].id \in Ids
    BY RegShape
  <1>3. reg[q].stage \in {"pair", "commit"} => users'[reg[q].id] = users[reg[q].id]
    BY <1>1, <1>2 DEF Touches, RegInv
  <1>4. reg[q].stage \in {"update", "reread"} => Committed(reg[q].id)'
    BY <1>1, <1>2 DEF Touches, RegInv
  <1> QED BY <1>1, <1>3, <1>4 DEF RegInv, Exists, RegIs

\* And so does the backfill.
LEMMA BackfillUntouched ==
    ASSUME IInv, NEW actors, Touches(actors), Backfill \notin actors, mig' = mig
    PROVE  MigInv'
  <1>1. MigInv /\ Backfill # None
    BY PortalAssumption DEF IInv
  <1>2. mig.stage \in {"pair", "commit"} => mig.id \in Ids
    BY MigShape
  <1>3. mig.stage \in {"pair", "commit"} => users'[mig.id] = users[mig.id]
    BY <1>1, <1>2 DEF Touches, MigInv
  <1> QED BY <1>1, <1>3 DEF MigInv, Exists, MigIs, AtRow

\* A member in the table stays there.
LEMMA TableKeeps ==
    ASSUME NEW actors, Touches(actors), NEW m, InTable(m)
    PROVE  InTable(m)'
  BY DEF Touches, InTable

\* So a run that stands still loses nobody.
LEMMA RunUntouched ==
    ASSUME IInv, NEW actors, Touches(actors), UNCHANGED migVars
    PROVE  RunInv' /\ NoLegacyMemberLost' /\ EmailNeverCostsAMember'
  <1>1. UNCHANGED <<mig, left, skipped, report, runs>>
    BY DEF migVars
  <1>2. RunInv'
    BY <1>1, TableKeeps DEF IInv, RunInv, Migrating, Accounted, AtRow
  <1>3. NoLegacyMemberLost'
    BY <1>1, TableKeeps DEF IInv, NoLegacyMemberLost, InTable, MigIs
  <1>4. EmailNeverCostsAMember'
    BY <1>1 DEF IInv, EmailNeverCostsAMember
  <1> QED BY <1>2, <1>3, <1>4

LEMMA SocialUntouched ==
    ASSUME IInv, UNCHANGED <<links, sso>>
    PROVE  LinkInv' /\ SignInMatchesLink'
  <1>1. LinkInv'
    BY DEF IInv, LinkInv, Linked, Holding
  <1>2. SignInMatchesLink'
    BY DEF IInv, SignInMatchesLink, SsoIs
  <1> QED BY <1>1, <1>2

-----------------------------------------------------------------------------
(* The invariant, for a step of a request, of the backfill, of a sign-in.  *)

LEMMA RequestStep ==
    ASSUME IInv, NEW r \in Requests, Touches({r}),
           UNCHANGED <<links, sso, migVars>>,
           NEW state \in RegRequests, reg' = [reg EXCEPT ![r] = state],
           RegInv(r)',
           \A id \in Ids : Exists(id)' /\ users'[id].tx = r => RegHolds(r, id)'
    PROVE  IInv'
  <1>1. /\ reg' \in [Requests -> RegRequests]
        /\ \A q \in Requests \ {r} : reg'[q] = reg[q]
    BY DEF IInv, TypeOK
  <1>2. UNCHANGED <<mig, left, skipped, report, runs>> /\ Backfill # r
    BY PortalAssumption DEF migVars
  <1>3. TypeOK'
    BY <1>1, <1>2 DEF IInv, TypeOK, Touches, UsersOK, Actors
  <1>4. ASSUME NEW id \in Ids, Exists(id)'
        PROVE  RowInv(id)'
    <2>1. CASE users'[id].tx = r
      BY <1>4, <2>1 DEF RowInv
    <2>2. CASE users'[id].tx # r
      BY <1>1, <1>2, <1>4, <2>2, RowsOfOthers
    <2> QED BY <2>1, <2>2
  <1>5. ASSUME NEW q \in Requests
        PROVE  RegInv(q)'
    BY <1>1, RequestUntouched
  <1>6. MigInv'
    BY <1>2, BackfillUntouched
  <1>7. RunInv' /\ NoLegacyMemberLost' /\ EmailNeverCostsAMember'
    BY RunUntouched
  <1>8. LinkInv' /\ SignInMatchesLink'
    BY SocialUntouched
  <1> QED BY <1>3, <1>4, <1>5, <1>6, <1>7, <1>8 DEF IInv

LEMMA BackfillStep ==
    ASSUME IInv, Touches({Backfill}), UNCHANGED <<reg, links, sso>>,
           mig' \in MigStates, left' \subseteq LegacyRows, runs' \in 0..MaxRuns,
           MigInv', RunInv', NoLegacyMemberLost', EmailNeverCostsAMember',
           \A id \in Ids : Exists(id)' /\ users'[id].tx = Backfill => MigHolds(id)'
    PROVE  IInv'
  <1>1. Backfill \notin Requests
    BY PortalAssumption
  <1>2. TypeOK'
    BY DEF IInv, TypeOK, Touches, UsersOK, Actors
  <1>3. ASSUME NEW id \in Ids, Exists(id)'
        PROVE  RowInv(id)'
    <2>1. CASE users'[id].tx = Backfill
      BY <1>3, <2>1 DEF RowInv
    <2>2. CASE users'[id].tx # Backfill
      BY <1>3, <2>2, RowsOfOthers
    <2> QED BY <2>1, <2>2
  <1>4. ASSUME NEW q \in Requests
        PROVE  RegInv(q)'
    BY <1>1, RequestUntouched
  <1>5. LinkInv' /\ SignInMatchesLink'
    BY SocialUntouched
  <1> QED BY <1>2, <1>3, <1>4, <1>5 DEF IInv

LEMMA SocialStep ==
    ASSUME IInv, UNCHANGED <<users, reg, migVars>>,
           links' \in [Identities -> Links \cup {None}], sso' \in [SignIns -> SsoRequests],
           LinkInv', SignInMatchesLink'
    PROVE  IInv'
  <1>1. UNCHANGED <<mig, left, skipped, report, runs>>
    BY DEF migVars
  <1>2. Touches({})
    BY UntouchedUsers
  <1>3. TypeOK'
    BY <1>1 DEF IInv, TypeOK
  <1>4. ASSUME NEW id \in Ids, Exists(id)'
        PROVE  RowInv(id)'
    BY <1>1, <1>2, <1>4, RowsOfOthers
  <1>5. ASSUME NEW q \in Requests
        PROVE  RegInv(q)'
    BY <1>2, RequestUntouched
  <1>6. MigInv'
    BY <1>1, <1>2, BackfillUntouched
  <1>7. RunInv' /\ NoLegacyMemberLost' /\ EmailNeverCostsAMember'
    BY <1>2, RunUntouched
  <1> QED BY <1>3, <1>4, <1>5, <1>6, <1>7 DEF IInv

-----------------------------------------------------------------------------
(* The steps of a request.                                                 *)

\* A request without an open transaction owns no row.
LEMMA NoRowOfItsOwn ==
    ASSUME IInv, NEW r \in Requests, reg[r].stage \notin {"pair", "commit"},
           NEW id \in Ids, Exists(id)
    PROVE  users[id].tx # r
  BY PortalAssumption DEF IInv, RowInv, RegHolds

\* Its row, if it has one, is the one it is working on.
LEMMA OneRowOfItsOwn ==
    ASSUME IInv, NEW r \in Requests, NEW id \in Ids, Exists(id), users[id].tx = r
    PROVE  RegHolds(r, id)
  BY PortalAssumption DEF IInv, RowInv

\* A step that only changes what the request remembers or answers.
LEMMA QuietRequestStep ==
    ASSUME IInv, NEW r \in Requests, UNCHANGED <<users, links, sso, migVars>>,
           reg[r].stage \notin {"pair", "commit"},
           NEW state \in RegRequests, reg' = [reg EXCEPT ![r] = state],
           state.stage \notin {"pair", "commit"},
           state.stage \in {"update", "reread"} => Committed(state.id)
    PROVE  IInv'
  <1>1. Touches({r})
    BY UntouchedUsers
  <1>2. reg'[r] = state
    BY DEF IInv, TypeOK
  <1>3. RegInv(r)'
    BY <1>2 DEF RegInv, RegIs, Committed, Exists
  <1>4. \A id \in Ids : Exists(id)' => users'[id].tx # r
    BY NoRowOfItsOwn DEF Exists
  <1> QED BY <1>1, <1>3, <1>4, RequestStep

LEMMA AnsweredTyped ==
    ASSUME NEW answer \in {"registered", "updated", "email_taken", "member_taken",
                           "not_found", "failed"},
           NEW id \in Ids \cup {None}, NEW e \in Emails \cup {None}
    PROVE  /\ Answered(answer, id, e) \in RegRequests
           /\ Answered(answer, id, e).stage = "done"
           /\ Answered(answer, id, e).answer = answer
           /\ Answered(answer, id, e).id = id
           /\ Answered(answer, id, e).email = e
  BY DEF Answered, RegRequests

LEMMA FormTyped ==
    ASSUME NEW form \in Registrations
    PROVE  /\ form.email \in Emails \cup {None} /\ form.member \in Members
           /\ form.status \in Statuses
  BY PortalAssumption

LEMMA FormRow ==
    ASSUME NEW form \in Registrations, NEW a \in Actors
    PROVE  /\ Row(form.email, form.member, form.status, a) \in Rows(Actors)
           /\ Row(form.email, form.member, form.status, a).tx = a
  <1>1. PICK e \in Emails \cup {None}, m \in Members, st \in Statuses :
           e = form.email /\ m = form.member /\ st = form.status
    BY FormTyped
  <1>2. Row(e, m, st, a) \in Rows(Actors) /\ Row(e, m, st, a).tx = a
    BY RowTyped
  <1> QED BY <1>1, <1>2

LEMMA IdleStep ==
    ASSUME IInv, NEW r \in Requests, UNCHANGED <<links, sso, migVars>>, Answer(r)
    PROVE  IInv'
  <1>1. RegIdle \in RegRequests /\ RegIdle.stage = "idle"
    BY DEF RegRequests, RegIdle
  <1> QED BY <1>1, QuietRequestStep DEF Answer, RegSet, RegIs

LEMMA FindEmailStep ==
    ASSUME IInv, NEW r \in Requests, UNCHANGED <<links, sso, migVars>>,
           NEW form \in Registrations, FindEmail(r, form)
    PROVE  IInv'
  <1> DEFINE kept == [stage |-> "find_member", form |-> form]
             refused == Answered("email_taken", None, form.email)
  <1>1. kept \in RegRequests /\ kept.stage = "find_member"
    BY DEF RegRequests
  <1>2. refused \in RegRequests /\ refused.stage = "done"
    BY FormTyped, AnsweredTyped
  <1>3. reg' = [reg EXCEPT ![r] = kept] \/ reg' = [reg EXCEPT ![r] = refused]
    BY DEF FindEmail, RegSet, RegEnd
  <1>4. reg[r].stage = "idle" /\ UNCHANGED users
    BY DEF FindEmail, RegIs
  <1> HIDE DEF kept, refused
  <1>5. CASE reg' = [reg EXCEPT ![r] = kept]
    BY <1>1, <1>4, <1>5, QuietRequestStep
  <1>6. CASE reg' = [reg EXCEPT ![r] = refused]
    BY <1>2, <1>4, <1>6, QuietRequestStep
  <1> QED BY <1>3, <1>5, <1>6

LEMMA FindMemberStep ==
    ASSUME IInv, NEW r \in Requests, UNCHANGED <<links, sso, migVars>>, FindMember(r)
    PROVE  IInv'
  <1> DEFINE kept == [stage |-> "insert", form |-> reg[r].form]
             refused == Answered("member_taken", None, None)
  <1>1. kept \in RegRequests /\ kept.stage = "insert"
    BY RegShape DEF RegRequests, FindMember, RegIs
  <1>2. refused \in RegRequests /\ refused.stage = "done"
    BY AnsweredTyped
  <1>3. reg' = [reg EXCEPT ![r] = kept] \/ reg' = [reg EXCEPT ![r] = refused]
    BY DEF FindMember, RegSet, RegEnd
  <1>4. reg[r].stage = "find_member" /\ UNCHANGED users
    BY DEF FindMember, RegIs
  <1> HIDE DEF kept, refused
  <1>5. CASE reg' = [reg EXCEPT ![r] = kept]
    BY <1>1, <1>4, <1>5, QuietRequestStep
  <1>6. CASE reg' = [reg EXCEPT ![r] = refused]
    BY <1>2, <1>4, <1>6, QuietRequestStep
  <1> QED BY <1>3, <1>5, <1>6

\* The one error or the other, or none.
LEMMA InsertErrors ==
    ASSUME NEW e, NEW m
    PROVE  /\ InsertError(e, m) \in {"email_taken", "member_taken", None}
           /\ InsertError(e, m) = "email_taken" /\ InsertError(e, m) # None =>
                 EmailRivals(e, None) # {}
  BY DEF InsertError

LEMMA InsertUserStep ==
    ASSUME IInv, NEW r \in Requests, UNCHANGED <<links, sso, migVars>>, InsertUser(r)
    PROVE  IInv'
  <1> DEFINE f == reg[r].form
             error == InsertError(f.email, f.member)
             row == Row(f.email, f.member, f.status, r)
  <1>1. reg[r].stage = "insert" /\ f \in Registrations
    BY RegShape DEF InsertUser, RegIs
  <1>2. r \in Actors
    BY DEF Actors
  <1>3. row \in Rows(Actors) /\ row.tx = r
    BY <1>1, <1>2, FormRow
  <1>4. ASSUME NEW id \in Ids, InsertRow(id, row),
               reg' = [reg EXCEPT ![r] = [stage |-> "pair", id |-> id]]
        PROVE  IInv'
    <2> DEFINE state == [stage |-> "pair", id |-> id]
    <2>1. /\ Touches({r}) /\ users'[id] = row /\ Exists(id)'
          /\ \A i \in Ids : i # id => users'[i] = users[i]
      BY <1>2, <1>3, <1>4, InsertTouches
    <2>2. state \in RegRequests
      BY DEF RegRequests
    <2>3. reg'[r] = state
      BY <1>4 DEF IInv, TypeOK
    <2>4. RegInv(r)'
      BY <1>3, <2>1, <2>3 DEF RegInv, RegIs
    <2>5. \A i \in Ids : Exists(i)' /\ users'[i].tx = r => RegHolds(r, i)'
      BY <1>1, <2>1, <2>3, NoRowOfItsOwn DEF RegHolds, Exists
    <2> HIDE DEF state
    <2> QED BY <1>4, <2>1, <2>2, <2>4, <2>5, RequestStep DEF state
  <1>5. ASSUME error # None, UNCHANGED users,
               reg' = [reg EXCEPT ![r] = Answered(error, None, f.email)]
        PROVE  IInv'
    <2>1. error \in {"email_taken", "member_taken"}
      BY <1>5, InsertErrors
    <2>2. /\ Answered(error, None, f.email) \in RegRequests
          /\ Answered(error, None, f.email).stage = "done"
      BY <1>1, <2>1, FormTyped, AnsweredTyped
    <2> QED BY <1>1, <1>5, <2>2, QuietRequestStep
  <1> QED BY <1>4, <1>5 DEF InsertUser, RegSet, RegEnd

LEMMA InsertCredStep ==
    ASSUME IInv, NEW r \in Requests, UNCHANGED <<links, sso, migVars>>, InsertCred(r)
    PROVE  IInv'
  <1>0. PICK id \in Ids : id = reg[r].id
    BY RegShape DEF InsertCred, RegIs
  <1> DEFINE state == [stage |-> "commit", id |-> id]
  <1>1. reg[r].stage = "pair" /\ InsertCredRow(id)
    BY <1>0 DEF InsertCred, RegIs
  <1>2. Exists(id) /\ users[id].tx = r
    BY <1>0, <1>1 DEF IInv, RegInv
  <1>3. r \in Actors
    BY DEF Actors
  <1>4. /\ Touches({r}) /\ Exists(id)' /\ users'[id].tx = r /\ users'[id].cred
        /\ \A i \in Ids : i # id => users'[i] = users[i]
    BY <1>1, <1>2, <1>3, CredTouches
  <1>5. state \in RegRequests
    BY <1>1 DEF RegRequests
  <1>6. reg' = [reg EXCEPT ![r] = state] /\ reg'[r] = state
    BY <1>0 DEF InsertCred, RegSet, IInv, TypeOK
  <1>7. RegInv(r)'
    BY <1>4, <1>6 DEF RegInv, RegIs
  <1>8. ASSUME NEW i \in Ids, Exists(i)', users'[i].tx = r
        PROVE  RegHolds(r, i)'
    <2>1. i = id
      BY <1>0, <1>4, <1>8, OneRowOfItsOwn DEF Exists, RegHolds
    <2> QED BY <1>6, <2>1 DEF RegHolds
  <1> HIDE DEF state
  <1> QED BY <1>4, <1>5, <1>6, <1>7, <1>8, RequestStep

LEMMA CommitStep ==
    ASSUME IInv, NEW r \in Requests, UNCHANGED <<links, sso, migVars>>, Commit(r)
    PROVE  IInv'
  <1>0. PICK id \in Ids : id = reg[r].id
    BY RegShape DEF Commit, RegIs
  <1>1. reg[r].stage = "commit" /\ CommitRow(id)
    BY <1>0 DEF Commit, RegIs
  <1>2. Exists(id) /\ users[id].tx = r /\ users[id].cred
    BY <1>0, <1>1 DEF IInv, RegInv, RegIs
  <1>3. r \in Actors /\ r # None
    BY PortalAssumption DEF Actors
  <1>4. /\ Touches({r}) /\ Committed(id)'
        /\ \A i \in Ids : i # id => users'[i] = users[i]
    BY <1>1, <1>2, <1>3, CommitTouches
  <1>5. PICK state \in {Answered("registered", id, None), Answered("failed", None, None)} :
           reg' = [reg EXCEPT ![r] = state]
    BY <1>0 DEF Commit, RegEnd, RegSet
  <1>6. state \in RegRequests /\ state.stage = "done"
    BY <1>1, AnsweredTyped
  <1>7. RegInv(r)'
    BY <1>5, <1>6 DEF RegInv, RegIs, IInv, TypeOK
  <1>8. ASSUME NEW i \in Ids, Exists(i)'
        PROVE  users'[i].tx # r
    <2>1. CASE i = id
      BY <1>3, <1>4, <2>1 DEF Committed
    <2>2. CASE i # id
      BY <1>0, <1>4, <1>8, <2>2, OneRowOfItsOwn DEF Exists, RegHolds
    <2> QED BY <2>1, <2>2
  <1> QED BY <1>4, <1>5, <1>6, <1>7, <1>8, RequestStep

LEMMA FailRequestStep ==
    ASSUME IInv, NEW r \in Requests, UNCHANGED <<links, sso, migVars>>, FailRequest(r)
    PROVE  IInv'
  <1>1. {r} \in SUBSET Actors
    BY DEF Actors
  <1>2. Touches({r}) /\ \A id \in Ids : Exists(id)' => users'[id].tx \notin {r}
    BY <1>1, RollbackTouches DEF FailRequest
  <1> DEFINE state == Answered("failed", None, None)
  <1>3. state \in RegRequests /\ state.stage = "done"
    BY AnsweredTyped
  <1>4. reg' = [reg EXCEPT ![r] = state] /\ reg'[r] = state
    BY DEF FailRequest, RegEnd, RegSet, IInv, TypeOK
  <1> HIDE DEF state
  <1>5. RegInv(r)'
    BY <1>3, <1>4 DEF RegInv, RegIs
  <1> QED BY <1>2, <1>3, <1>4, <1>5, RequestStep

LEMMA FindOtherEmailStep ==
    ASSUME IInv, NEW r \in Requests, UNCHANGED <<links, sso, migVars>>,
           NEW id \in Ids, NEW e \in NewEmails, FindOtherEmail(r, id, e)
    PROVE  IInv'
  <1> DEFINE kept == [stage |-> "update", id |-> id, email |-> e]
             refused == Answered("email_taken", id, e)
  <1>1. kept \in RegRequests /\ kept.stage = "update" /\ kept.id = id
    BY DEF RegRequests
  <1>2. refused \in RegRequests /\ refused.stage = "done"
    BY PortalAssumption, AnsweredTyped
  <1>3. reg' = [reg EXCEPT ![r] = kept] \/ reg' = [reg EXCEPT ![r] = refused]
    BY DEF FindOtherEmail, RegSet, RegEnd
  <1>4. reg[r].stage = "idle" /\ UNCHANGED users /\ Committed(id)
    BY DEF FindOtherEmail, RegIs, Findable
  <1> HIDE DEF kept, refused
  <1>5. CASE reg' = [reg EXCEPT ![r] = kept]
    BY <1>1, <1>4, <1>5, QuietRequestStep
  <1>6. CASE reg' = [reg EXCEPT ![r] = refused]
    BY <1>2, <1>4, <1>6, QuietRequestStep
  <1> QED BY <1>3, <1>5, <1>6

LEMMA UpdateUserProfileStep ==
    ASSUME IInv, NEW r \in Requests, UNCHANGED <<links, sso, migVars>>,
           UpdateUserProfile(r)
    PROVE  IInv'
  <1>0. PICK id \in Ids, e \in Emails : id = reg[r].id /\ e = reg[r].email
    BY RegShape, PortalAssumption DEF UpdateUserProfile, RegIs
  <1> DEFINE kept == [stage |-> "reread", id |-> id]
             refused == Answered("email_taken", id, e)
             row == [users[id] EXCEPT !.email = e]
  <1>1. reg[r].stage = "update"
    BY DEF UpdateUserProfile, RegIs
  <1>2. Committed(id)
    BY <1>0, <1>1 DEF IInv, RegInv
  <1>3. kept \in RegRequests /\ kept.stage = "reread" /\ kept.id = id
    BY <1>1 DEF RegRequests
  <1>4. refused \in RegRequests /\ refused.stage = "done"
    BY <1>1, AnsweredTyped
  <1>5. /\ users[id] \in Rows(Actors) /\ row \in Rows(Actors)
    BY <1>1, <1>2, UsersTyped, RowShape, RowEdited DEF Committed
  <1>6. row.tx = None /\ row.cred = users[id].cred /\ row.member = users[id].member
    BY <1>2, <1>5 DEF Rows, Committed
  <1> HIDE DEF kept, refused, row
  <1>7. ASSUME users' = [users EXCEPT ![id] = row], reg' = [reg EXCEPT ![r] = kept]
        PROVE  IInv'
    <2>1. Touches({r})
      BY <1>1, <1>2, <1>5, <1>6, <1>7, EditTouches
    <2>2. reg'[r] = kept
      BY <1>7 DEF IInv, TypeOK
    <2>3. Committed(id)'
      BY <1>1, <1>2, <2>1 DEF Touches
    <2>4. RegInv(r)'
      BY <1>3, <2>2, <2>3 DEF RegInv, RegIs
    <2>5. \A i \in Ids : Exists(i)' => users'[i].tx # r
      <3>1. r # None /\ reg[r].stage \notin {"pair", "commit"}
        BY <1>1, PortalAssumption
      <3>2. /\ users'[id] = row
            /\ \A i \in Ids : i # id => users'[i] = users[i]
        BY <1>1, <1>7 DEF IInv, TypeOK
      <3> QED BY <1>6, <3>1, <3>2, NoRowOfItsOwn DEF Exists
    <2> QED BY <1>3, <1>7, <2>1, <2>4, <2>5, RequestStep
  <1>8. ASSUME UNCHANGED users, reg' = [reg EXCEPT ![r] = kept]
        PROVE  IInv'
    BY <1>1, <1>2, <1>3, <1>8, QuietRequestStep
  <1>9. ASSUME UNCHANGED users, reg' = [reg EXCEPT ![r] = refused]
        PROVE  IInv'
    BY <1>1, <1>4, <1>9, QuietRequestStep
  <1> QED BY <1>0, <1>7, <1>8, <1>9 DEF UpdateUserProfile, RegSet, RegEnd, kept, refused, row

LEMMA RereadStep ==
    ASSUME IInv, NEW r \in Requests, UNCHANGED <<links, sso, migVars>>, Reread(r)
    PROVE  IInv'
  <1>1. reg[r].stage = "reread" /\ reg[r].id \in Ids /\ UNCHANGED users
    BY RegShape DEF Reread, RegIs
  <1>2. PICK answer \in {"updated", "not_found"} :
           reg' = [reg EXCEPT ![r] = Answered(answer, reg[r].id, None)]
    BY DEF Reread, RegEnd, RegSet
  <1>3. /\ Answered(answer, reg[r].id, None) \in RegRequests
        /\ Answered(answer, reg[r].id, None).stage = "done"
    BY <1>1, AnsweredTyped
  <1> QED BY <1>1, <1>2, <1>3, QuietRequestStep

LEMMA AccountInv ==
    ASSUME IInv, NEW r \in Requests, Account(r)
    PROVE  IInv'
  <1>1. UNCHANGED <<links, sso, migVars>>
    BY DEF Account
  <1>2. CASE Answer(r)
    BY <1>1, <1>2, IdleStep
  <1>3. CASE AccountStep(r)
    BY <1>1, <1>3, FindMemberStep, InsertUserStep, InsertCredStep, CommitStep,
       UpdateUserProfileStep, RereadStep DEF AccountStep
  <1>4. CASE FailRequest(r)
    BY <1>1, <1>4, FailRequestStep
  <1>5. CASE AccountRequest(r)
    BY <1>1, <1>5, FindEmailStep, FindOtherEmailStep DEF AccountRequest
  <1> QED BY <1>2, <1>3, <1>4, <1>5 DEF Account

-----------------------------------------------------------------------------
(* The steps of a sign-in.                                                 *)

\* A sign-in that holds no link before or after, and is not signed in by the
\* step.
LEMMA QuietSignInStep ==
    ASSUME IInv, NEW s \in SignIns, UNCHANGED <<users, links, reg, migVars>>,
           sso[s].stage \notin {"read_user", "commit"},
           NEW state \in SsoRequests, sso' = [sso EXCEPT ![s] = state],
           state.stage \notin {"read_user", "commit"},
           state.stage = "done" => state.answer # "signed_in"
    PROVE  IInv'
  <1>1. /\ sso' \in [SignIns -> SsoRequests] /\ sso'[s] = state
        /\ \A t \in SignIns : t # s => sso'[t] = sso[t]
        /\ links' \in [Identities -> Links \cup {None}]
    BY DEF IInv, TypeOK
  <1>2. \A t \in SignIns, i \in Identities : Holding(t, i)' <=> Holding(t, i)
    BY <1>1 DEF Holding
  <1>3. \A t \in SignIns, i \in Identities : Holding(t, i) => t # s
    BY DEF Holding
  <1>4. LinkInv'
    <2>1. ASSUME NEW i \in Identities, Linked(i)'
          PROVE  (links[i].tx = None \/ Holding(links[i].tx, i))'
      <3>1. links[i] \in Links /\ Linked(i)
        BY <1>1, <2>1 DEF Linked
      <3>2. links[i].tx \in SignIns \cup {None}
        BY <3>1 DEF Links
      <3>3. links[i].tx = None \/ Holding(links[i].tx, i)
        BY <3>1 DEF IInv, LinkInv
      <3> QED BY <1>1, <3>2, <3>3 DEF Holding
    <2>2. ASSUME NEW i \in Identities, NEW t \in SignIns, Holding(t, i)'
          PROVE  /\ Linked(i)' /\ links'[i].user = sso'[t].user
                 /\ \A q \in SignIns : Holding(q, i)' => q = t
      BY <1>1, <1>2, <1>3, <2>2 DEF IInv, LinkInv, Linked
    <2> QED BY <2>1, <2>2, <1>1 DEF LinkInv
  <1>5. SignInMatchesLink'
    BY <1>1 DEF IInv, SignInMatchesLink, SsoIs
  <1> QED BY <1>1, <1>4, <1>5, SocialStep

\* An answer without an identity signs nobody in.
LEMMA SsoAnswers ==
    ASSUME NEW answer \in {"not_associated", "failed"}, NEW s \in SignIns,
           SsoEnd(s, answer, None, None)
    PROVE  \E state \in SsoRequests :
              /\ sso' = [sso EXCEPT ![s] = state]
              /\ state.stage = "done" /\ state.answer = answer
  <1> DEFINE state == [stage |-> "done", answer |-> answer, identity |-> None, user |-> None]
  <1>1. state \in SsoRequests
    BY DEF SsoRequests
  <1> QED BY <1>1 DEF SsoEnd, SsoSet

LEMMA LinksExist == \A link \in Links : link # None
  BY PortalAssumption

LEMMA RedirectStep ==
    ASSUME IInv, NEW s \in SignIns, UNCHANGED <<reg, migVars>>, Redirect(s)
    PROVE  IInv'
  <1>1. SsoIdle \in SsoRequests /\ SsoIdle.stage = "idle"
    BY DEF SsoRequests, SsoIdle
  <1> QED BY <1>1, QuietSignInStep DEF Redirect, SsoSet, SsoIs

LEMMA VerifyStep ==
    ASSUME IInv, NEW s \in SignIns, UNCHANGED <<reg, migVars>>,
           NEW p \in Profiles, Verify(s, p)
    PROVE  IInv'
  <1> DEFINE state == [stage |-> "verified", profile |-> p]
  <1>1. state \in SsoRequests /\ state.stage = "verified"
    BY DEF SsoRequests
  <1>2. /\ sso' = [sso EXCEPT ![s] = state] /\ sso[s].stage = "idle"
        /\ UNCHANGED <<users, links>>
    BY DEF Verify, SsoSet, SsoIs
  <1> HIDE DEF state
  <1> QED BY <1>1, <1>2, QuietSignInStep

LEMMA FindUnlinkedStep ==
    ASSUME IInv, NEW s \in SignIns, UNCHANGED <<reg, migVars>>, FindUnlinked(s)
    PROVE  IInv'
  <1> DEFINE state == [stage |-> "find_user", profile |-> sso[s].profile]
  <1>1. state \in SsoRequests /\ state.stage = "find_user"
    BY SsoShape DEF SsoRequests, FindUnlinked, SsoIs
  <1>2. /\ sso' = [sso EXCEPT ![s] = state] /\ sso[s].stage = "verified"
        /\ UNCHANGED <<users, links>>
    BY DEF FindUnlinked, SsoSet, SsoIs
  <1> HIDE DEF state
  <1> QED BY <1>1, <1>2, QuietSignInStep

LEMMA FindUserToLinkStep ==
    ASSUME IInv, NEW s \in SignIns, UNCHANGED <<reg, migVars>>, FindUserToLink(s)
    PROVE  IInv'
  <1>1. sso[s].stage = "find_user" /\ UNCHANGED <<users, links>>
    BY DEF FindUserToLink, SsoIs
  <1>2. CASE SsoEnd(s, "not_associated", None, None)
    <2>1. PICK state \in SsoRequests :
              sso' = [sso EXCEPT ![s] = state] /\ state.stage = "done"
              /\ state.answer = "not_associated"
      BY <1>2, SsoAnswers
    <2> QED BY <1>1, <2>1, QuietSignInStep
  <1>3. ASSUME NEW id \in Ids,
               SsoSet(s, [stage |-> "link", profile |-> sso[s].profile, user |-> id,
                          suspended |-> Suspended(id)])
        PROVE  IInv'
    <2> DEFINE state == [stage |-> "link", profile |-> sso[s].profile, user |-> id,
                         suspended |-> Suspended(id)]
    <2>1. Suspended(id) \in BOOLEAN
      BY DEF Suspended
    <2>2. state \in SsoRequests /\ state.stage = "link"
      BY <1>1, <2>1, SsoShape DEF SsoRequests
    <2>3. sso' = [sso EXCEPT ![s] = state]
      BY <1>3 DEF SsoSet
    <2> HIDE DEF state
    <2> QED BY <1>1, <2>2, <2>3, QuietSignInStep
  <1> QED BY <1>2, <1>3 DEF FindUserToLink

LEMMA DeadlockVictimStep ==
    ASSUME IInv, NEW s \in SignIns, UNCHANGED <<reg, migVars>>, DeadlockVictim(s)
    PROVE  IInv'
  <1>1. /\ sso[s].stage = "link" /\ UNCHANGED <<users, links>>
        /\ SsoEnd(s, "failed", None, None)
    BY DEF DeadlockVictim, SsoIs, Linking
  <1>2. PICK state \in SsoRequests :
            sso' = [sso EXCEPT ![s] = state] /\ state.stage = "done"
            /\ state.answer = "failed"
    BY <1>1, SsoAnswers
  <1> QED BY <1>1, <1>2, QuietSignInStep

\* A sign-in that takes, keeps or gives up the row of one identity.
LEMMA HolderStep ==
    ASSUME IInv, NEW s \in SignIns, NEW i \in Identities,
           UNCHANGED <<users, reg, migVars>>,
           NEW state \in SsoRequests, sso' = [sso EXCEPT ![s] = state],
           links' \in [Identities -> Links \cup {None}],
           \A j \in Identities : j # i => links'[j] = links[j],
           \A j \in Identities : Holding(s, j) => j = i,
           \A t \in SignIns : Holding(t, i) => t = s,
           IF state.stage \in {"read_user", "commit"}
           THEN /\ state.identity = i
                /\ Linked(i)' /\ links'[i].user = state.user
                /\ links'[i].tx \in {None, s}
           ELSE Linked(i)' => links'[i].tx = None,
           state.stage = "done" /\ state.answer = "signed_in" =>
                 /\ state.identity = i
                 /\ links'[i] = [user |-> state.user, tx |-> None],
           \* the committed link of anyone else's answer stays
           Linked(i) /\ links[i].tx = None => links'[i] = links[i]
    PROVE  IInv'
  <1>1. /\ sso' \in [SignIns -> SsoRequests] /\ sso'[s] = state
        /\ \A t \in SignIns : t # s => sso'[t] = sso[t]
    BY DEF IInv, TypeOK
  <1>2. \A t \in SignIns, j \in Identities : t # s => (Holding(t, j)' <=> Holding(t, j))
    BY <1>1 DEF Holding
  <1>3. \A j \in Identities : Holding(s, j)' => j = i
    BY <1>1 DEF Holding
  <1>4. LinkInv'
    <2>1. ASSUME NEW j \in Identities, Linked(j)'
          PROVE  (links[j].tx = None \/ Holding(links[j].tx, j))'
      <3>1. CASE j = i
        <4>1. CASE state.stage \in {"read_user", "commit"}
          BY <1>1, <3>1, <4>1 DEF Holding
        <4>2. CASE state.stage \notin {"read_user", "commit"}
          BY <2>1, <3>1, <4>2
        <4> QED BY <4>1, <4>2
      <3>2. CASE j # i
        <4>1. links[j] \in Links /\ Linked(j) /\ links'[j] = links[j]
          BY <2>1, <3>2 DEF Linked
        <4>2. links[j].tx \in SignIns \cup {None}
          BY <4>1 DEF Links
        <4>3. links[j].tx = None \/ Holding(links[j].tx, j)
          BY <4>1 DEF IInv, LinkInv
        <4>4. ~Holding(s, j)
          BY <3>2
        <4> QED BY <1>1, <4>1, <4>2, <4>3, <4>4 DEF Holding
      <3> QED BY <3>1, <3>2
    <2>2. ASSUME NEW j \in Identities, NEW t \in SignIns, Holding(t, j)'
          PROVE  /\ Linked(j)' /\ links'[j].user = sso'[t].user
                 /\ \A q \in SignIns : Holding(q, j)' => q = t
      <3>1. CASE j = i
        <4>1. t = s /\ \A q \in SignIns : Holding(q, i)' => q = s
          BY <1>2, <2>2, <3>1
        <4>2. state.stage \in {"read_user", "commit"}
          BY <1>1, <2>2, <4>1 DEF Holding
        <4> QED BY <1>1, <3>1, <4>1, <4>2
      <3>2. CASE j # i
        <4>1. t # s /\ Holding(t, j)
          BY <1>2, <1>3, <2>2, <3>2
        <4>2. \A q \in SignIns : Holding(q, j)' => Holding(q, j)
          BY <1>2, <1>3, <3>2
        <4>3. /\ Linked(j) /\ links[j].user = sso[t].user
              /\ \A q \in SignIns : Holding(q, j) => q = t
          BY <4>1 DEF IInv, LinkInv
        <4> QED BY <1>1, <3>2, <4>1, <4>2, <4>3 DEF Linked
      <3> QED BY <3>1, <3>2
    <2> QED BY <2>1, <2>2 DEF LinkInv
  <1>5. ASSUME NEW t \in SignIns, sso'[t].stage = "done", sso'[t].answer = "signed_in"
        PROVE  links'[sso'[t].identity] = [user |-> sso'[t].user, tx |-> None]
    <2>1. CASE t = s
      BY <1>1, <1>5, <2>1
    <2>2. CASE t # s
      <3> DEFINE j == sso[t].identity
      <3>1. sso'[t] = sso[t] /\ links[j] = [user |-> sso[t].user, tx |-> None]
        BY <1>1, <1>5, <2>2 DEF IInv, SignInMatchesLink, SsoIs
      <3>2. j \in Identities /\ links[j] \in Links
        BY <1>5, <3>1, SsoShape DEF Links
      <3>3. Linked(j) /\ links[j].tx = None
        BY <3>1, <3>2, LinksExist DEF Linked
      <3>4. links'[j] = links[j]
        BY <3>2, <3>3
      <3> QED BY <3>1, <3>4
    <2> QED BY <2>1, <2>2
  <1>6. SignInMatchesLink'
    BY <1>5 DEF SignInMatchesLink, SsoIs
  <1> QED BY <1>1, <1>4, <1>6, SocialStep

LEMMA ProfileShape ==
    ASSUME NEW p \in Profiles
    PROVE  p.identity \in Identities /\ p.email \in Emails
  BY PortalAssumption

LEMMA FindLinkedStep ==
    ASSUME IInv, NEW s \in SignIns, UNCHANGED <<reg, migVars>>, FindLinked(s)
    PROVE  IInv'
  <1>1. PICK p \in Profiles : p = sso[s].profile
    BY SsoShape DEF FindLinked, SsoIs
  <1>2. PICK i \in Identities : i = p.identity
    BY ProfileShape
  <1>3. /\ sso[s].stage = "verified" /\ UNCHANGED <<users, links>>
        /\ Linked(i) /\ RowHolders(i) = {}
    BY <1>1, <1>2 DEF FindLinked, SsoIs
  <1> DEFINE state == [stage |-> "read_user", identity |-> i, user |-> links[i].user,
                       snapshot |-> None]
  <1>4. links[i] \in Links
    BY <1>3 DEF IInv, TypeOK, Linked
  <1>5. state \in SsoRequests
    BY <1>4 DEF SsoRequests, Links
  <1>6. sso' = [sso EXCEPT ![s] = state]
    BY <1>1, <1>2 DEF FindLinked, SsoSet, UserOf
  <1>7. \A t \in SignIns : ~Holding(t, i)
    BY <1>3 DEF RowHolders, Holding
  <1>8. links[i].tx = None
    BY <1>3, <1>4, <1>7 DEF IInv, LinkInv, Links
  <1>9. \A j \in Identities : ~Holding(s, j)
    BY <1>3 DEF Holding
  <1>10. links' \in [Identities -> Links \cup {None}]
    BY <1>3 DEF IInv, TypeOK
  <1>11. /\ state.stage = "read_user" /\ state.identity = i
         /\ state.user = links[i].user
    OBVIOUS
  <1>12. Linked(i)' /\ links'[i] = links[i]
    BY <1>3 DEF Linked
  <1> HIDE DEF state
  <1> QED BY <1>3, <1>5, <1>6, <1>7, <1>8, <1>9, <1>10, <1>11, <1>12, HolderStep

LEMMA InsertLinkStep ==
    ASSUME IInv, NEW s \in SignIns, UNCHANGED <<reg, migVars>>, InsertLink(s)
    PROVE  IInv'
  <1>1. PICK p \in Profiles, u \in Ids, b \in BOOLEAN :
           p = sso[s].profile /\ u = sso[s].user /\ b = sso[s].suspended
    BY SsoShape DEF InsertLink, SsoIs
  <1>2. PICK i \in Identities : i = p.identity
    BY ProfileShape
  <1> DEFINE state == [stage |-> "read_user", identity |-> i, user |-> u, snapshot |-> b]
             link == [user |-> u, tx |-> s]
  <1>3. /\ sso[s].stage = "link" /\ UNCHANGED users /\ ~Linked(i)
        /\ links' = [links EXCEPT ![i] = link]
        /\ sso' = [sso EXCEPT ![s] = state]
    BY <1>1, <1>2 DEF InsertLink, SsoIs, SsoSet
  <1>4. state \in SsoRequests /\ link \in Links
    BY DEF SsoRequests, Links
  <1>5. /\ links' \in [Identities -> Links \cup {None}] /\ links'[i] = link
        /\ \A j \in Identities : j # i => links'[j] = links[j]
    BY <1>3, <1>4 DEF IInv, TypeOK
  <1>6. Linked(i)'
    BY <1>4, <1>5, LinksExist DEF Linked
  <1>7. \A t \in SignIns : ~Holding(t, i)
    BY <1>3 DEF IInv, LinkInv
  <1>8. \A j \in Identities : ~Holding(s, j)
    BY <1>3 DEF Holding
  <1>9. /\ state.stage = "read_user" /\ state.identity = i /\ state.user = u
        /\ link.user = u /\ link.tx = s
    OBVIOUS
  <1> HIDE DEF state, link
  <1> QED BY <1>3, <1>4, <1>5, <1>6, <1>7, <1>8, <1>9, HolderStep

\* What LinkInv says of a sign-in that holds the row of i.
LEMMA HolderKnows ==
    ASSUME IInv, NEW s \in SignIns, NEW i \in Identities, Holding(s, i)
    PROVE  /\ Linked(i) /\ links[i] \in Links /\ links[i].user = sso[s].user
           /\ links[i].tx \in {None, s}
           /\ \A t \in SignIns : Holding(t, i) => t = s
           /\ \A j \in Identities : Holding(s, j) => j = i
  <1>1. /\ Linked(i) /\ links[i].user = sso[s].user
        /\ \A t \in SignIns : Holding(t, i) => t = s
    BY DEF IInv, LinkInv
  <1>2. links[i] \in Links
    BY <1>1 DEF IInv, TypeOK, Linked
  <1>3. links[i].tx \in {None, s}
    BY <1>1, <1>2 DEF IInv, LinkInv, Links
  <1> QED BY <1>1, <1>2, <1>3 DEF Holding

LEMMA ReadUserStep ==
    ASSUME IInv, NEW s \in SignIns, UNCHANGED <<reg, migVars>>, ReadUser(s)
    PROVE  IInv'
  <1>1. PICK i \in Identities, u \in Ids, seen \in BOOLEAN \cup {None} :
           i = sso[s].identity /\ u = sso[s].user /\ seen = sso[s].snapshot
    BY SsoShape DEF ReadUser, SsoIs
  <1>2. PICK b : b = IF seen = None THEN Suspended(u) ELSE seen
    OBVIOUS
  <1>3. b \in BOOLEAN
    BY <1>2 DEF Suspended
  <1> DEFINE state == [stage |-> "commit", identity |-> i, user |-> u, suspended |-> b]
  <1>4. /\ sso[s].stage = "read_user" /\ UNCHANGED <<users, links>>
        /\ sso' = [sso EXCEPT ![s] = state]
    BY <1>1, <1>2 DEF ReadUser, SsoIs, SsoSet
  <1>5. state \in SsoRequests
    BY <1>3 DEF SsoRequests
  <1>6. Holding(s, i)
    BY <1>1, <1>4 DEF Holding
  <1>7. /\ Linked(i) /\ links[i].user = u /\ links[i].tx \in {None, s}
        /\ \A t \in SignIns : Holding(t, i) => t = s
        /\ \A j \in Identities : Holding(s, j) => j = i
    BY <1>1, <1>6, HolderKnows
  <1>8. links' \in [Identities -> Links \cup {None}] /\ links'[i] = links[i] /\ Linked(i)'
    BY <1>4, <1>7 DEF IInv, TypeOK, Linked
  <1>9. state.stage = "commit" /\ state.identity = i /\ state.user = u
    OBVIOUS
  <1> HIDE DEF state
  <1> QED BY <1>4, <1>5, <1>7, <1>8, <1>9, HolderStep

LEMMA CommitLinkStep ==
    ASSUME IInv, NEW s \in SignIns, UNCHANGED <<reg, migVars>>, CommitLink(s)
    PROVE  IInv'
  <1>1. PICK i \in Identities, u \in Ids : i = sso[s].identity /\ u = sso[s].user
    BY SsoShape DEF CommitLink, SsoIs
  <1>2. Holding(s, i)
    BY <1>1 DEF Holding, CommitLink, SsoIs
  <1>3. /\ Linked(i) /\ links[i] \in Links /\ links[i].user = u
        /\ \A t \in SignIns : Holding(t, i) => t = s
        /\ \A j \in Identities : Holding(s, j) => j = i
    BY <1>1, <1>2, HolderKnows
  <1> DEFINE link == [user |-> u, tx |-> None]
  <1>4. links' = [links EXCEPT ![i] = link] /\ UNCHANGED users
    BY <1>1, <1>3 DEF CommitLink
  <1>5. link \in Links /\ link.tx = None
    BY DEF Links
  <1>6. /\ links' \in [Identities -> Links \cup {None}] /\ links'[i] = link
        /\ \A j \in Identities : j # i => links'[j] = links[j]
    BY <1>4, <1>5 DEF IInv, TypeOK
  <1>7. links[i].tx = None => links'[i] = links[i]
    BY <1>3, <1>6 DEF Links
  <1>8. ASSUME NEW answer \in {"signed_in", "suspended"}, SsoEnd(s, answer, i, u)
        PROVE  IInv'
    <2> DEFINE state == [stage |-> "done", answer |-> answer, identity |-> i, user |-> u]
    <2>1. state \in SsoRequests
      BY DEF SsoRequests
    <2>2. sso' = [sso EXCEPT ![s] = state]
      BY <1>8 DEF SsoEnd, SsoSet
    <2>3. state.stage = "done" /\ state.identity = i /\ link = [user |-> state.user, tx |-> None]
      OBVIOUS
    <2> HIDE DEF state, link
    <2> QED BY <1>3, <1>4, <1>5, <1>6, <1>7, <2>1, <2>2, <2>3, HolderStep
  <1>9. ASSUME SsoEnd(s, "failed", None, None)
        PROVE  IInv'
    <2>1. PICK state \in SsoRequests :
              sso' = [sso EXCEPT ![s] = state] /\ state.stage = "done"
              /\ state.answer = "failed"
      BY <1>9, SsoAnswers
    <2> HIDE DEF link
    <2> QED BY <1>3, <1>4, <1>5, <1>6, <1>7, <2>1, HolderStep
  <1> QED BY <1>1, <1>8, <1>9 DEF CommitLink

LEMMA FailSignInStep ==
    ASSUME IInv, NEW s \in SignIns, UNCHANGED <<reg, migVars>>, FailSignIn(s)
    PROVE  IInv'
  <1>1. PICK state \in SsoRequests :
            sso' = [sso EXCEPT ![s] = state] /\ state.stage = "done"
            /\ state.answer = "failed"
    BY SsoAnswers DEF FailSignIn
  <1>2. /\ UNCHANGED users /\ links' \in [Identities -> Links \cup {None}]
        /\ \A j \in Identities :
              links'[j] = IF Linked(j) /\ links[j].tx = s THEN None ELSE links[j]
    BY DEF FailSignIn, WithoutLinksOf, IInv, TypeOK
  <1>3. s # None
    BY PortalAssumption
  <1>4. CASE sso[s].stage \in {"read_user", "commit"}
    <2>1. PICK i \in Identities : i = sso[s].identity
      BY <1>4, SsoShape
    <2>2. Holding(s, i)
      BY <1>4, <2>1 DEF Holding
    <2>3. /\ Linked(i) /\ links[i] \in Links /\ links[i].tx \in {None, s}
          /\ \A t \in SignIns : Holding(t, i) => t = s
          /\ \A j \in Identities : Holding(s, j) => j = i
      BY <2>2, HolderKnows
    <2>4. \A j \in Identities : j # i => links'[j] = links[j]
      BY <1>2, <1>3, <2>3 DEF IInv, LinkInv
    <2>5. Linked(i)' => links'[i].tx = None
      BY <1>2, <1>3, <2>3 DEF Linked
    <2>6. links[i].tx = None => links'[i] = links[i]
      BY <1>2, <1>3
    <2> QED BY <1>1, <1>2, <2>3, <2>4, <2>5, <2>6, HolderStep
  <1>5. CASE sso[s].stage \notin {"read_user", "commit"}
    <2>1. \A j \in Identities : Linked(j) => links[j].tx # s
      BY <1>3, <1>5 DEF IInv, LinkInv, Holding
    <2>2. links' = links
      BY <1>2, <2>1 DEF IInv, TypeOK
    <2> QED BY <1>1, <1>2, <1>5, <2>2, QuietSignInStep
  <1> QED BY <1>4, <1>5

LEMMA SocialInv ==
    ASSUME IInv, NEW s \in SignIns, Social(s)
    PROVE  IInv'
  <1>1. UNCHANGED <<reg, migVars>>
    BY DEF Social
  <1>2. CASE Redirect(s)
    BY <1>1, <1>2, RedirectStep
  <1>3. CASE SignInStep(s)
    BY <1>1, <1>3, FindLinkedStep, FindUnlinkedStep, FindUserToLinkStep, InsertLinkStep,
       DeadlockVictimStep, ReadUserStep, CommitLinkStep DEF SignInStep
  <1>4. CASE FailSignIn(s)
    BY <1>1, <1>4, FailSignInStep
  <1>5. CASE \E p \in Profiles : Verify(s, p)
    BY <1>1, <1>5, VerifyStep
  <1> QED BY <1>2, <1>3, <1>4, <1>5 DEF Social

-----------------------------------------------------------------------------
(* The steps of the backfill.                                              *)

\* The backfill owns the row it is working on, if it is, and no other.
LEMMA BackfillOwns ==
    ASSUME IInv, NEW id \in Ids, Exists(id), users[id].tx = Backfill
    PROVE  MigHolds(id)
  BY PortalAssumption DEF IInv, RowInv

\* A step within a run: it accounts for the row at hand and keeps the rest.
LEMMA RunGoesOn ==
    ASSUME IInv, Touches({Backfill}), Migrating, UNCHANGED <<reg, links, sso, left, runs>>,
           mig' \in MigStates, Migrating',
           skipped \subseteq skipped',
           NEW row, row = mig.row,
           AtRow => \/ AtRow' /\ mig'.row = row
                    \/ InTable(row.member)'
                    \/ \E s \in skipped' : s.member = row.member,
           EmailNeverCostsAMember', MigInv',
           \A id \in Ids : Exists(id)' /\ users'[id].tx = Backfill => MigHolds(id)'
    PROVE  IInv'
  <1>1. RunInv'
    <2>1. SUFFICES ASSUME NEW other \in LegacyRows
                   PROVE  Accounted(other)'
      BY DEF RunInv
    <2>2. Accounted(other)
      BY DEF IInv, RunInv
    <2>3. CASE InTable(other.member)
      BY <2>3, TableKeeps DEF Accounted
    <2>4. CASE AtRow /\ other = row
      BY <2>4 DEF Accounted
    <2>5. CASE other \in left \/ \E s \in skipped : s.member = other.member
      BY <2>5 DEF Accounted
    <2> QED BY <2>2, <2>3, <2>4, <2>5 DEF Accounted
  <1>2. NoLegacyMemberLost'
    BY DEF NoLegacyMemberLost, MigIs, Migrating
  <1>3. left' \subseteq LegacyRows /\ runs' \in 0..MaxRuns
    BY DEF IInv, TypeOK
  <1> QED BY <1>1, <1>2, <1>3, BackfillStep

LEMMA Skips ==
    ASSUME IInv, NEW row, NEW reason, reason # "email_taken", Skip(row, reason)
    PROVE  /\ skipped \subseteq skipped' /\ EmailNeverCostsAMember'
           /\ \E s \in skipped' : s.member = row.member
  <1> DEFINE new == [member |-> row.member, reason |-> reason]
  <1>1. skipped' = skipped \cup {new} /\ new.member = row.member /\ new.reason = reason
    BY DEF Skip
  <1> HIDE DEF new
  <1>2. EmailNeverCostsAMember'
    BY <1>1 DEF IInv, EmailNeverCostsAMember
  <1> QED BY <1>1, <1>2

LEMMA NextState ==
    ASSUME MigSet([stage |-> "next"])
    PROVE  mig' \in MigStates /\ mig'.stage = "next"
  BY DEF MigSet, MigStates

LEMMA StartStep ==
    ASSUME IInv, Start, UNCHANGED <<reg, links, sso>>
    PROVE  IInv'
  <1>1. mig' \in MigStates /\ mig'.stage = "next"
    BY NextState DEF Start
  <1>2. Touches({Backfill})
    BY UntouchedUsers DEF Start
  <1>3. left' = LegacyRows /\ runs' \in 0..MaxRuns /\ skipped' = {}
    BY PortalAssumption DEF Start, IInv, TypeOK
  <1>4. MigInv' /\ RunInv' /\ NoLegacyMemberLost' /\ EmailNeverCostsAMember'
    BY <1>1, <1>3 DEF MigInv, RunInv, NoLegacyMemberLost, EmailNeverCostsAMember, Accounted,
       AtRow, MigIs
  <1>5. \A id \in Ids : Exists(id)' => users'[id].tx # Backfill
    BY BackfillOwns DEF Start, Exists, MigHolds
  <1> QED BY <1>1, <1>2, <1>3, <1>4, <1>5, BackfillStep

\* A row is taken from the list.
LEMMA SkipNamelessStep ==
    ASSUME IInv, SkipNameless, UNCHANGED <<reg, links, sso>>
    PROVE  IInv'
  <1>1. PICK row \in left : Skip(row, "empty m_id") /\ left' = left \ {row}
    BY DEF SkipNameless
  <1>2. mig.stage = "next" /\ UNCHANGED <<users, mig, report, runs>>
    BY DEF SkipNameless, MigIs
  <1>3. Touches({Backfill})
    BY <1>2, UntouchedUsers
  <1>4. /\ skipped \subseteq skipped' /\ EmailNeverCostsAMember'
        /\ \E s \in skipped' : s.member = row.member
    BY <1>1, Skips
  <1>5. /\ mig' \in MigStates /\ left' \subseteq LegacyRows /\ runs' \in 0..MaxRuns
    BY <1>1, <1>2 DEF IInv, TypeOK
  <1>6. RunInv'
    <2>1. \A m : InTable(m)' <=> InTable(m)
      BY <1>2 DEF InTable, Committed, Exists
    <2>2. \A other \in LegacyRows : Accounted(other)
      BY <1>2 DEF IInv, RunInv, Migrating
    <2> QED BY <1>1, <1>2, <1>4, <2>1, <2>2 DEF RunInv, Accounted, AtRow
  <1>7. MigInv' /\ NoLegacyMemberLost'
    BY <1>2 DEF MigInv, NoLegacyMemberLost, AtRow, MigIs
  <1>8. \A id \in Ids : Exists(id)' => users'[id].tx # Backfill
    BY <1>2, BackfillOwns DEF Exists, MigHolds
  <1> QED BY <1>2, <1>3, <1>4, <1>5, <1>6, <1>7, <1>8, BackfillStep

LEMMA LookUpStep ==
    ASSUME IInv, LookUp, UNCHANGED <<reg, links, sso>>
    PROVE  IInv'
  <1>1. PICK row \in left :
           /\ row.member # None /\ left' = left \ {row}
           /\ IF AlreadyMigrated(row) THEN UNCHANGED mig
              ELSE MigSet([stage |-> "insert", row |-> row])
    BY DEF LookUp
  <1>2. mig.stage = "next" /\ UNCHANGED <<users, skipped, report, runs>>
    BY DEF LookUp, MigIs
  <1>3. Touches({Backfill})
    BY <1>2, UntouchedUsers
  <1>4. /\ left' \subseteq LegacyRows /\ runs' \in 0..MaxRuns /\ row \in LegacyRows
    BY <1>1, <1>2 DEF IInv, TypeOK
  <1>5. \/ mig' = mig /\ InTable(row.member)
        \/ mig' = [stage |-> "insert", row |-> row]
    BY <1>1 DEF MigSet, AlreadyMigrated, InTable
  <1>6. mig' \in MigStates
    BY <1>4, <1>5 DEF IInv, TypeOK, MigStates
  <1>7. RunInv'
    <2>1. \A m : InTable(m)' <=> InTable(m)
      BY <1>2 DEF InTable, Committed, Exists
    <2>2. \A other \in LegacyRows : Accounted(other)
      BY <1>2 DEF IInv, RunInv, Migrating
    <2> QED BY <1>1, <1>2, <1>5, <2>1, <2>2 DEF RunInv, Accounted, AtRow
  <1>8. MigInv' /\ NoLegacyMemberLost' /\ EmailNeverCostsAMember'
    BY <1>1, <1>2, <1>5
       DEF MigInv, NoLegacyMemberLost, AtRow, MigIs, IInv, EmailNeverCostsAMember
  <1>9. \A id \in Ids : Exists(id)' => users'[id].tx # Backfill
    BY <1>2, BackfillOwns DEF Exists, MigHolds
  <1> QED BY <1>3, <1>4, <1>6, <1>7, <1>8, <1>9, BackfillStep

LEMMA LegacyShape ==
    ASSUME NEW row \in LegacyRows, row.member # None
    PROVE  /\ row.member \in Members /\ EmailOf(row) \in Emails \cup {None}
           /\ StatusOf(row) \in Statuses
  BY PortalAssumption DEF EmailOf, StatusOf, Statuses

LEMMA InsertMemberStep ==
    ASSUME IInv, mig.stage \in {"insert", "retry"},
           NEW email \in Emails \cup {None}, InsertMember(email),
           UNCHANGED <<reg, links, sso, left, report, runs>>
    PROVE  IInv'
  <1>1. PICK row \in LegacyRows : row = mig.row
    BY MigShape
  <1>2. row.member # None
    BY <1>1 DEF IInv, MigInv, AtRow
  <1>3. PICK m \in Members, st \in Statuses : m = row.member /\ st = StatusOf(row)
    BY <1>2, LegacyShape
  <1>4. Backfill \in Actors /\ Migrating
    BY DEF Actors, Migrating
  <1>5. ASSUME NEW id \in Ids, InsertRow(id, Row(email, m, st, Backfill)),
               MigSet([stage |-> "pair", row |-> row, id |-> id]), UNCHANGED skipped
        PROVE  IInv'
    <2> DEFINE new == Row(email, m, st, Backfill)
    <2>1. new \in Rows(Actors) /\ new.member = m /\ new.tx = Backfill
      BY <1>4, RowTyped
    <2>2. /\ Touches({Backfill}) /\ users'[id] = new /\ Exists(id)'
          /\ \A i \in Ids : i # id => users'[i] = users[i]
      BY <1>4, <1>5, <2>1, InsertTouches
    <2>3. /\ mig' \in MigStates /\ mig'.stage = "pair" /\ mig'.row = row /\ mig'.id = id
      BY <1>5 DEF MigSet, MigStates
    <2> HIDE DEF new
    <2>4. MigInv'
      BY <1>2, <1>3, <2>1, <2>2, <2>3 DEF MigInv, AtRow, MigIs
    <2>5. \A i \in Ids : Exists(i)' /\ users'[i].tx = Backfill => MigHolds(i)'
      BY <2>2, <2>3, BackfillOwns DEF MigHolds, Exists
    <2>6. Migrating' /\ AtRow' /\ mig'.row = mig.row
      BY <1>1, <2>3 DEF Migrating, AtRow
    <2>7. EmailNeverCostsAMember'
      BY <1>5 DEF IInv, EmailNeverCostsAMember
    <2> QED BY <1>4, <1>5, <2>2, <2>3, <2>4, <2>5, <2>6, <2>7, RunGoesOn
  <1>6. ASSUME Skip(row, "member_taken"), MigSet([stage |-> "next"]), UNCHANGED users
        PROVE  IInv'
    <2>1. mig' \in MigStates /\ mig'.stage = "next"
      BY <1>6, NextState
    <2>2. /\ skipped \subseteq skipped' /\ EmailNeverCostsAMember'
          /\ \E s \in skipped' : s.member = mig.row.member
      BY <1>1, <1>6, Skips
    <2>3. Touches({Backfill})
      BY <1>6, UntouchedUsers
    <2>4. MigInv' /\ Migrating'
      BY <2>1 DEF MigInv, AtRow, MigIs, Migrating
    <2>5. \A i \in Ids : Exists(i)' => users'[i].tx # Backfill
      BY <1>6, BackfillOwns DEF MigHolds, Exists
    <2> QED BY <1>4, <2>1, <2>2, <2>3, <2>4, <2>5, RunGoesOn
  <1> QED BY <1>1, <1>3, <1>5, <1>6 DEF InsertMember

LEMMA InsertLegacyStep ==
    ASSUME IInv, InsertLegacy, UNCHANGED <<reg, links, sso>>
    PROVE  IInv'
  <1>1. mig.stage = "insert" /\ UNCHANGED <<left, report, runs>>
    BY DEF InsertLegacy, MigIs
  <1>2. mig.row \in LegacyRows /\ mig.row.member # None
    BY <1>1, MigShape DEF IInv, MigInv, AtRow
  <1>3. CASE InsertMember(EmailOf(mig.row))
    BY <1>1, <1>2, <1>3, LegacyShape, InsertMemberStep
  <1>4. CASE DropEmail /\ UNCHANGED users
    <2>1. mig' = [stage |-> "retry", row |-> mig.row] /\ UNCHANGED skipped
      BY <1>4 DEF DropEmail, MigSet
    <2>2. mig' \in MigStates /\ mig'.stage = "retry" /\ mig'.row = mig.row
      BY <1>2, <2>1 DEF MigStates
    <2>3. Touches({Backfill})
      BY <1>4, UntouchedUsers
    <2>4. MigInv' /\ Migrating' /\ AtRow' /\ Migrating
      BY <1>1, <1>2, <2>2 DEF MigInv, AtRow, MigIs, Migrating
    <2>5. \A i \in Ids : Exists(i)' => users'[i].tx # Backfill
      BY <1>1, <1>4, BackfillOwns DEF MigHolds, Exists
    <2>6. EmailNeverCostsAMember'
      BY <2>1 DEF IInv, EmailNeverCostsAMember
    <2> QED BY <1>1, <2>1, <2>2, <2>3, <2>4, <2>5, <2>6, RunGoesOn
  <1> QED BY <1>3, <1>4 DEF InsertLegacy

LEMMA PairLegacyStep ==
    ASSUME IInv, PairLegacy, UNCHANGED <<reg, links, sso>>
    PROVE  IInv'
  <1>1. PICK id \in Ids, row \in LegacyRows : id = mig.id /\ row = mig.row
    BY MigShape DEF PairLegacy, MigIs
  <1>2. /\ mig.stage = "pair" /\ InsertCredRow(id)
        /\ mig' = [stage |-> "commit", row |-> row, id |-> id]
        /\ UNCHANGED <<left, skipped, report, runs>>
    BY <1>1 DEF PairLegacy, MigIs, MigSet
  <1>3. Exists(id) /\ users[id].tx = Backfill /\ users[id].member = row.member
        /\ row.member # None
    BY <1>1, <1>2 DEF IInv, MigInv, AtRow
  <1>4. Backfill \in Actors
    BY DEF Actors
  <1>5. /\ Touches({Backfill}) /\ Exists(id)' /\ users'[id].tx = Backfill
        /\ users'[id].cred /\ users'[id].member = row.member
        /\ \A i \in Ids : i # id => users'[i] = users[i]
    BY <1>2, <1>3, <1>4, CredTouches
  <1>6. /\ mig' \in MigStates /\ mig'.stage = "commit" /\ mig'.row = row /\ mig'.id = id
    BY <1>2 DEF MigStates
  <1>7. MigInv' /\ Migrating' /\ AtRow' /\ Migrating
    BY <1>2, <1>3, <1>5, <1>6 DEF MigInv, AtRow, MigIs, Migrating
  <1>8. \A i \in Ids : Exists(i)' /\ users'[i].tx = Backfill => MigHolds(i)'
    BY <1>1, <1>5, <1>6, BackfillOwns DEF MigHolds, Exists
  <1>9. EmailNeverCostsAMember'
    BY <1>2 DEF IInv, EmailNeverCostsAMember
  <1> QED BY <1>1, <1>2, <1>5, <1>6, <1>7, <1>8, <1>9, RunGoesOn

LEMMA CommitLegacyStep ==
    ASSUME IInv, CommitLegacy, UNCHANGED <<reg, links, sso>>
    PROVE  IInv'
  <1>1. PICK id \in Ids, row \in LegacyRows : id = mig.id /\ row = mig.row
    BY MigShape DEF CommitLegacy, MigIs
  <1>2. /\ mig.stage = "commit" /\ CommitRow(id) /\ MigSet([stage |-> "next"])
        /\ UNCHANGED skipped \/ Skip(row, "failed")
        /\ UNCHANGED <<left, report, runs>>
    BY <1>1 DEF CommitLegacy, MigIs
  <1>3. /\ Exists(id) /\ users[id].tx = Backfill /\ users[id].member = row.member
        /\ users[id].cred
    BY <1>1, <1>2 DEF IInv, MigInv, MigIs
  <1>4. Backfill \in Actors /\ Backfill # None
    BY PortalAssumption DEF Actors
  <1>5. /\ Touches({Backfill}) /\ Committed(id)' /\ users'[id].member = row.member
        /\ \A i \in Ids : i # id => users'[i] = users[i]
    BY <1>2, <1>3, <1>4, CommitTouches
  <1>6. mig' \in MigStates /\ mig'.stage = "next"
    BY <1>2, NextState
  <1>7. skipped \subseteq skipped' /\ EmailNeverCostsAMember'
    BY <1>2, Skips DEF IInv, EmailNeverCostsAMember
  <1>8. MigInv' /\ Migrating' /\ Migrating
    BY <1>2, <1>6 DEF MigInv, AtRow, MigIs, Migrating
  <1>9. ASSUME NEW i \in Ids, Exists(i)'
        PROVE  users'[i].tx # Backfill
    <2>1. CASE i = id
      BY <1>4, <1>5, <2>1 DEF Committed
    <2>2. CASE i # id
      BY <1>1, <1>5, <1>9, <2>2, BackfillOwns DEF MigHolds, Exists
    <2> QED BY <2>1, <2>2
  <1>10. InTable(row.member)'
    BY <1>5 DEF InTable
  <1> QED BY <1>1, <1>2, <1>5, <1>6, <1>7, <1>8, <1>9, <1>10, RunGoesOn

\* The rows of the backfill's transaction are gone.
LEMMA RolledBackfill ==
    ASSUME IInv, users' = RolledBack({Backfill})
    PROVE  /\ Touches({Backfill})
           /\ \A id \in Ids : Exists(id)' => users'[id].tx # Backfill
  <1>1. {Backfill} \in SUBSET Actors
    BY DEF Actors
  <1> QED BY <1>1, RollbackTouches

LEMMA FailLegacyStep ==
    ASSUME IInv, FailLegacy, UNCHANGED <<reg, links, sso>>
    PROVE  IInv'
  <1>1. PICK row \in LegacyRows : row = mig.row
    BY MigShape DEF FailLegacy
  <1>2. /\ users' = RolledBack({Backfill}) /\ Skip(row, "failed")
        /\ MigSet([stage |-> "next"]) /\ UNCHANGED <<left, report, runs>>
    BY <1>1 DEF FailLegacy
  <1>3. mig' \in MigStates /\ mig'.stage = "next"
    BY <1>2, NextState
  <1>4. /\ skipped \subseteq skipped' /\ EmailNeverCostsAMember'
        /\ \E s \in skipped' : s.member = row.member
    BY <1>2, Skips
  <1>5. MigInv' /\ Migrating' /\ Migrating
    BY <1>3 DEF MigInv, AtRow, MigIs, Migrating, FailLegacy
  <1> QED BY <1>1, <1>2, <1>3, <1>4, <1>5, RolledBackfill, RunGoesOn

LEMMA DieStep ==
    ASSUME IInv, Die, UNCHANGED <<reg, links, sso>>
    PROVE  IInv'
  <1>1. mig' = [stage |-> "died"] /\ left' = {} /\ skipped' = {} /\ UNCHANGED <<report, runs>>
    BY DEF Die, MigSet
  <1>2. mig' \in MigStates /\ mig'.stage = "died"
    BY <1>1 DEF MigStates
  <1>3. MigInv' /\ RunInv' /\ NoLegacyMemberLost' /\ EmailNeverCostsAMember'
    BY <1>1, <1>2 DEF MigInv, RunInv, NoLegacyMemberLost, EmailNeverCostsAMember, AtRow,
       MigIs, Migrating
  <1>4. left' \subseteq LegacyRows /\ runs' \in 0..MaxRuns
    BY <1>1 DEF IInv, TypeOK
  <1> QED BY <1>2, <1>3, <1>4, RolledBackfill, BackfillStep DEF Die

\* The report is written when every row has been looked at.
LEMMA WriteReportStep ==
    ASSUME IInv, WriteReport, UNCHANGED <<reg, links, sso>>
    PROVE  IInv'
  <1>1. /\ mig.stage = "next" /\ left = {} /\ skipped' = {}
        /\ UNCHANGED <<users, left, runs>>
    BY DEF WriteReport, MigIs
  <1>2. \/ /\ mig' = [stage |-> "finished"]
           /\ report' = IF skipped = {} THEN report ELSE {s.member : s \in skipped}
        \/ mig' = [stage |-> "unreported"]
    BY DEF WriteReport, MigSet
  <1>3. mig' \in MigStates /\ mig'.stage \in {"finished", "unreported"}
    BY <1>2 DEF MigStates
  <1>4. Touches({Backfill})
    BY <1>1, UntouchedUsers
  <1>5. MigInv' /\ RunInv' /\ EmailNeverCostsAMember'
    BY <1>1, <1>3 DEF MigInv, RunInv, EmailNeverCostsAMember, AtRow, MigIs, Migrating
  <1>6. NoLegacyMemberLost'
    <2>1. SUFFICES ASSUME mig'.stage = "finished", NEW row \in LegacyRows
                   PROVE  InTable(row.member)' \/ row.member \in report'
      BY DEF NoLegacyMemberLost, MigIs, InTable
    <2>2. Accounted(row)
      BY <1>1 DEF IInv, RunInv, Migrating
    <2>3. InTable(row.member) \/ \E s \in skipped : s.member = row.member
      BY <1>1, <2>2 DEF Accounted, AtRow
    <2>4. report' = IF skipped = {} THEN report ELSE {s.member : s \in skipped}
      BY <1>2, <2>1
    <2> QED BY <1>4, <2>3, <2>4, TableKeeps
  <1>7. \A id \in Ids : Exists(id)' => users'[id].tx # Backfill
    BY <1>1, BackfillOwns DEF Exists, MigHolds
  <1>8. left' \subseteq LegacyRows /\ runs' \in 0..MaxRuns
    BY <1>1 DEF IInv, TypeOK
  <1> QED BY <1>3, <1>4, <1>5, <1>6, <1>7, <1>8, BackfillStep

LEMMA MigrationInv ==
    ASSUME IInv, Migration
    PROVE  IInv'
  <1>1. UNCHANGED <<reg, links, sso>>
    BY DEF Migration
  <1>2. CASE MigStep
    <2>1. CASE InsertWithoutEmail
      BY <1>1, <2>1, InsertMemberStep DEF InsertWithoutEmail, MigIs
    <2> QED BY <1>1, <1>2, <2>1, SkipNamelessStep, LookUpStep, InsertLegacyStep,
               PairLegacyStep, CommitLegacyStep, WriteReportStep DEF MigStep
  <1>3. CASE FailLegacy
    BY <1>1, <1>3, FailLegacyStep
  <1>4. CASE Die
    BY <1>1, <1>4, DieStep
  <1>5. CASE Start
    BY <1>1, <1>5, StartStep
  <1> QED BY <1>2, <1>3, <1>4, <1>5 DEF Migration

-----------------------------------------------------------------------------
(* Staff, and a crash of the portal.                                       *)

LEMMA StaffInv ==
    ASSUME IInv, Staff
    PROVE  IInv'
  <1>1. PICK id \in Ids : StaffUpdate(id)
    BY DEF Staff
  <1>2. Committed(id)
    BY <1>1 DEF StaffUpdate, Findable
  <1>3. users[id] \in Rows(Actors) /\ users[id].tx = None
    BY <1>2, UsersTyped, RowShape DEF Committed
  <1>4. PICK row \in {[users[id] EXCEPT !.status = "suspended"],
                      [users[id] EXCEPT !.deleted = TRUE]} :
           users' = [users EXCEPT ![id] = row]
    BY <1>1 DEF StaffUpdate
  <1>5. row \in Rows(Actors)
    BY <1>3, RowEdited
  <1>6. row.tx = None /\ row.cred = users[id].cred /\ row.member = users[id].member
    BY <1>3 DEF Rows
  <1>7. Touches({})
    BY <1>2, <1>4, <1>5, <1>6, EditTouches
  <1>8. UNCHANGED <<reg, links, sso, migVars, mig, left, skipped, report, runs>>
    BY DEF Staff, migVars
  <1>9. TypeOK'
    BY <1>7, <1>8 DEF IInv, TypeOK, Touches, UsersOK, Actors
  <1>10. ASSUME NEW i \in Ids, Exists(i)'
         PROVE  RowInv(i)'
    BY <1>7, <1>8, <1>10, RowsOfOthers
  <1>11. ASSUME NEW q \in Requests
         PROVE  RegInv(q)'
    BY <1>7, <1>8, RequestUntouched
  <1>12. MigInv' /\ RunInv' /\ NoLegacyMemberLost' /\ EmailNeverCostsAMember'
    BY <1>7, <1>8, BackfillUntouched, RunUntouched
  <1>13. LinkInv' /\ SignInMatchesLink'
    BY <1>8, SocialUntouched
  <1> QED BY <1>9, <1>10, <1>11, <1>12, <1>13 DEF IInv

\* Every transaction of the portal is rolled back, the backfill's is not.
LEMMA CrashInv ==
    ASSUME IInv, Crash
    PROVE  IInv'
  <1> DEFINE portal == Requests \cup SignIns
  <1>1. /\ users' = RolledBack(portal) /\ reg' = [r \in Requests |-> RegIdle]
        /\ sso' = [s \in SignIns |-> SsoIdle] /\ links' = WithoutLinksOf(SignIns)
        /\ UNCHANGED <<migVars, mig, left, skipped, report, runs>>
    BY DEF Crash, migVars
  <1>2. portal \in SUBSET Actors /\ Backfill \notin portal /\ None \notin SignIns
    BY PortalAssumption DEF Actors
  <1>3. Touches(portal) /\ \A id \in Ids : Exists(id)' => users'[id].tx \notin portal
    BY <1>1, <1>2, RollbackTouches
  <1>4. /\ RegIdle \in RegRequests /\ RegIdle.stage = "idle"
        /\ SsoIdle \in SsoRequests /\ SsoIdle.stage = "idle"
    BY DEF RegRequests, RegIdle, SsoRequests, SsoIdle
  <1>5. /\ reg' \in [Requests -> RegRequests] /\ sso' \in [SignIns -> SsoRequests]
        /\ \A r \in Requests : reg'[r].stage = "idle"
        /\ \A s \in SignIns : sso'[s].stage = "idle"
    BY <1>1, <1>4
  <1>6. /\ links' \in [Identities -> Links \cup {None}]
        /\ \A i \in Identities : Linked(i)' => links'[i].tx = None
    <2>1. links \in [Identities -> Links \cup {None}]
      BY DEF IInv, TypeOK
    <2>2. \A i \in Identities :
             links'[i] = IF Linked(i) /\ links[i].tx \in SignIns THEN None ELSE links[i]
      BY <1>1 DEF WithoutLinksOf
    <2>3. links' \in [Identities -> Links \cup {None}]
      BY <1>1, <2>1 DEF WithoutLinksOf
    <2>4. ASSUME NEW i \in Identities, Linked(i)'
          PROVE  links'[i].tx = None
      <3>1. links'[i] = links[i] /\ links[i].tx \notin SignIns /\ links[i] # None
        BY <2>2, <2>4 DEF Linked
      <3>2. links[i] \in Links
        BY <2>1, <3>1
      <3> QED BY <3>1, <3>2 DEF Links
    <2> QED BY <2>3, <2>4
  <1>7. TypeOK'
    BY <1>1, <1>3, <1>5, <1>6 DEF IInv, TypeOK, Touches, UsersOK, Actors
  <1>8. ASSUME NEW id \in Ids, Exists(id)'
        PROVE  RowInv(id)'
    <2>1. \A q \in Requests \ portal : reg'[q] = reg[q]
      OBVIOUS
    <2> QED BY <1>1, <1>2, <1>3, <1>8, <2>1, RowsOfOthers
  <1>9. \A q \in Requests : RegInv(q)'
    BY <1>5 DEF RegInv, RegIs
  <1>10. MigInv' /\ RunInv' /\ NoLegacyMemberLost' /\ EmailNeverCostsAMember'
    BY <1>1, <1>2, <1>3, BackfillUntouched, RunUntouched
  <1>11. LinkInv'
    BY <1>5, <1>6 DEF LinkInv, Holding
  <1>12. SignInMatchesLink'
    BY <1>5 DEF SignInMatchesLink, SsoIs
  <1> QED BY <1>7, <1>8, <1>9, <1>10, <1>11, <1>12 DEF IInv

-----------------------------------------------------------------------------
LEMMA InitInv == Init => IInv
  <1> SUFFICES ASSUME Init
               PROVE  IInv
    OBVIOUS
  <1> USE DEF Init, UsersInit, RegInit, LinkInit, MigInit
  <1>1. TypeOK
    <2>1. RegIdle \in RegRequests /\ SsoIdle \in SsoRequests
      BY DEF RegRequests, SsoRequests
    <2>2. mig \in MigStates
      BY DEF MigStates
    <2> QED BY <2>1, <2>2, PortalAssumption DEF TypeOK
  <1>2. \A id \in Ids : ~Exists(id)
    BY DEF Exists
  <1>3. \A r \in Requests : RegInv(r)
    BY DEF RegInv, RegIs, RegIdle
  <1>4. MigInv /\ RunInv /\ NoLegacyMemberLost /\ EmailNeverCostsAMember
    BY DEF MigInv, RunInv, NoLegacyMemberLost, EmailNeverCostsAMember, AtRow, MigIs, Migrating
  <1>5. LinkInv
    BY DEF LinkInv, Linked, Holding, SsoIdle
  <1>6. SignInMatchesLink
    BY DEF SignInMatchesLink, SsoIs, SsoIdle
  <1> QED BY <1>1, <1>2, <1>3, <1>4, <1>5, <1>6 DEF IInv

LEMMA StutterInv == IInv /\ UNCHANGED vars => IInv'
  <1> SUFFICES ASSUME IInv, UNCHANGED vars
               PROVE  IInv'
    OBVIOUS
  <1>1. UNCHANGED <<users, reg, links, sso, migVars>>
    BY DEF vars
  <1>2. LinkInv' /\ SignInMatchesLink'
    BY <1>1, SocialUntouched
  <1>3. links' \in [Identities -> Links \cup {None}] /\ sso' \in [SignIns -> SsoRequests]
    BY <1>1 DEF IInv, TypeOK
  <1> QED BY <1>1, <1>2, <1>3, SocialStep

LEMMA NextInv == IInv /\ [Next]_vars => IInv'
  BY AccountInv, SocialInv, MigrationInv, StaffInv, CrashInv, StutterInv DEF Next

LEMMA Invariance == Spec => []IInv
  BY InitInv, NextInv, PTL DEF Spec

-----------------------------------------------------------------------------
\* The table, every actor's progress and the backfill's lists have their types,
\* whatever the portal, the backfill and the staff do at once.
THEOREM TypeCorrect == Spec => []TypeOK
  <1>1. IInv => TypeOK
    BY DEF IInv
  <1> QED BY <1>1, Invariance, PTL

\* No user row is ever committed without its credential row: registrations and
\* the backfill insert both in one transaction, and neither a crash, a failed
\* statement nor a lost acknowledgement leaves half of it.
THEOREM PairedAlways == Spec => []EveryUserHasCred
  <1>1. IInv => EveryUserHasCred
    BY CommittedWhole DEF EveryUserHasCred
  <1> QED BY <1>1, Invariance, PTL

\* A social sign-in signs in the member that the identity was linked to, and
\* that link is committed: FOR UPDATE keeps two first sign-ins from linking it
\* twice and answering with different members.
THEOREM LinkDecides == Spec => []SignInMatchesLink
  <1>1. IInv => SignInMatchesLink
    BY DEF IInv
  <1> QED BY <1>1, Invariance, PTL

\* Whatever registers or fails meanwhile, a run of the backfill that ends well
\* has each legacy member in the table or in its report.
THEOREM NobodyLost == Spec => []NoLegacyMemberLost
  <1>1. IInv => NoLegacyMemberLost
    BY DEF IInv
  <1> QED BY <1>1, Invariance, PTL

\* No legacy member is skipped for an email: one that is taken is dropped and
\* the member inserted without it.
THEOREM EmailCostsNobody == Spec => []EmailNeverCostsAMember
  <1>1. IInv => EmailNeverCostsAMember
    BY DEF IInv
  <1> QED BY <1>1, Invariance, PTL

-----------------------------------------------------------------------------
(* Why an email is refused.                                                *)

\* Another committed account has the address.
HeldByOther(id, e) ==
    \E i \in Ids \ {id} : Committed(i) /\ users[i].email = e /\ e # None

\* A rival for a key that nobody has to wait for is a committed row.
LEMMA RivalCommitted ==
    ASSUME NEW e, NEW id, EmailRivals(e, id) # {}, Owners(EmailRivals(e, id)) = {}
    PROVE  HeldByOther(id, e)
  BY DEF EmailRivals, Owners, Committed, HeldByOther

\* Only the statements that look for the email, or insert it, refuse it.
LEMMA RefusalStep ==
    ASSUME IInv, NEW r \in Requests, Account(r), Becomes(r, "email_taken")
    PROVE  HeldByOther(reg'[r].id, reg'[r].email)
  <1>1. \A state : RegSet(r, state) => reg'[r] = state
    BY DEF RegSet, IInv, TypeOK
  <1>2. \A answer, id, e : RegEnd(r, answer, id, e) =>
           /\ reg'[r].answer = answer /\ reg'[r].id = id /\ reg'[r].email = e
    BY <1>1 DEF RegEnd, Answered
  <1>3. reg'[r].stage = "done" /\ reg'[r].answer = "email_taken" /\ reg[r].stage # "done"
    BY DEF Becomes
  <1>4. ASSUME NEW form \in Registrations, FindEmail(r, form)
        PROVE  HeldByOther(reg'[r].id, reg'[r].email)
    <2>1. /\ WithEmail(form.email) # {} /\ reg'[r].id = None /\ reg'[r].email = form.email
      BY <1>1, <1>2, <1>3, <1>4 DEF FindEmail
    <2> QED BY <2>1, PortalAssumption DEF WithEmail, Findable, HeldByOther
  <1>5. ASSUME NEW id \in Ids, NEW e \in NewEmails, FindOtherEmail(r, id, e)
        PROVE  HeldByOther(reg'[r].id, reg'[r].email)
    <2>1. OtherHolders(id, e) # {} /\ reg'[r].id = id /\ reg'[r].email = e
      BY <1>1, <1>2, <1>3, <1>5 DEF FindOtherEmail
    <2> QED BY <2>1 DEF OtherHolders, WithEmail, Findable, HeldByOther
  <1>6. CASE InsertUser(r)
    <2> DEFINE f == reg[r].form
               error == InsertError(f.email, f.member)
    <2>1. /\ error = "email_taken" /\ error # None
          /\ reg'[r].id = None /\ reg'[r].email = f.email
          /\ Undecided(f.email, f.member) = {}
      <3>1. CASE \E id \in Ids : RegSet(r, [stage |-> "pair", id |-> id])
        BY <1>1, <1>3, <3>1
      <3>2. CASE error # None /\ RegEnd(r, error, None, f.email)
        BY <1>2, <1>3, <1>6, <3>2 DEF InsertUser
      <3> QED BY <1>6, <3>1, <3>2 DEF InsertUser
    <2>2. EmailRivals(f.email, None) # {} /\ Owners(EmailRivals(f.email, None)) = {}
      BY <2>1, InsertErrors DEF Undecided
    <2> QED BY <2>1, <2>2, RivalCommitted
  <1>7. CASE UpdateUserProfile(r)
    <2> DEFINE id == reg[r].id
               e == reg[r].email
               rivals == UpdateRivals(id, e)
    <2>1. rivals # {} /\ Owners(rivals) = {} /\ reg'[r].id = id /\ reg'[r].email = e
      BY <1>1, <1>2, <1>3, <1>7 DEF UpdateUserProfile
    <2>2. rivals = EmailRivals(e, id)
      BY <2>1 DEF UpdateRivals
    <2> QED BY <2>1, <2>2, RivalCommitted
  <1>8. ~FindMember(r) /\ ~Reread(r) /\ ~InsertCred(r) /\ ~Commit(r)
    BY <1>1, <1>2, <1>3 DEF FindMember, Reread, InsertCred, Commit
  <1>9. ~Answer(r) /\ ~FailRequest(r)
    BY <1>1, <1>2, <1>3 DEF Answer, FailRequest, RegIdle
  <1> QED BY <1>4, <1>5, <1>6, <1>7, <1>8, <1>9 DEF Account, AccountStep, AccountRequest

LEMMA RefusalNext ==
    ASSUME IInv, [Next]_vars, NEW r \in Requests, Becomes(r, "email_taken")
    PROVE  HeldByOther(reg'[r].id, reg'[r].email)
  <1>1. reg'[r].stage # reg[r].stage /\ reg'[r].stage = "done"
    BY DEF Becomes
  <1>2. CASE Account(r)
    BY <1>2, RefusalStep
  <1>3. ASSUME NEW q \in Requests, q # r, Account(q)
        PROVE  reg'[r] = reg[r]
    <2>1. \A state : RegSet(q, state) => reg'[r] = reg[r]
      BY <1>3 DEF RegSet, IInv, TypeOK
    <2> QED BY <1>3, <2>1 DEF Account, AccountStep, AccountRequest, FindEmail, FindMember,
               InsertUser, InsertCred, Commit, FindOtherEmail, UpdateUserProfile, Reread,
               FailRequest, Answer, RegEnd
  <1>4. ~Crash
    BY <1>1 DEF Crash, RegIdle
  <1>5. ~(\E s \in SignIns : Social(s)) /\ ~Migration /\ ~Staff /\ ~UNCHANGED vars
    BY <1>1 DEF Social, Migration, Staff, vars
  <1> QED BY <1>1, <1>2, <1>3, <1>4, <1>5 DEF Next

\* An email is refused, by the friendly lookup or by the unique key that a race
\* is left to, only when another committed account has that very address.
THEOREM RefusalsJustified == Spec => EmailRefusalJustified
  <1> DEFINE Justified ==
        \A r \in Requests :
            Becomes(r, "email_taken") =>
                \E id \in Ids \ {reg'[r].id} :
                    /\ Committed(id)
                    /\ users[id].email = reg'[r].email
                    /\ users[id].email # None
  <1>1. IInv /\ [Next]_vars => [Justified]_<<users, reg>>
    BY RefusalNext DEF HeldByOther
  <1>2. Spec => [][Justified]_<<users, reg>>
    BY <1>1, Invariance, PTL DEF Spec
  <1> QED BY <1>2 DEF EmailRefusalJustified

-----------------------------------------------------------------------------
(* What a step does to the table, whoever takes it.                        *)

RowIs(id, row) == users' = [users EXCEPT ![id] = row]

Inserted ==
    \E id \in Ids, e \in Emails \cup {None}, m \in Members, st \in Statuses, a \in Actors :
        InsertError(e, m) = None /\ InsertRow(id, Row(e, m, st, a))

Paired ==
    \E id \in Ids : Exists(id) /\ users[id].tx # None /\ InsertCredRow(id)

CommittedNow ==
    \E id \in Ids :
        Exists(id) /\ users[id].tx # None /\ users[id].cred /\ CommitRow(id)

Readdressed ==
    \E id \in Ids, e \in Emails :
        /\ Committed(id) /\ ~users[id].deleted /\ EmailRivals(e, id) = {}
        /\ RowIs(id, [users[id] EXCEPT !.email = e])

Retracted == \E actors \in SUBSET Actors : users' = RolledBack(actors)

TableStep ==
    \/ UNCHANGED users
    \/ Inserted \/ Paired \/ CommittedNow \/ Readdressed
    \/ \E id \in Ids : StaffUpdate(id)
    \/ Retracted

LEMMA AccountTable ==
    ASSUME IInv, NEW r \in Requests, Account(r)
    PROVE  TableStep
  <1>1. r \in Actors /\ {r} \in SUBSET Actors
    BY DEF Actors
  <1>2. CASE InsertUser(r)
    <2> DEFINE f == reg[r].form
    <2>1. f \in Registrations
      BY <1>2, RegShape DEF InsertUser, RegIs
    <2>2. PICK e \in Emails \cup {None}, m \in Members, st \in Statuses :
             e = f.email /\ m = f.member /\ st = f.status
      BY <2>1, FormTyped
    <2>3. UNCHANGED users \/
          \E id \in Ids : InsertError(e, m) = None /\ InsertRow(id, Row(e, m, st, r))
      BY <1>2, <2>2 DEF InsertUser
    <2> QED BY <1>1, <2>3 DEF TableStep, Inserted
  <1>3. CASE InsertCred(r)
    <2>1. reg[r].stage = "pair" /\ reg[r].id \in Ids /\ InsertCredRow(reg[r].id)
      BY <1>3, RegShape DEF InsertCred, RegIs
    <2>2. Exists(reg[r].id) /\ users[reg[r].id].tx # None
      BY <2>1, PortalAssumption DEF IInv, RegInv
    <2> QED BY <2>1, <2>2 DEF TableStep, Paired
  <1>4. CASE Commit(r)
    <2>1. reg[r].stage = "commit" /\ reg[r].id \in Ids /\ CommitRow(reg[r].id)
      BY <1>4, RegShape DEF Commit, RegIs
    <2>2. Exists(reg[r].id) /\ users[reg[r].id].tx # None /\ users[reg[r].id].cred
      BY <2>1, PortalAssumption DEF IInv, RegInv, RegIs
    <2> QED BY <2>1, <2>2 DEF TableStep, CommittedNow
  <1>5. CASE UpdateUserProfile(r)
    <2>1. PICK id \in Ids, e \in Emails : id = reg[r].id /\ e = reg[r].email
      BY <1>5, RegShape, PortalAssumption DEF UpdateUserProfile, RegIs
    <2>2. Committed(id)
      BY <1>5, <2>1 DEF UpdateUserProfile, RegIs, IInv, RegInv
    <2>3. UNCHANGED users \/
          /\ ~users[id].deleted /\ UpdateRivals(id, e) = {}
          /\ RowIs(id, [users[id] EXCEPT !.email = e])
      BY <1>5, <2>1 DEF UpdateUserProfile, RowIs
    <2> QED BY <2>1, <2>2, <2>3 DEF TableStep, Readdressed, UpdateRivals
  <1>6. CASE FailRequest(r)
    BY <1>1, <1>6 DEF FailRequest, TableStep, Retracted
  <1>7. CASE Answer(r) \/ FindMember(r) \/ Reread(r) \/ AccountRequest(r)
    BY <1>7 DEF Answer, FindMember, Reread, AccountRequest, FindEmail, FindOtherEmail,
                TableStep
  <1> QED BY <1>2, <1>3, <1>4, <1>5, <1>6, <1>7 DEF Account, AccountStep

LEMMA MemberInserted ==
    ASSUME IInv, mig.stage \in {"insert", "retry"}, NEW e \in Emails \cup {None},
           InsertMember(e)
    PROVE  TableStep
  <1>1. PICK row \in LegacyRows : row = mig.row
    BY MigShape
  <1>2. row.member # None
    BY <1>1 DEF IInv, MigInv, AtRow
  <1>3. PICK m \in Members, st \in Statuses : m = row.member /\ st = StatusOf(row)
    BY <1>2, LegacyShape
  <1>4. UNCHANGED users \/
        \E id \in Ids : InsertError(e, m) = None /\ InsertRow(id, Row(e, m, st, Backfill))
    BY <1>1, <1>3 DEF InsertMember
  <1> QED BY <1>4 DEF TableStep, Inserted, Actors

LEMMA MigrationTable ==
    ASSUME IInv, Migration
    PROVE  TableStep
  <1>1. Backfill \in Actors /\ {Backfill} \in SUBSET Actors /\ Backfill # None
    BY PortalAssumption DEF Actors
  <1>2. CASE InsertLegacy
    <2>1. mig.stage = "insert" /\ mig.row \in LegacyRows /\ mig.row.member # None
      BY <1>2, MigShape DEF InsertLegacy, MigIs, IInv, MigInv, AtRow
    <2>2. EmailOf(mig.row) \in Emails \cup {None}
      BY <2>1, LegacyShape
    <2> QED BY <1>2, <2>1, <2>2, MemberInserted DEF InsertLegacy, TableStep
  <1>3. CASE InsertWithoutEmail
    BY <1>3, MemberInserted DEF InsertWithoutEmail, MigIs
  <1>4. CASE PairLegacy
    <2>1. mig.stage = "pair" /\ mig.id \in Ids /\ InsertCredRow(mig.id)
      BY <1>4, MigShape DEF PairLegacy, MigIs
    <2>2. Exists(mig.id) /\ users[mig.id].tx # None
      BY <1>1, <2>1 DEF IInv, MigInv
    <2> QED BY <2>1, <2>2 DEF TableStep, Paired
  <1>5. CASE CommitLegacy
    <2>1. mig.stage = "commit" /\ mig.id \in Ids /\ CommitRow(mig.id)
      BY <1>5, MigShape DEF CommitLegacy, MigIs
    <2>2. Exists(mig.id) /\ users[mig.id].tx # None /\ users[mig.id].cred
      BY <1>1, <2>1 DEF IInv, MigInv, MigIs
    <2> QED BY <2>1, <2>2 DEF TableStep, CommittedNow
  <1>6. CASE FailLegacy \/ Die
    BY <1>1, <1>6 DEF FailLegacy, Die, TableStep, Retracted
  <1>7. CASE SkipNameless \/ LookUp \/ WriteReport \/ Start
    BY <1>7 DEF SkipNameless, LookUp, WriteReport, Start, TableStep
  <1> QED BY <1>2, <1>3, <1>4, <1>5, <1>6, <1>7 DEF Migration, MigStep

LEMMA SocialTable ==
    ASSUME NEW s \in SignIns, Social(s)
    PROVE  UNCHANGED users
  BY DEF Social, SignInStep, Verify, FindLinked, FindUnlinked, FindUserToLink, InsertLink,
         DeadlockVictim, ReadUser, CommitLink, FailSignIn, Redirect

LEMMA TableSteps ==
    ASSUME IInv, [Next]_vars
    PROVE  TableStep
  <1>1. CASE \E s \in SignIns : Social(s)
    BY <1>1, SocialTable DEF TableStep
  <1>2. CASE Staff
    BY <1>2 DEF Staff, TableStep
  <1>3. CASE Crash
    <2>1. Requests \cup SignIns \in SUBSET Actors
      BY DEF Actors
    <2> QED BY <1>3, <2>1 DEF Crash, TableStep, Retracted
  <1>4. CASE UNCHANGED vars
    BY <1>4 DEF vars, TableStep
  <1> QED BY <1>1, <1>2, <1>3, <1>4, AccountTable, MigrationTable DEF Next

-----------------------------------------------------------------------------
(* Keys.  Rows that are not inserted or readdressed keep them.             *)

\* What every step but a rollback does to one row, and to no other.
LEMMA OneRow ==
    ASSUME IInv, NEW id \in Ids, NEW row, RowIs(id, row)
    PROVE  users'[id] = row /\ \A i \in Ids : i # id => users'[i] = users[i]
  BY UsersTyped DEF RowIs, UsersOK

LEMMA PairedRow ==
    ASSUME IInv, NEW id \in Ids, Exists(id), InsertCredRow(id)
    PROVE  /\ RowIs(id, [users[id] EXCEPT !.cred = TRUE]) /\ Exists(id)'
           /\ users'[id].tx = users[id].tx /\ users'[id].member = users[id].member
           /\ users'[id].email = users[id].email /\ users'[id].deleted = users[id].deleted
  <1>1. users[id] \in Rows(Actors)
    BY UsersTyped, RowShape
  <1>2. RowIs(id, [users[id] EXCEPT !.cred = TRUE])
    BY DEF InsertCredRow, RowIs
  <1>3. users'[id] = [users[id] EXCEPT !.cred = TRUE] /\ users'[id] # None
    BY <1>1, <1>2, OneRow, RowEdited
  <1> QED BY <1>1, <1>2, <1>3 DEF Rows, Exists

LEMMA CommittedRow ==
    ASSUME IInv, NEW id \in Ids, Exists(id), CommitRow(id)
    PROVE  /\ RowIs(id, [users[id] EXCEPT !.tx = None]) /\ Committed(id)'
           /\ users'[id].member = users[id].member /\ users'[id].email = users[id].email
           /\ users'[id].status = users[id].status
           /\ users'[id].deleted = users[id].deleted /\ users'[id].cred = users[id].cred
  <1>1. users[id] \in Rows(Actors)
    BY UsersTyped, RowShape
  <1>2. RowIs(id, [users[id] EXCEPT !.tx = None])
    BY DEF CommitRow, RowIs
  <1>3. users'[id] = [users[id] EXCEPT !.tx = None] /\ users'[id] # None
    BY <1>1, <1>2, OneRow, RowEdited
  <1> QED BY <1>1, <1>2, <1>3 DEF Rows, Exists, Committed

LEMMA ReaddressedRow ==
    ASSUME IInv, NEW id \in Ids, NEW e \in Emails, Committed(id),
           RowIs(id, [users[id] EXCEPT !.email = e])
    PROVE  /\ Committed(id)' /\ users'[id].email = e
           /\ users'[id].member = users[id].member
           /\ users'[id].status = users[id].status
           /\ users'[id].deleted = users[id].deleted /\ users'[id].cred = users[id].cred
  <1>1. users[id] \in Rows(Actors)
    BY UsersTyped, RowShape DEF Committed
  <1>2. users'[id] = [users[id] EXCEPT !.email = e] /\ users'[id] # None
    BY <1>1, OneRow, RowEdited
  <1> QED BY <1>1, <1>2 DEF Rows, Exists, Committed

LEMMA StaffRow ==
    ASSUME IInv, NEW id \in Ids, StaffUpdate(id)
    PROVE  /\ Committed(id) /\ Committed(id)'
           /\ \A i \in Ids : i # id => users'[i] = users[i]
           /\ users'[id].member = users[id].member /\ users'[id].email = users[id].email
           /\ users'[id].cred = users[id].cred
           /\ \/ /\ users'[id].status = "suspended"
                 /\ users'[id].deleted = users[id].deleted
              \/ /\ users'[id].deleted = TRUE /\ users'[id].status = users[id].status
  <1>1. Committed(id) /\ users[id] \in Rows(Actors)
    BY UsersTyped, RowShape DEF StaffUpdate, Findable, Committed
  <1>2. CASE RowIs(id, [users[id] EXCEPT !.status = "suspended"])
    <2>1. users'[id] = [users[id] EXCEPT !.status = "suspended"] /\ users'[id] # None
      BY <1>1, <1>2, OneRow, RowEdited
    <2> QED BY <1>1, <1>2, <2>1, OneRow DEF Rows, Exists, Committed
  <1>3. CASE RowIs(id, [users[id] EXCEPT !.deleted = TRUE])
    <2>1. users'[id] = [users[id] EXCEPT !.deleted = TRUE] /\ users'[id] # None
      BY <1>1, <1>3, OneRow, RowEdited
    <2> QED BY <1>1, <1>3, <2>1, OneRow DEF Rows, Exists, Committed
  <1> QED BY <1>2, <1>3 DEF StaffUpdate, RowIs

LEMMA InsertedRow ==
    ASSUME IInv, NEW id \in Ids, NEW e \in Emails \cup {None}, NEW m \in Members,
           NEW st \in Statuses, NEW a \in Actors, InsertRow(id, Row(e, m, st, a))
    PROVE  /\ RowIs(id, Row(e, m, st, a)) /\ ~Exists(id)
           /\ Exists(id)' /\ ~Committed(id)'
           /\ users'[id].email = e /\ users'[id].member = m /\ ~users'[id].deleted
  <1>1. RowIs(id, Row(e, m, st, a)) /\ ~Exists(id)
    BY DEF InsertRow, RowIs
  <1>2. users'[id] = Row(e, m, st, a)
    BY <1>1, OneRow
  <1>3. Row(e, m, st, a) # None /\ Row(e, m, st, a).tx # None
    BY RowTyped
  <1> QED BY <1>1, <1>2, <1>3 DEF Exists, Committed, Row

LEMMA RetractedRows ==
    ASSUME IInv, NEW actors \in SUBSET Actors, users' = RolledBack(actors), NEW id \in Ids
    PROVE  /\ Exists(id)' => users'[id] = users[id] /\ Exists(id)
           /\ Committed(id)' <=> Committed(id)
  <1>1. users'[id] = IF Exists(id) /\ users[id].tx \in actors THEN None ELSE users[id]
    BY DEF RolledBack
  <1>2. None \notin actors
    BY PortalAssumption DEF Actors
  <1> QED BY <1>1, <1>2 DEF Exists, Committed

\* Committed rows stay committed.
LEMMA CommittedStays ==
    ASSUME IInv, [Next]_vars, NEW id \in Ids, Committed(id)
    PROVE  Committed(id)'
  <1>1. CASE UNCHANGED users
    BY <1>1 DEF Committed, Exists
  <1>2. CASE Inserted
    BY <1>2, InsertedRow, OneRow DEF Inserted, Committed, Exists
  <1>3. CASE Paired
    BY <1>3, PairedRow, OneRow DEF Paired, Committed, Exists
  <1>4. CASE CommittedNow
    BY <1>4, CommittedRow, OneRow DEF CommittedNow, Committed, Exists
  <1>5. CASE Readdressed
    BY <1>5, ReaddressedRow, OneRow DEF Readdressed, Committed, Exists
  <1>6. CASE \E i \in Ids : StaffUpdate(i)
    BY <1>6, StaffRow DEF Committed, Exists
  <1>7. CASE Retracted
    BY <1>7, RetractedRows DEF Retracted
  <1> QED BY <1>1, <1>2, <1>3, <1>4, <1>5, <1>6, <1>7, TableSteps DEF TableStep

KeysKept ==
    \A id \in Ids :
        Exists(id)' =>
            /\ Exists(id) /\ users'[id].member = users[id].member
            /\ users'[id].email = users[id].email

LEMMA StillUnique == UniqueKeys /\ KeysKept => UniqueKeys'
  BY DEF UniqueKeys, KeysKept

\* One row gets keys that no other row has.
LEMMA NewKeysUnique ==
    ASSUME UniqueKeys, NEW id \in Ids, Exists(id)',
           \A i \in Ids : i # id => users'[i] = users[i],
           \A i \in Ids : i # id /\ Exists(i) =>
               /\ users[i].member # users'[id].member
               /\ users'[id].email # None => users[i].email # users'[id].email
    PROVE  UniqueKeys'
  <1> SUFFICES ASSUME NEW i \in Ids, NEW j \in Ids, Exists(i)', Exists(j)', i # j
               PROVE  /\ users'[i].member # users'[j].member
                      /\ users'[i].email # None => users'[i].email # users'[j].email
    BY DEF UniqueKeys
  <1>1. CASE i = id
    BY <1>1 DEF Exists
  <1>2. CASE j = id
    BY <1>2 DEF Exists
  <1>3. CASE i # id /\ j # id
    BY <1>3 DEF UniqueKeys, Exists
  <1> QED BY <1>1, <1>2, <1>3

LEMMA InsertUnique ==
    ASSUME IInv, UniqueKeys, Inserted
    PROVE  UniqueKeys'
  <1>1. PICK id \in Ids, e \in Emails \cup {None}, m \in Members, st \in Statuses,
             a \in Actors :
           InsertError(e, m) = None /\ InsertRow(id, Row(e, m, st, a))
    BY DEF Inserted
  <1>2. /\ Exists(id)' /\ users'[id].email = e /\ users'[id].member = m
        /\ \A i \in Ids : i # id => users'[i] = users[i]
    BY <1>1, InsertedRow, OneRow
  <1>3. EmailRivals(e, None) = {} /\ MemberRivals(m) = {}
    BY <1>1, PortalAssumption DEF InsertError
  <1>4. \A i \in Ids : Exists(i) => users[i].member # m /\ (e # None => users[i].email # e)
    BY <1>3, PortalAssumption DEF EmailRivals, MemberRivals
  <1> QED BY <1>2, <1>4, NewKeysUnique

LEMMA ReaddressUnique ==
    ASSUME IInv, UniqueKeys, Readdressed
    PROVE  UniqueKeys'
  <1>1. PICK id \in Ids, e \in Emails :
           /\ Committed(id) /\ EmailRivals(e, id) = {}
           /\ RowIs(id, [users[id] EXCEPT !.email = e])
    BY DEF Readdressed
  <1>2. /\ Exists(id)' /\ users'[id].email = e /\ users'[id].member = users[id].member
        /\ \A i \in Ids : i # id => users'[i] = users[i]
    BY <1>1, ReaddressedRow, OneRow DEF Committed
  <1>3. \A i \in Ids : i # id /\ Exists(i) => users[i].member # users[id].member
    BY <1>1 DEF UniqueKeys, Committed
  <1>4. \A i \in Ids : i # id /\ Exists(i) => users[i].email # e
    BY <1>1, PortalAssumption DEF EmailRivals
  <1> QED BY <1>2, <1>3, <1>4, NewKeysUnique

LEMMA KeysStep ==
    ASSUME IInv, UniqueKeys, [Next]_vars
    PROVE  UniqueKeys'
  <1>1. CASE UNCHANGED users
    BY <1>1 DEF UniqueKeys, Exists
  <1>2. CASE Paired
    BY <1>2, PairedRow, OneRow, StillUnique DEF Paired, KeysKept, Exists
  <1>3. CASE CommittedNow
    BY <1>3, CommittedRow, OneRow, StillUnique DEF CommittedNow, KeysKept, Exists
  <1>4. CASE \E id \in Ids : StaffUpdate(id)
    BY <1>4, StaffRow, StillUnique DEF KeysKept, Exists, Committed
  <1>5. CASE Retracted
    BY <1>5, RetractedRows, StillUnique DEF Retracted, KeysKept
  <1> QED BY <1>1, <1>2, <1>3, <1>4, <1>5, InsertUnique, ReaddressUnique, TableSteps
          DEF TableStep

\* An uncommitted row is as it was inserted.
LEMMA NewRowsStep ==
    ASSUME IInv, NewRowsKept, [Next]_vars
    PROVE  NewRowsKept'
  <1> SUFFICES ASSUME NEW i \in Ids, Exists(i)', ~Committed(i)'
               PROVE  ~users'[i].deleted
    BY DEF NewRowsKept
  <1>0. Exists(i) => ~users[i].deleted
    BY CommittedStays DEF NewRowsKept
  <1>1. CASE UNCHANGED users
    BY <1>0, <1>1 DEF Exists
  <1>2. CASE Inserted
    BY <1>0, <1>2, InsertedRow, OneRow DEF Inserted, Exists
  <1>3. CASE Paired
    BY <1>0, <1>3, PairedRow, OneRow DEF Paired, Exists
  <1>4. CASE CommittedNow
    BY <1>0, <1>4, CommittedRow, OneRow DEF CommittedNow, Exists
  <1>5. CASE Readdressed
    BY <1>0, <1>5, ReaddressedRow, OneRow DEF Readdressed, Exists
  <1>6. CASE \E id \in Ids : StaffUpdate(id)
    BY <1>0, <1>6, StaffRow DEF Exists
  <1>7. CASE Retracted
    BY <1>0, <1>7, RetractedRows DEF Retracted
  <1> QED BY <1>1, <1>2, <1>3, <1>4, <1>5, <1>6, <1>7, TableSteps DEF TableStep

-----------------------------------------------------------------------------
(* Links.  No step links an identity whose gap another sign-in has locked. *)

LEMMA GapHolder ==
    ASSUME NEW i \in Identities, NEW s \in SignIns
    PROVE  s \in GapHolders(i) <=>
              sso[s].stage \in {"find_user", "link"} /\ sso[s].profile.identity = i
  BY DEF GapHolders

LEMMA GapsKept ==
    ASSUME IInv, GapInv, [Next]_vars, NEW s \in SignIns,
           NEW state, sso' = [sso EXCEPT ![s] = state],
           \A i \in Identities : Linked(i)' => Committed(links[i].user)',
           \A i \in Identities :
              Linked(i)' => Linked(i) \/ \A t \in SignIns : t # s => t \notin GapHolders(i),
           state.stage \in {"find_user", "link"} =>
              \A i \in Identities : state.profile.identity = i => ~Linked(i)',
           state.stage = "link" => Committed(state.user)'
    PROVE  GapInv'
  <1>1. sso'[s] = state /\ \A t \in SignIns : t # s => sso'[t] = sso[t]
    BY DEF IInv, TypeOK
  <1>2. ASSUME NEW i \in Identities, Linked(i)', NEW t \in SignIns, t \in GapHolders(i)'
        PROVE  FALSE
    <2>1. sso'[t].stage \in {"find_user", "link"} /\ sso'[t].profile.identity = i
      BY <1>2 DEF GapHolders
    <2>2. CASE t = s
      BY <1>1, <1>2, <2>1, <2>2
    <2>3. CASE t # s
      <3>1. t \in GapHolders(i)
        BY <1>1, <2>1, <2>3 DEF GapHolders
      <3>2. Linked(i)
        BY <1>2, <2>3, <3>1
      <3> QED BY <3>1, <3>2 DEF GapInv
    <2> QED BY <2>2, <2>3
  <1>3. \A i \in Identities : Linked(i)' => GapHolders(i)' = {}
    <2>1. \A i \in Identities : \A t : t \in GapHolders(i)' => t \in SignIns
      BY DEF GapHolders
    <2> QED BY <1>2, <2>1
  <1>4. ASSUME NEW t \in SignIns, t \in Linking'
        PROVE  Committed(sso[t].user)'
    <2>1. sso'[t].stage = "link"
      BY <1>4 DEF Linking, SsoIs
    <2>2. CASE t = s
      BY <1>1, <2>1, <2>2
    <2>3. CASE t # s
      <3>1. sso[t].stage = "link" /\ sso'[t] = sso[t]
        BY <1>1, <2>1, <2>3
      <3>2. t \in Linking /\ sso[t].user \in Ids
        BY <3>1, SsoShape DEF Linking, SsoIs
      <3>3. Committed(sso[t].user)
        BY <3>2 DEF GapInv
      <3> QED BY <3>1, <3>2, <3>3, CommittedStays
    <2> QED BY <2>2, <2>3
  <1>5. \A t \in Linking' : t \in SignIns
    BY DEF Linking
  <1> QED BY <1>3, <1>4, <1>5 DEF GapInv

\* The user of a link is a row of the table, and stays committed.
LEMMA LinkedStay ==
    ASSUME IInv, GapInv, [Next]_vars, NEW i \in Identities, Linked(i)
    PROVE  links[i] \in Links /\ links[i].user \in Ids /\ (Committed(links[i].user))
           /\ \A u \in Ids : u = links[i].user => Committed(u)'
  <1>1. links[i] \in Links
    BY DEF IInv, TypeOK, Linked
  <1>2. links[i].user \in Ids
    BY <1>1 DEF Links
  <1>3. Committed(links[i].user)
    BY DEF GapInv
  <1> QED BY <1>1, <1>2, <1>3, CommittedStays

\* A step that links nobody, and leaves the links there are with their users.
LEMMA NoNewLink ==
    ASSUME IInv, GapInv, [Next]_vars,
           \A i \in Identities : Linked(i)' => Linked(i) /\ links'[i].user = links[i].user,
           NEW s \in SignIns, NEW state, sso' = [sso EXCEPT ![s] = state],
           state.stage \notin {"find_user", "link"}
    PROVE  GapInv'
  <1>1. ASSUME NEW i \in Identities, Linked(i)'
        PROVE  Linked(i) /\ Committed(links[i].user)'
    <2>1. Linked(i) /\ links'[i].user = links[i].user
      BY <1>1
    <2>2. PICK u \in Ids : u = links[i].user
      BY <2>1, LinkedStay
    <2>3. Committed(u)'
      BY <2>1, <2>2, LinkedStay
    <2> QED BY <2>1, <2>2, <2>3
  <1> QED BY <1>1, GapsKept

LEMMA InsertLinkGaps ==
    ASSUME IInv, GapInv, [Next]_vars, NEW s \in SignIns, InsertLink(s)
    PROVE  GapInv'
  <1>1. PICK p \in Profiles, u \in Ids, i \in Identities :
           p = sso[s].profile /\ u = sso[s].user /\ i = p.identity
    BY SsoShape, ProfileShape DEF InsertLink, SsoIs
  <1> DEFINE link == [user |-> u, tx |-> s]
             state == [stage |-> "read_user", identity |-> i, user |-> u,
                       snapshot |-> sso[s].suspended]
  <1>2. /\ sso[s].stage = "link"
        /\ links' = [links EXCEPT ![i] = link]
        /\ sso' = [sso EXCEPT ![s] = state]
    BY <1>1 DEF InsertLink, SsoIs, SsoSet
  <1>3. GapHolders(i) \ {s} = {}
    BY <1>1 DEF InsertLink
  <1>4. Committed(u)'
    <2>1. s \in Linking
      BY <1>2 DEF Linking, SsoIs
    <2>2. Committed(u)
      BY <1>1, <2>1 DEF GapInv
    <2> QED BY <2>2, CommittedStays
  <1>5. links'[i] = link /\ \A j \in Identities : j # i => links'[j] = links[j]
    BY <1>2 DEF IInv, TypeOK
  <1>6. ASSUME NEW j \in Identities, Linked(j)'
        PROVE  Committed(links[j].user)'
    <2>1. CASE j = i
      BY <1>4, <1>5, <2>1
    <2>2. CASE j # i
      <3>1. Linked(j) /\ links'[j] = links[j]
        BY <1>5, <1>6, <2>2 DEF Linked
      <3>2. PICK v \in Ids : v = links[j].user
        BY <3>1, LinkedStay
      <3>3. Committed(v)'
        BY <3>1, <3>2, LinkedStay
      <3> QED BY <3>1, <3>2, <3>3
    <2> QED BY <2>1, <2>2
  <1>7. ASSUME NEW j \in Identities, Linked(j)'
        PROVE  Linked(j) \/ \A t \in SignIns : t # s => t \notin GapHolders(j)
    BY <1>3, <1>5, <1>7 DEF Linked
  <1>8. state.stage = "read_user"
    OBVIOUS
  <1> HIDE DEF state, link
  <1> QED BY <1>2, <1>6, <1>7, <1>8, GapsKept

LEMMA CommitLinkLinks ==
    ASSUME IInv, NEW s \in SignIns, CommitLink(s)
    PROVE  \E i \in Identities :
              /\ Holding(s, i) /\ Linked(i) /\ links'[i] = [user |-> links[i].user, tx |-> None]
              /\ \A j \in Identities : j # i => links'[j] = links[j]
  <1>1. PICK i \in Identities : i = sso[s].identity
    BY SsoShape DEF CommitLink, SsoIs
  <1>2. Holding(s, i)
    BY <1>1 DEF CommitLink, SsoIs, Holding
  <1>3. Linked(i)
    BY <1>2 DEF IInv, LinkInv
  <1>4. links' = [links EXCEPT ![i] = [user |-> links[i].user, tx |-> None]]
    BY <1>1 DEF CommitLink
  <1> QED BY <1>2, <1>3, <1>4 DEF IInv, TypeOK

\* What a sign-in becomes, for the steps that are not about gaps.
LEMMA LeavesGaps ==
    ASSUME NEW s \in SignIns, NEW state, SsoSet(s, state),
           state.stage \notin {"find_user", "link"}
    PROVE  \E to : sso' = [sso EXCEPT ![s] = to] /\ to.stage \notin {"find_user", "link"}
  BY DEF SsoSet

LEMMA EndLeavesGaps ==
    ASSUME NEW s \in SignIns, NEW answer, NEW i, NEW u, SsoEnd(s, answer, i, u)
    PROVE  \E to : sso' = [sso EXCEPT ![s] = to] /\ to.stage \notin {"find_user", "link"}
  <1> DEFINE state == [stage |-> "done", answer |-> answer, identity |-> i, user |-> u]
  <1>1. SsoSet(s, state) /\ state.stage = "done"
    BY DEF SsoEnd
  <1> HIDE DEF state
  <1> QED BY <1>1, LeavesGaps

LEMMA AwayFromGaps ==
    ASSUME NEW s \in SignIns,
           Redirect(s) \/ DeadlockVictim(s) \/ FailSignIn(s) \/ CommitLink(s) \/ ReadUser(s)
             \/ FindLinked(s) \/ \E p \in Profiles : Verify(s, p)
    PROVE  \E to : sso' = [sso EXCEPT ![s] = to] /\ to.stage \notin {"find_user", "link"}
  <1>1. CASE Redirect(s)
    <2>1. SsoIdle.stage = "idle"
      BY DEF SsoIdle
    <2> QED BY <1>1, <2>1, LeavesGaps DEF Redirect
  <1>2. CASE DeadlockVictim(s) \/ FailSignIn(s) \/ CommitLink(s)
    BY <1>2, EndLeavesGaps DEF DeadlockVictim, FailSignIn, CommitLink
  <1>3. CASE ReadUser(s)
    <2> DEFINE u == sso[s].user
               seen == sso[s].snapshot
               state == [stage |-> "commit", identity |-> sso[s].identity, user |-> u,
                         suspended |-> IF seen = None THEN Suspended(u) ELSE seen]
    <2>1. SsoSet(s, state) /\ state.stage = "commit"
      BY <1>3 DEF ReadUser
    <2> HIDE DEF state
    <2> QED BY <2>1, LeavesGaps
  <1>4. CASE FindLinked(s)
    <2> DEFINE state == [stage |-> "read_user", identity |-> sso[s].profile.identity,
                         user |-> UserOf(sso[s].profile), snapshot |-> None]
    <2>1. SsoSet(s, state) /\ state.stage = "read_user"
      BY <1>4 DEF FindLinked
    <2> HIDE DEF state
    <2> QED BY <2>1, LeavesGaps
  <1>5. ASSUME NEW p \in Profiles, Verify(s, p)
        PROVE  \E to : sso' = [sso EXCEPT ![s] = to] /\ to.stage \notin {"find_user", "link"}
    <2> DEFINE state == [stage |-> "verified", profile |-> p]
    <2>1. SsoSet(s, state) /\ state.stage = "verified"
      BY <1>5 DEF Verify
    <2> HIDE DEF state
    <2> QED BY <2>1, LeavesGaps
  <1> QED BY <1>1, <1>2, <1>3, <1>4, <1>5

\* Each of them links nobody.
LEMMA FewerLinks ==
    ASSUME NEW actors, links' = WithoutLinksOf(actors), NEW i \in Identities, Linked(i)'
    PROVE  Linked(i) /\ links'[i] = links[i]
  BY DEF WithoutLinksOf, Linked

LEMMA AwayLinksNobody ==
    ASSUME IInv, NEW s \in SignIns,
           Redirect(s) \/ DeadlockVictim(s) \/ FailSignIn(s) \/ CommitLink(s) \/ ReadUser(s)
             \/ FindLinked(s) \/ \E p \in Profiles : Verify(s, p),
           NEW i \in Identities, Linked(i)'
    PROVE  Linked(i) /\ links'[i].user = links[i].user
  <1>1. CASE UNCHANGED links
    BY <1>1 DEF Linked
  <1>2. CASE FailSignIn(s)
    BY <1>2, FewerLinks DEF FailSignIn
  <1>3. CASE CommitLink(s)
    <2>1. PICK j \in Identities :
             /\ Linked(j) /\ links'[j] = [user |-> links[j].user, tx |-> None]
             /\ \A k \in Identities : k # j => links'[k] = links[k]
      BY <1>3, CommitLinkLinks
    <2>2. CASE i = j
      BY <2>1, <2>2
    <2>3. CASE i # j
      BY <2>1, <2>3 DEF Linked
    <2> QED BY <2>2, <2>3
  <1> QED BY <1>1, <1>2, <1>3
          DEF Redirect, DeadlockVictim, ReadUser, FindLinked, Verify

LEMMA FindUnlinkedGaps ==
    ASSUME IInv, GapInv, [Next]_vars, NEW s \in SignIns, FindUnlinked(s)
    PROVE  GapInv'
  <1> DEFINE p == sso[s].profile
             state == [stage |-> "find_user", profile |-> p]
  <1>1. ~Linked(p.identity) /\ UNCHANGED links /\ sso' = [sso EXCEPT ![s] = state]
    BY DEF FindUnlinked, SsoSet
  <1>2. state.stage = "find_user" /\ state.profile = p
    OBVIOUS
  <1>3. \A i \in Identities : Linked(i)' => Linked(i) /\ Committed(links[i].user)'
    <2> SUFFICES ASSUME NEW i \in Identities, Linked(i)'
                 PROVE  Linked(i) /\ Committed(links[i].user)'
      OBVIOUS
    <2>1. Linked(i) /\ links' = links
      BY <1>1 DEF Linked
    <2>2. PICK u \in Ids : u = links[i].user
      BY <2>1, LinkedStay
    <2>3. Committed(u)'
      BY <2>1, <2>2, LinkedStay
    <2> QED BY <2>1, <2>2, <2>3
  <1> HIDE DEF state
  <1> QED BY <1>1, <1>2, <1>3, GapsKept DEF Linked

LEMMA FindUserToLinkGaps ==
    ASSUME IInv, GapInv, [Next]_vars, NEW s \in SignIns, FindUserToLink(s)
    PROVE  GapInv'
  <1>0. UNCHANGED <<users, links>> /\ sso[s].stage = "find_user"
    BY DEF FindUserToLink, SsoIs
  <1>1. CASE SsoEnd(s, "not_associated", None, None)
    <2>1. PICK to : sso' = [sso EXCEPT ![s] = to] /\ to.stage \notin {"find_user", "link"}
      BY <1>1, EndLeavesGaps
    <2> QED BY <1>0, <2>1, NoNewLink DEF Linked
  <1>2. ASSUME NEW id \in Ids, Committed(id),
               SsoSet(s, [stage |-> "link", profile |-> sso[s].profile, user |-> id,
                          suspended |-> Suspended(id)])
        PROVE  GapInv'
    <2> DEFINE p == sso[s].profile
               state == [stage |-> "link", profile |-> p, user |-> id,
                         suspended |-> Suspended(id)]
    <2>1. sso' = [sso EXCEPT ![s] = state]
      BY <1>2 DEF SsoSet
    <2>2. state.stage = "link" /\ state.profile = p /\ state.user = id
      OBVIOUS
    <2>3. \A i \in Identities : p.identity = i => ~Linked(i)'
      BY <1>0, GapHolder DEF GapInv, Linked
    <2>4. \A i \in Identities : Linked(i)' => Linked(i) /\ Committed(links[i].user)'
      <3> SUFFICES ASSUME NEW i \in Identities, Linked(i)'
                   PROVE  Linked(i) /\ Committed(links[i].user)'
        OBVIOUS
      <3>1. Linked(i)
        BY <1>0 DEF Linked
      <3> QED BY <1>0, <3>1, LinkedStay DEF Committed, Exists
    <2>5. Committed(id)'
      BY <1>0, <1>2 DEF Committed, Exists
    <2> HIDE DEF state
    <2> QED BY <2>1, <2>2, <2>3, <2>4, <2>5, GapsKept
  <1> QED BY <1>1, <1>2 DEF FindUserToLink

LEMMA GapsAlone ==
    ASSUME IInv, GapInv, [Next]_vars, UNCHANGED <<links, sso>>
    PROVE  GapInv'
  <1>1. ASSUME NEW i \in Identities, Linked(i)'
        PROVE  Committed(links[i].user)' /\ GapHolders(i)' = {}
    <2>1. Linked(i) /\ GapHolders(i)' = GapHolders(i)
      BY <1>1 DEF Linked, GapHolders
    <2>2. PICK u \in Ids : u = links[i].user
      BY <2>1, LinkedStay
    <2>3. Committed(u)'
      BY <2>1, <2>2, LinkedStay
    <2> QED BY <2>1, <2>2, <2>3 DEF GapInv
  <1>2. ASSUME NEW s \in Linking'
        PROVE  Committed(sso[s].user)'
    <2>1. s \in Linking /\ s \in SignIns /\ sso[s].stage = "link"
      BY <1>2 DEF Linking, SsoIs
    <2>2. PICK u \in Ids : u = sso[s].user
      BY <2>1, SsoShape
    <2>3. Committed(u)
      BY <2>1, <2>2 DEF GapInv
    <2>4. Committed(u)'
      BY <2>3, CommittedStays
    <2> QED BY <2>2, <2>4
  <1> QED BY <1>1, <1>2 DEF GapInv

LEMMA CrashGaps ==
    ASSUME IInv, GapInv, [Next]_vars, Crash
    PROVE  GapInv'
  <1>1. \A i \in Identities : GapHolders(i)' = {}
    BY DEF Crash, GapHolders, SsoIdle
  <1>2. Linking' = {}
    BY DEF Crash, Linking, SsoIs, SsoIdle
  <1>3. ASSUME NEW i \in Identities, Linked(i)'
        PROVE  Committed(links[i].user)'
    <2>1. Linked(i) /\ links'[i] = links[i]
      BY <1>3, FewerLinks DEF Crash
    <2>2. PICK u \in Ids : u = links[i].user
      BY <2>1, LinkedStay
    <2>3. Committed(u)'
      BY <2>1, <2>2, LinkedStay
    <2> QED BY <2>1, <2>2, <2>3
  <1> QED BY <1>1, <1>2, <1>3 DEF GapInv

LEMMA GapStep ==
    ASSUME IInv, GapInv, [Next]_vars
    PROVE  GapInv'
  <1>1. ASSUME NEW s \in SignIns, Social(s)
        PROVE  GapInv'
    <2>1. CASE Redirect(s) \/ DeadlockVictim(s) \/ FailSignIn(s) \/ CommitLink(s) \/ ReadUser(s)
                 \/ FindLinked(s) \/ \E p \in Profiles : Verify(s, p)
      <3>1. PICK to : sso' = [sso EXCEPT ![s] = to] /\ to.stage \notin {"find_user", "link"}
        BY <2>1, AwayFromGaps
      <3>2. \A i \in Identities : Linked(i)' => Linked(i) /\ links'[i].user = links[i].user
        BY <2>1, AwayLinksNobody
      <3> QED BY <3>1, <3>2, NoNewLink
    <2> QED BY <1>1, <2>1, FindUnlinkedGaps, FindUserToLinkGaps, InsertLinkGaps
            DEF Social, SignInStep
  <1>2. CASE (\E r \in Requests : Account(r)) \/ Migration \/ Staff \/ UNCHANGED vars
    BY <1>2, GapsAlone DEF Account, Migration, Staff, vars
  <1> QED BY <1>1, <1>2, CrashGaps DEF Next

-----------------------------------------------------------------------------
LEMMA KeyInit == Init => UniqueKeys /\ NewRowsKept /\ GapInv
  BY DEF Init, UsersInit, LinkInit, UniqueKeys, NewRowsKept, GapInv, Exists, Linked, Linking, SsoIs, SsoIdle

LEMMA KeyNext == KeyInv /\ [Next]_vars => KeyInv'
  BY NextInv, KeysStep, NewRowsStep, GapStep DEF KeyInv

LEMMA KeyInvariance == Spec => []KeyInv
  <1>1. Init => KeyInv
    BY InitInv, KeyInit DEF KeyInv
  <1> QED BY <1>1, KeyNext, PTL DEF Spec

-----------------------------------------------------------------------------
(* Transactions end with their actors, and rows keep to their keys.        *)

LEMMA RowOwnersWork ==
    ASSUME IInv, NEW id \in Ids, Exists(id), ~Committed(id)
    PROVE  /\ users[id].tx \in AtWork
           /\ \A other \in Ids : Exists(other) /\ users[other].tx = users[id].tx => other = id
  <1>1. users[id].tx # None /\ RowInv(id)
    BY DEF IInv, Committed
  <1>2. CASE users[id].tx \in Requests /\ RegHolds(users[id].tx, id)
    <2>1. users[id].tx \in AtWork
      BY <1>2 DEF RegHolds, AtWork
    <2>2. ASSUME NEW other \in Ids, Exists(other), users[other].tx = users[id].tx
          PROVE  other = id
      <3>1. RowInv(other)
        BY <2>2 DEF IInv
      <3> QED BY <1>1, <1>2, <2>2, <3>1, PortalAssumption DEF RowInv, RegHolds
    <2> QED BY <2>1, <2>2
  <1>3. CASE users[id].tx = Backfill /\ MigHolds(id)
    <2>1. users[id].tx \in AtWork
      BY <1>3 DEF MigHolds, AtWork, Migrating
    <2>2. ASSUME NEW other \in Ids, Exists(other), users[other].tx = users[id].tx
          PROVE  other = id
      <3>1. RowInv(other)
        BY <2>2 DEF IInv
      <3> QED BY <1>1, <1>3, <2>2, <3>1, PortalAssumption DEF RowInv, MigHolds
    <2> QED BY <2>1, <2>2
  <1> QED BY <1>1, <1>2, <1>3 DEF RowInv

LEMMA LinkOwnersWork ==
    ASSUME IInv, NEW i \in Identities, Linked(i), links[i].tx # None
    PROVE  /\ links[i].tx \in AtWork
           /\ \A j \in Identities : Linked(j) /\ links[j].tx = links[i].tx => j = i
  <1>1. links[i].tx \in SignIns
    BY DEF IInv, TypeOK, Linked, Links
  <1>2. \A j \in Identities : Linked(j) => links[j].tx = None \/ Holding(links[j].tx, j)
    BY DEF IInv, LinkInv
  <1> QED BY <1>1, <1>2 DEF Holding, AtWork

\* Whatever fails, dies or loses its acknowledgement, no row, key or link stays
\* locked by a transaction whose request, sign-in or run is over.
THEOREM LocksEnd == Spec => []NoLockLeftBehind
  <1>1. IInv => NoLockLeftBehind
    BY RowOwnersWork, LinkOwnersWork DEF NoLockLeftBehind
  <1> QED BY <1>1, Invariance, PTL

\* No two rows share a member id or an address, uncommitted and deleted ones
\* included, under any interleaving of those who insert and readdress them.
THEOREM KeysUnique == Spec => []UniqueKeys
  <1>1. KeyInv => UniqueKeys
    BY DEF KeyInv
  <1> QED BY <1>1, KeyInvariance, PTL

-----------------------------------------------------------------------------
(* The steps of the portal, as seen from the directory.                    *)

Table  == [id \in Ids |-> Seen(id)]
LinkTable == [i \in Identities |-> LinkSeen(i)]

\* What is shown of a row, before and after a step.
LEMMA ShownTyped ==
    ASSUME NEW row \in Rows(Actors)
    PROVE  /\ Shown(row) \in Directory!Accounts /\ Shown(row) # None
           /\ Shown(row).email = row.email /\ Shown(row).member = row.member
           /\ Shown(row).status = row.status /\ Shown(row).deleted = row.deleted
           /\ Shown(row).cred = row.cred
  <1>1. Shown(row) \in Directory!Accounts
    BY DEF Shown, Rows, Directory!Accounts
  <1> QED BY <1>1, AccountAssumption DEF Shown

LEMMA SeenNow ==
    ASSUME IInv, NEW id \in Ids
    PROVE  /\ Committed(id) => users[id] \in Rows(Actors) /\ Seen(id) = Shown(users[id])
           /\ ~Committed(id) => Seen(id) = None
           /\ Seen(id) # None <=> Committed(id)
  BY UsersTyped, RowShape, ShownTyped DEF Seen, Committed

LEMMA SeenThen ==
    ASSUME IInv', NEW id \in Ids
    PROVE  /\ Committed(id)' => users'[id] \in Rows(Actors) /\ Seen(id)' = Shown(users'[id])
           /\ ~Committed(id)' => Seen(id)' = None
           /\ Seen(id)' # None <=> Committed(id)'
  <1>1. users'[id] \in Rows(Actors) \cup {None}
    BY DEF IInv, TypeOK, Actors
  <1> QED BY <1>1, ShownTyped DEF Seen, Committed, Exists

LEMMA TableAt ==
    ASSUME NEW id \in Ids
    PROVE  Table[id] = Seen(id) /\ Table'[id] = Seen(id)'
  BY DEF Table

LEMMA SameTable ==
    ASSUME \A id \in Ids : Seen(id)' = Seen(id)
    PROVE  Table' = Table
  BY DEF Table

LEMMA OneSeen ==
    ASSUME NEW id \in Ids, \A i \in Ids : i # id => Seen(i)' = Seen(i)
    PROVE  /\ Table' = [Table EXCEPT ![id] = Seen(id)']
           /\ Table' = Table \/ Table'[id] # Table[id]
  BY DEF Table

LEMMA SeenAlike ==
    ASSUME NEW id \in Ids, users'[id] = users[id]
    PROVE  Seen(id)' = Seen(id)
  BY DEF Seen, Committed, Exists

\* A committed row is a new account, under keys nobody else has.
LEMMA Enrolled ==
    ASSUME KeyInv, IInv', CommittedNow, LinkTable' = LinkTable
    PROVE  \E id \in Ids : Table'[id] # Table[id] /\ Directory!Enrol(id)
  <1> USE DEF KeyInv
  <1>1. PICK id \in Ids :
           Exists(id) /\ users[id].tx # None /\ users[id].cred /\ CommitRow(id)
    BY DEF CommittedNow
  <1>2. /\ ~Committed(id) /\ Committed(id)' /\ ~users[id].deleted
        /\ \A i \in Ids : i # id => users'[i] = users[i]
    BY <1>1, CommittedRow, OneRow DEF Committed, NewRowsKept
  <1> DEFINE a == Seen(id)'
  <1>3. Table' = [Table EXCEPT ![id] = a] /\ Table'[id] = a /\ Table[id] = None
    BY <1>2, SeenAlike, OneSeen, TableAt, SeenNow
  <1>4. /\ a # None /\ a \in Directory!Accounts /\ a.cred /\ ~a.deleted
        /\ a.email = users[id].email /\ a.member = users[id].member
    <2>1. a = Shown(users'[id]) /\ users'[id] \in Rows(Actors)
      BY <1>2, SeenThen
    <2>2. /\ users'[id].cred = users[id].cred /\ users'[id].deleted = users[id].deleted
          /\ users'[id].email = users[id].email /\ users'[id].member = users[id].member
      BY <1>1, CommittedRow
    <2> HIDE DEF a
    <2> QED BY <1>1, <1>2, <2>1, <2>2, ShownTyped
  <1> HIDE DEF a
  <1>5. ASSUME NEW i \in Ids, i # id, Table[i] # None
        PROVE  Table[i].member # a.member /\ (a.email # None => Table[i].email # a.email)
    <2>1. Committed(i)
      BY <1>5, TableAt, SeenNow
    <2>2. Table[i].member = users[i].member /\ Table[i].email = users[i].email
      BY <2>1, TableAt, SeenNow, ShownTyped
    <2> QED BY <1>1, <1>4, <1>5, <2>1, <2>2 DEF UniqueKeys, Committed
  <1>6. Directory!Enrol(id)
    BY <1>3, <1>4, <1>5
       DEF Directory!Enrol, Directory!Known, Directory!EmailFree, Directory!MemberFree,
           Table, LinkTable
  <1> QED BY <1>3, <1>4, <1>6

LEMMA EmailChanged ==
    ASSUME KeyInv, IInv', Readdressed, LinkTable' = LinkTable
    PROVE  Table' = Table \/
           \E id \in Ids : Table'[id] # Table[id] /\ Directory!ChangeEmail(id)
  <1> USE DEF KeyInv
  <1>1. PICK id \in Ids, e \in Emails :
           /\ Committed(id) /\ ~users[id].deleted /\ EmailRivals(e, id) = {}
           /\ RowIs(id, [users[id] EXCEPT !.email = e])
    BY DEF Readdressed
  <1>2. Committed(id)' /\ \A i \in Ids : i # id => users'[i] = users[i]
    BY <1>1, ReaddressedRow, OneRow
  <1>3. Seen(id)' = [Seen(id) EXCEPT !.email = e] /\ Seen(id)'.email = e
    <2>1. Seen(id)' = Shown(users'[id]) /\ Seen(id) = Shown(users[id])
      BY <1>1, <1>2, SeenNow, SeenThen
    <2> QED BY <1>1, <2>1, ReaddressedRow DEF Shown
  <1>4. Seen(id) # None /\ ~Seen(id).deleted
    BY <1>1, SeenNow, ShownTyped
  <1>5. /\ Table' = [Table EXCEPT ![id] = Seen(id)']
        /\ Table' = Table \/ Table'[id] # Table[id]
    BY <1>2, SeenAlike, OneSeen
  <1>6. ASSUME NEW i \in Ids \ {id}, Table[i] # None
        PROVE  Table[i].email # e
    <2>1. Committed(i)
      BY <1>6, TableAt, SeenNow
    <2>2. Table[i].email = users[i].email
      BY <2>1, TableAt, SeenNow, ShownTyped
    <2> QED BY <1>1, <1>6, <2>1, <2>2, PortalAssumption DEF EmailRivals, Committed
  <1>7. Directory!ChangeEmail(id)
    <2>1. Table' = [Table EXCEPT ![id].email = e] /\ Table'[id].email = e
      BY <1>3, <1>5, TableAt DEF Table
    <2>2. Table[id] # None /\ ~Table[id].deleted
      BY <1>4, TableAt
    <2> QED BY <1>6, <2>1, <2>2
            DEF Directory!ChangeEmail, Directory!Known, Directory!EmailFree, Table, LinkTable
  <1> QED BY <1>5, <1>7

LEMMA StaffSeen ==
    ASSUME KeyInv, IInv', NEW id \in Ids, StaffUpdate(id), LinkTable' = LinkTable
    PROVE  \/ Table' = Table
           \/ Table'[id] # Table[id] /\ (Directory!Suspend(id) \/ Directory!Remove(id))
  <1> USE DEF KeyInv
  <1>1. Committed(id) /\ Committed(id)' /\ \A i \in Ids : i # id => users'[i] = users[i]
    BY StaffRow
  <1>2. Seen(id)' = Shown(users'[id]) /\ Seen(id) = Shown(users[id]) /\ Seen(id) # None
    BY <1>1, SeenNow, SeenThen
  <1>3. \/ Seen(id)' = [Seen(id) EXCEPT !.status = "suspended"]
        \/ Seen(id)' = [Seen(id) EXCEPT !.deleted = TRUE]
    <2>1. /\ users'[id].member = users[id].member /\ users'[id].email = users[id].email
          /\ users'[id].cred = users[id].cred
      BY StaffRow
    <2>2. CASE users'[id].status = "suspended" /\ users'[id].deleted = users[id].deleted
      BY <1>2, <2>1, <2>2 DEF Shown
    <2>3. CASE users'[id].deleted = TRUE /\ users'[id].status = users[id].status
      <3> DEFINE gone == TRUE
      <3>1. users'[id].deleted = gone /\ users'[id].status = users[id].status
        BY <2>3
      <3> HIDE DEF gone
      <3>2. Seen(id)' = [Seen(id) EXCEPT !.deleted = gone]
        BY <1>2, <2>1, <3>1 DEF Shown
      <3> QED BY <3>2 DEF gone
    <2> QED BY <2>2, <2>3, StaffRow
  <1>4. /\ Table' = [Table EXCEPT ![id] = Seen(id)']
        /\ Table' = Table \/ Table'[id] # Table[id]
    BY <1>1, SeenAlike, OneSeen
  <1>5. \/ Table' = [Table EXCEPT ![id].status = "suspended"]
        \/ Table' = [Table EXCEPT ![id].deleted = TRUE]
    BY <1>3, <1>4 DEF Table
  <1>6. Table[id] # None
    BY <1>2, TableAt
  <1>7. Directory!Suspend(id) \/ Directory!Remove(id)
    BY <1>5, <1>6 DEF Directory!Suspend, Directory!Remove, Directory!Known, Table, LinkTable
  <1> QED BY <1>4, <1>7

\* What a transaction does to the table before it commits is not seen.
LEMMA UnseenSteps ==
    ASSUME IInv, IInv', UNCHANGED users \/ Inserted \/ Paired \/ Retracted
    PROVE  Table' = Table
  <1> SUFFICES ASSUME NEW i \in Ids
               PROVE  Seen(i)' = Seen(i)
    BY SameTable
  <1>1. CASE UNCHANGED users
    BY <1>1, SeenAlike
  <1>2. CASE Inserted
    <2>1. PICK id \in Ids, e \in Emails \cup {None}, m \in Members, st \in Statuses,
               a \in Actors : InsertRow(id, Row(e, m, st, a))
      BY <1>2 DEF Inserted
    <2>2. ~Committed(id) /\ ~Committed(id)' /\ \A j \in Ids : j # id => users'[j] = users[j]
      BY <2>1, InsertedRow, OneRow DEF Committed
    <2> QED BY <2>2, SeenAlike, SeenNow, SeenThen
  <1>3. CASE Paired
    <2>1. PICK id \in Ids : Exists(id) /\ users[id].tx # None /\ InsertCredRow(id)
      BY <1>3 DEF Paired
    <2>2. ~Committed(id) /\ ~Committed(id)' /\ \A j \in Ids : j # id => users'[j] = users[j]
      BY <2>1, PairedRow, OneRow DEF Committed
    <2> QED BY <2>2, SeenAlike, SeenNow, SeenThen
  <1>4. CASE Retracted
    <2>1. Committed(i)' <=> Committed(i)
      BY <1>4, RetractedRows DEF Retracted
    <2>2. CASE Committed(i)
      <3>1. users'[i] = users[i]
        BY <1>4, <2>1, <2>2, RetractedRows DEF Retracted, Committed
      <3> QED BY <3>1, SeenAlike
    <2>3. CASE ~Committed(i)
      BY <2>1, <2>3, SeenNow, SeenThen
    <2> QED BY <2>2, <2>3
  <1> QED BY <1>1, <1>2, <1>3, <1>4

TableMove ==
    Table' = Table \/
    \E id \in Ids :
        /\ Table'[id] # Table[id]
        /\ Directory!Enrol(id) \/ Directory!ChangeEmail(id)
           \/ Directory!Suspend(id) \/ Directory!Remove(id)

LEMMA TableSeen ==
    ASSUME KeyInv, IInv', [Next]_vars, LinkTable' = LinkTable
    PROVE  TableMove
  <1> USE DEF KeyInv
  <1>1. CASE \E id \in Ids : StaffUpdate(id)
    BY <1>1, StaffSeen DEF TableMove
  <1>2. CASE CommittedNow
    BY <1>2, Enrolled DEF TableMove
  <1>3. CASE Readdressed
    BY <1>3, EmailChanged DEF TableMove
  <1> QED BY <1>1, <1>2, <1>3, UnseenSteps, TableSteps DEF TableStep, TableMove

-----------------------------------------------------------------------------
\* The links, as seen from the directory.
LEMMA LinkSeenAlike ==
    ASSUME NEW i \in Identities, links'[i] = links[i]
    PROVE  LinkSeen(i)' = LinkSeen(i)
  BY DEF LinkSeen, Linked

LEMMA SameLinks ==
    ASSUME \A i \in Identities : LinkSeen(i)' = LinkSeen(i)
    PROVE  LinkTable' = LinkTable
  BY DEF LinkTable

\* A rollback takes back only what was not seen.
LEMMA TakenBack ==
    ASSUME NEW actors \in SUBSET SignIns, links' = WithoutLinksOf(actors)
    PROVE  LinkTable' = LinkTable
  <1>1. ASSUME NEW i \in Identities
        PROVE  LinkSeen(i)' = LinkSeen(i)
    <2>1. links'[i] = IF Linked(i) /\ links[i].tx \in actors THEN None ELSE links[i]
      BY DEF WithoutLinksOf
    <2>2. None \notin actors
      BY PortalAssumption
    <2> QED BY <2>1, <2>2 DEF LinkSeen, Linked
  <1> QED BY <1>1, SameLinks

LEMMA InsertUnseen ==
    ASSUME IInv, NEW s \in SignIns, InsertLink(s)
    PROVE  LinkTable' = LinkTable
  <1>1. PICK i \in Identities :
           ~Linked(i) /\ links' = [links EXCEPT ![i] = [user |-> sso[s].user, tx |-> s]]
    BY SsoShape, ProfileShape DEF InsertLink, SsoIs
  <1>2. /\ links'[i].tx = s /\ s # None
        /\ \A j \in Identities : j # i => links'[j] = links[j]
    BY <1>1, PortalAssumption DEF IInv, TypeOK
  <1>3. LinkSeen(i)' = LinkSeen(i)
    BY <1>1, <1>2 DEF LinkSeen
  <1> QED BY <1>2, <1>3, LinkSeenAlike, SameLinks

LEMMA LinkCommitted ==
    ASSUME KeyInv, NEW s \in SignIns, CommitLink(s), Table' = Table
    PROVE  LinkTable' = LinkTable \/
           \E i \in Identities : LinkTable'[i] # LinkTable[i] /\ Directory!Link(i)
  <1> USE DEF KeyInv
  <1>1. PICK i \in Identities :
           /\ Linked(i) /\ links'[i] = [user |-> links[i].user, tx |-> None]
           /\ \A j \in Identities : j # i => links'[j] = links[j]
    BY CommitLinkLinks
  <1>2. PICK u \in Ids : u = links[i].user /\ Committed(u)
    <2>1. links[i] \in Links
      BY <1>1 DEF IInv, TypeOK, Linked
    <2> QED BY <1>1, <2>1 DEF GapInv, Links
  <1>3. links'[i] # None
    <2>1. links'[i] \in Links
      BY <1>1, <1>2, PortalAssumption DEF Links
    <2> QED BY <2>1, LinksExist
  <1>4. LinkSeen(i)' = u /\ u # None
    BY <1>1, <1>2, <1>3, PortalAssumption DEF LinkSeen, Linked
  <1>5. CASE links[i].tx = None
    <2>1. LinkSeen(i)' = LinkSeen(i)
      BY <1>1, <1>2, <1>4, <1>5 DEF LinkSeen
    <2> QED BY <1>1, <2>1, LinkSeenAlike, SameLinks
  <1>6. CASE links[i].tx # None
    <2>1. LinkTable[i] = None /\ LinkTable'[i] = u
      BY <1>4, <1>6 DEF LinkTable, LinkSeen
    <2>2. LinkTable' = [LinkTable EXCEPT ![i] = u]
      BY <1>1, <1>4, LinkSeenAlike DEF LinkTable
    <2>3. Table[u] # None
      BY <1>2, TableAt, SeenNow
    <2>4. Directory!Link(i)
      BY <1>4, <2>1, <2>2, <2>3 DEF Directory!Link, Directory!Known, Table, LinkTable
    <2> QED BY <1>4, <2>1, <2>4
  <1> QED BY <1>5, <1>6

LEMMA SocialSeen ==
    ASSUME KeyInv, NEW s \in SignIns, Social(s), Table' = Table
    PROVE  LinkTable' = LinkTable \/
           \E i \in Identities : LinkTable'[i] # LinkTable[i] /\ Directory!Link(i)
  <1> USE DEF KeyInv
  <1>1. CASE FailSignIn(s)
    BY <1>1, TakenBack DEF FailSignIn
  <1>2. CASE InsertLink(s)
    BY <1>2, InsertUnseen
  <1>3. CASE CommitLink(s)
    BY <1>3, LinkCommitted
  <1>4. CASE UNCHANGED links
    BY <1>4, LinkSeenAlike, SameLinks
  <1> QED BY <1>1, <1>2, <1>3, <1>4
          DEF Social, SignInStep, Verify, FindLinked, FindUnlinked, FindUserToLink,
              DeadlockVictim, ReadUser, Redirect

LEMMA DirectoryInit == Init => Directory!Init
  BY DEF Init, UsersInit, LinkInit, Directory!Init, Seen, LinkSeen, Committed, Exists, Linked

LEMMA DirectoryNext ==
    ASSUME KeyInv, IInv', [Next]_vars
    PROVE  [Directory!Next]_(Directory!vars)
  <1> USE DEF KeyInv
  <1>1. ASSUME LinkTable' = LinkTable
        PROVE  [Directory!Next]_(Directory!vars)
    <2>1. TableMove
      BY <1>1, TableSeen
    <2> QED BY <1>1, <2>1 DEF TableMove, Directory!Next, Directory!vars, Table, LinkTable
  <1>2. ASSUME NEW s \in SignIns, Social(s)
        PROVE  [Directory!Next]_(Directory!vars)
    <2>1. Table' = Table
      BY <1>2, SocialTable, UnseenSteps
    <2>2. \/ LinkTable' = LinkTable
          \/ \E i \in Identities : LinkTable'[i] # LinkTable[i] /\ Directory!Link(i)
      BY <1>2, <2>1, SocialSeen
    <2> QED BY <1>1, <2>2 DEF Directory!Next, LinkTable
  <1>3. CASE Crash
    BY <1>1, <1>3, TakenBack DEF Crash
  <1>4. CASE UNCHANGED links
    BY <1>1, <1>4, LinkSeenAlike, SameLinks
  <1> QED BY <1>2, <1>3, <1>4 DEF Next, Account, Migration, Staff, vars

\* Registrations, profile edits, the backfill, social sign-ins, staff and crashes,
\* interleaved statement by statement, are seen as single steps on a directory:
\* an account appears whole and under free keys, and an identity is linked once,
\* to an account that is there.
THEOREM DirectoryImplemented == Spec => ImplementsDirectory
  <1>1. KeyInv /\ KeyInv' /\ [Next]_vars => [Directory!Next]_(Directory!vars)
    BY DirectoryNext DEF KeyInv
  <1> QED BY <1>1, DirectoryInit, KeyInvariance, PTL DEF Spec, ImplementsDirectory, Directory!Spec
=============================================================================
