-------------------------- MODULE CredentialsProofs --------------------------
(***************************************************************************)
(* Proofs about Credentials, for any number of requests and passwords: how *)
(* many changes a replaced password may still pay for, and that an address *)
(* and a preference that were saved or read alone belong together.         *)
(***************************************************************************)
EXTENDS Credentials, FiniteSetTheorems, TLAPS

LEMMA RequestsNat == Cardinality(Requests) \in Nat
  BY FS_CardinalityType, CredentialsAssumption

\* The requests that have proved a password are finitely many, and no more than
\* there are requests.
LEMMA ProvingCount ==
    ASSUME NEW p
    PROVE  /\ IsFiniteSet(Proving(p)) /\ Cardinality(Proving(p)) \in Nat
           /\ Cardinality(Proving(p)) <= Cardinality(Requests)
  <1>1. Proving(p) \in SUBSET Requests
    BY DEF Proving
  <1> QED BY <1>1, FS_Subset, FS_CardinalityType, CredentialsAssumption

LEMMA CallShape ==
    ASSUME TypeOK, NEW r \in Requests
    PROVE  /\ Is(r, "changing") => req[r].proved \in Hashes
           /\ Is(r, "saving") => req[r].settings \in Settings /\ req[r].alone \in BOOLEAN
           /\ Is(r, "getting") =>
                 req[r].address \in Addresses \cup {None} /\ req[r].alone \in BOOLEAN
  <1>1. req[r] \in Calls
    BY DEF TypeOK
  <1> QED BY <1>1 DEF Calls, Is, Idle

LEMMA CallSet ==
    ASSUME TypeOK, NEW r \in Requests, NEW call \in Calls, req' = [req EXCEPT ![r] = call]
    PROVE  /\ req' \in [Requests -> Calls] /\ req'[r] = call
           /\ \A q \in Requests : q # r => req'[q] = req[q]
  BY DEF TypeOK

LEMMA FinishSet ==
    ASSUME TypeOK, NEW r \in Requests, Finish(r)
    PROVE  /\ req' \in [Requests -> Calls] /\ req'[r].stage = "idle"
           /\ \A q \in Requests : q # r => req'[q] = req[q]
  <1>1. Idle \in Calls /\ Idle.stage = "idle"
    BY DEF Calls, Idle
  <1> QED BY <1>1, CallSet DEF Finish

-----------------------------------------------------------------------------
(* Passwords.                                                              *)

\* The bound survives while no password is replaced and nobody proves another.
LEMMA FewerProving ==
    ASSUME IInv, UNCHANGED <<hash, bought>>, req' \in [Requests -> Calls],
           \A p \in Hashes : Proving(p)' \subseteq Proving(p)
    PROVE  StaleChangesBounded'
  <1>1. SUFFICES ASSUME NEW p \in Hashes, p # hash
                 PROVE  bought[p] + Cardinality(Proving(p)') <= Cardinality(Requests)
    BY DEF IInv, StaleChangesBounded
  <1>2. bought[p] + Cardinality(Proving(p)) <= Cardinality(Requests)
    BY <1>1 DEF IInv, StaleChangesBounded
  <1>3. Cardinality(Proving(p)') <= Cardinality(Proving(p))
        /\ Cardinality(Proving(p)') \in Nat
    BY ProvingCount, FS_Subset, FS_CardinalityType
  <1>4. bought[p] \in Nat /\ Cardinality(Proving(p)) \in Nat
    BY ProvingCount DEF IInv, TypeOK
  <1> QED BY <1>2, <1>3, <1>4, RequestsNat

\* Before a password is replaced, nothing was bought with it: so every password
\* is within the bound that replaced ones have.
LEMMA AllBounded ==
    ASSUME IInv, NEW p \in Hashes
    PROVE  bought[p] + Cardinality(Proving(p)) <= Cardinality(Requests)
  <1>1. CASE p = hash
    BY <1>1, ProvingCount, RequestsNat DEF IInv, StaleChangesBounded
  <1>2. CASE p # hash
    BY <1>2 DEF IInv, StaleChangesBounded
  <1> QED BY <1>1, <1>2

LEMMA HashShape ==
    ASSUME IInv
    PROVE  /\ bought \in [Hashes -> Nat] /\ used \subseteq Passwords
           /\ req \in [Requests -> Calls]
  BY DEF IInv, TypeOK

\* A new password comes into force by a reset or with the member.
LEMMA ChosenAnew ==
    ASSUME IInv, NEW p \in Passwords, Choose(p), UNCHANGED <<req, bought>>
    PROVE  StaleChangesBounded' /\ NewPasswordsAreUnknown'
  <1>1. hash' = p /\ used' = used \cup {p} /\ p \notin used
    BY DEF Choose
  <1>2. bought[p] = 0
    BY <1>1 DEF IInv, NewPasswordsAreUnknown
  <1>3. \A q : Proving(q)' = Proving(q)
    BY DEF Proving, Is
  <1>4. StaleChangesBounded'
    BY <1>1, <1>2, <1>3, AllBounded DEF StaleChangesBounded
  <1>5. NewPasswordsAreUnknown'
    BY <1>1 DEF IInv, NewPasswordsAreUnknown, Is
  <1> QED BY <1>4, <1>5

\* A change that was proved with one password puts another in force.
LEMMA ChangeBounded ==
    ASSUME IInv, NEW r \in Requests, UpdateUserPassword(r)
    PROVE  StaleChangesBounded' /\ NewPasswordsAreUnknown'
  <1>1. PICK q \in Hashes : q = req[r].proved
    BY CallShape DEF IInv, UpdateUserPassword
  <1>2. PICK p \in Passwords : Choose(p)
    BY DEF UpdateUserPassword
  <1>3. hash' = p /\ used' = used \cup {p} /\ p \notin used /\ p \in Hashes
    BY <1>2 DEF Choose, Hashes
  <1>4. /\ req' \in [Requests -> Calls] /\ req'[r].stage = "idle"
        /\ \A s \in Requests : s # r => req'[s] = req[s]
    BY FinishSet DEF IInv, UpdateUserPassword
  <1>5. /\ bought'[q] = bought[q] + 1
        /\ \A h \in Hashes : h # q => bought'[h] = bought[h]
    BY <1>1, HashShape DEF UpdateUserPassword
  <1>6. r \in Proving(q) /\ q # p
    BY <1>1, <1>3, CredentialsAssumption
       DEF Proving, UpdateUserPassword, IInv, NewPasswordsAreUnknown
  <1>7. /\ Proving(q)' = Proving(q) \ {r}
        /\ \A h : h # q => Proving(h)' = Proving(h)
    BY <1>1, <1>4 DEF Proving, Is
  <1>8. Cardinality(Proving(q)') = Cardinality(Proving(q)) - 1
    BY <1>6, <1>7, ProvingCount, FS_RemoveElement
  <1>9. StaleChangesBounded'
    <2>1. bought'[p] = 0
      BY <1>3, <1>5, <1>6 DEF IInv, NewPasswordsAreUnknown
    <2>2. bought'[q] + Cardinality(Proving(q)') <= Cardinality(Requests)
      BY <1>5, <1>8, AllBounded, ProvingCount, HashShape
    <2>3. \A h \in Hashes : h # q =>
             bought'[h] + Cardinality(Proving(h)') <= Cardinality(Requests)
      BY <1>5, <1>7, AllBounded
    <2> QED BY <1>3, <2>1, <2>2, <2>3 DEF StaleChangesBounded
  <1>10. NewPasswordsAreUnknown'
    <2>1. q \in used \cup {LegacyHash}
      BY <1>1 DEF UpdateUserPassword, IInv, NewPasswordsAreUnknown
    <2>2. \A h \in Passwords \ used' : bought'[h] = 0
      BY <1>3, <1>5, <2>1, CredentialsAssumption DEF IInv, NewPasswordsAreUnknown, Hashes
    <2> QED BY <1>3, <1>4, <2>2 DEF IInv, NewPasswordsAreUnknown, Is
  <1> QED BY <1>9, <1>10

\* The command puts the old portal's password in force, whatever it bought before.
LEMMA BackfillBounded ==
    ASSUME IInv, UpdateCred
    PROVE  StaleChangesBounded' /\ NewPasswordsAreUnknown'
  <1>1. /\ hash' = LegacyHash /\ UNCHANGED <<req, used>> /\ LegacyHash \in Hashes
        /\ bought'[LegacyHash] = 0
        /\ \A h \in Hashes : h # LegacyHash => bought'[h] = bought[h]
    BY HashShape DEF UpdateCred, Hashes
  <1>2. \A h : Proving(h)' = Proving(h)
    BY <1>1 DEF Proving, Is
  <1>3. StaleChangesBounded'
    BY <1>1, <1>2, AllBounded DEF StaleChangesBounded
  <1>4. NewPasswordsAreUnknown'
    BY <1>1, CredentialsAssumption DEF IInv, NewPasswordsAreUnknown, Is, Hashes
  <1> QED BY <1>3, <1>4

-----------------------------------------------------------------------------
(* Steps that leave the passwords alone.                                   *)

\* No request proves another password than before.
LEMMA PasswordsStand ==
    ASSUME IInv, UNCHANGED <<hash, used, bought>>, req' \in [Requests -> Calls],
           \A q \in Requests : Is(q, "changing")' =>
               Is(q, "changing") /\ req'[q].proved = req[q].proved
    PROVE  StaleChangesBounded' /\ NewPasswordsAreUnknown'
  <1>1. \A p : Proving(p)' \subseteq Proving(p)
    BY DEF Proving
  <1>2. NewPasswordsAreUnknown'
    BY DEF IInv, NewPasswordsAreUnknown
  <1> QED BY <1>1, <1>2, FewerProving

\* A request that ends leaves the others as current as they were.
LEMMA FinishStep ==
    ASSUME IInv, NEW r \in Requests, Finish(r),
           UNCHANGED <<registered, hash, address, backfill, runs, used, bought>>,
           pref' \in BOOLEAN \cup {None}, ~Is(r, "idle")
    PROVE  IInv'
  <1>1. /\ req' \in [Requests -> Calls] /\ req'[r].stage = "idle"
        /\ \A q \in Requests : q # r => req'[q] = req[q]
    BY FinishSet DEF IInv
  <1>2. registered
    BY DEF IInv, AfterEnrolment
  <1>3. TypeOK' /\ AfterEnrolment'
    BY <1>1, <1>2 DEF IInv, TypeOK, AfterEnrolment
  <1>4. StaleChangesBounded' /\ NewPasswordsAreUnknown'
    BY <1>1, PasswordsStand DEF Is
  <1>5. LoneIsCurrent'
    BY <1>1 DEF IInv, LoneIsCurrent, Is
  <1> QED BY <1>3, <1>4, <1>5 DEF IInv

LEMMA EnrolStep ==
    ASSUME IInv, Enrol
    PROVE  IInv'
  <1>1. /\ registered' = TRUE
        /\ UNCHANGED <<address, pref, req, backfill, runs, bought>>
    BY DEF Enrol
  <1>2. LoneIsCurrent' /\ AfterEnrolment'
    BY <1>1 DEF IInv, LoneIsCurrent, Is, AfterEnrolment
  <1>3. CASE UNCHANGED <<hash, used>>
    <2>1. TypeOK'
      BY <1>1, <1>3 DEF IInv, TypeOK
    <2>2. StaleChangesBounded' /\ NewPasswordsAreUnknown'
      BY <1>1, <1>3, HashShape, PasswordsStand DEF Is
    <2> QED BY <1>2, <2>1, <2>2 DEF IInv
  <1>4. ASSUME NEW p \in Passwords, Choose(p)
        PROVE  IInv'
    <2>1. TypeOK'
      BY <1>1, <1>4 DEF IInv, TypeOK, Choose, Hashes
    <2> QED BY <1>1, <1>2, <1>4, <2>1, ChosenAnew DEF IInv
  <1> QED BY <1>3, <1>4 DEF Enrol

LEMMA ResetStep ==
    ASSUME IInv, ResetPassword
    PROVE  IInv'
  <1>1. PICK p \in Passwords : Choose(p)
    BY DEF ResetPassword
  <1>2. registered /\ UNCHANGED <<registered, address, pref, req, backfill, runs, bought>>
    BY DEF ResetPassword
  <1>3. TypeOK'
    BY <1>1, <1>2 DEF IInv, TypeOK, Choose, Hashes
  <1>4. LoneIsCurrent' /\ AfterEnrolment'
    BY <1>2 DEF IInv, LoneIsCurrent, Is, AfterEnrolment
  <1> QED BY <1>1, <1>2, <1>3, <1>4, ChosenAnew DEF IInv

LEMMA BeginChangeStep ==
    ASSUME IInv, NEW r \in Requests, NEW p \in Hashes, BeginChange(r, p)
    PROVE  IInv'
  <1> DEFINE call == [stage |-> "changing", proved |-> p]
  <1>1. call \in Calls /\ call.stage = "changing" /\ call.proved = p
    BY DEF Calls
  <1>2. /\ Is(r, "idle") /\ registered /\ hash = p /\ req' = [req EXCEPT ![r] = call]
        /\ UNCHANGED <<registered, hash, address, pref, backfill, runs, used, bought>>
    BY DEF BeginChange, CheckPassword
  <1> HIDE DEF call
  <1>3. /\ req' \in [Requests -> Calls] /\ req'[r] = call
        /\ \A q \in Requests : q # r => req'[q] = req[q]
    BY <1>1, <1>2, CallSet DEF IInv
  <1>4. TypeOK'
    BY <1>2, <1>3 DEF IInv, TypeOK
  <1>5. LoneIsCurrent'
    BY <1>1, <1>2, <1>3 DEF IInv, LoneIsCurrent, Is
  <1>6. NewPasswordsAreUnknown'
    BY <1>1, <1>2, <1>3, CredentialsAssumption DEF IInv, NewPasswordsAreUnknown, Is, Hashes
  <1>7. ASSUME NEW h \in Hashes, h # p
        PROVE  bought[h] + Cardinality(Proving(h)') <= Cardinality(Requests)
    <2>1. Proving(h)' = Proving(h)
      BY <1>1, <1>2, <1>3, <1>7 DEF Proving, Is
    <2> QED BY <2>1, AllBounded
  <1>8. StaleChangesBounded'
    BY <1>2, <1>7 DEF IInv, StaleChangesBounded
  <1>9. AfterEnrolment'
    BY <1>2 DEF AfterEnrolment
  <1> QED BY <1>4, <1>5, <1>6, <1>8, <1>9 DEF IInv

LEMMA ChangeStep ==
    ASSUME IInv, NEW r \in Requests, UpdateUserPassword(r)
    PROVE  IInv'
  <1>1. PICK q \in Hashes : q = req[r].proved
    BY CallShape DEF IInv, UpdateUserPassword
  <1>2. PICK p \in Passwords : Choose(p)
    BY DEF UpdateUserPassword
  <1>3. /\ bought' = [bought EXCEPT ![q] = @ + 1]
        /\ UNCHANGED <<registered, address, pref, backfill, runs>>
    BY <1>1 DEF UpdateUserPassword
  <1>4. /\ req' \in [Requests -> Calls] /\ req'[r].stage = "idle"
        /\ \A s \in Requests : s # r => req'[s] = req[s]
    BY FinishSet DEF IInv, UpdateUserPassword
  <1>5. registered
    BY DEF UpdateUserPassword, IInv, AfterEnrolment, Is
  <1>6. bought' \in [Hashes -> Nat]
    BY <1>3, HashShape
  <1>7. TypeOK'
    BY <1>2, <1>3, <1>4, <1>5, <1>6 DEF IInv, TypeOK, Choose, Hashes
  <1>8. LoneIsCurrent' /\ AfterEnrolment'
    BY <1>3, <1>4, <1>5 DEF IInv, LoneIsCurrent, Is, AfterEnrolment
  <1> QED BY <1>7, <1>8, ChangeBounded DEF IInv

\* A save makes every other save and read in progress one that is not alone.
LEMMA BeginSaveStep ==
    ASSUME IInv, NEW r \in Requests, NEW s \in Settings, BeginSave(r, s)
    PROVE  IInv'
  <1>1. PICK b \in BOOLEAN : b = (Saving = {})
    OBVIOUS
  <1> DEFINE call == [stage |-> "saving", settings |-> s, alone |-> b]
  <1>2. /\ Is(r, "idle") /\ registered /\ address' = s.address
        /\ req' = [q \in Requests |-> IF q = r THEN call ELSE Disturbed(req[q])]
        /\ UNCHANGED <<registered, hash, pref, backfill, runs, used, bought>>
    BY <1>1 DEF BeginSave
  <1>3. call \in Calls /\ call.stage = "saving" /\ call.settings = s
    BY DEF Calls
  <1> HIDE DEF call
  <1>4. ASSUME NEW q \in Requests
        PROVE  /\ Disturbed(req[q]) \in Calls
               /\ Disturbed(req[q]).stage = req[q].stage
               /\ req[q].stage \in {"saving", "getting"} => ~Disturbed(req[q]).alone
               /\ req[q].stage \notin {"saving", "getting"} => Disturbed(req[q]) = req[q]
    <2>1. PICK c \in Calls : c = req[q]
      BY HashShape
    <2>2. CASE c.stage \in {"saving", "getting"}
      <3>1. [c EXCEPT !.alone = FALSE] \in Calls
        BY <2>2 DEF Calls, Idle
      <3>2. /\ [c EXCEPT !.alone = FALSE].stage = c.stage
            /\ [c EXCEPT !.alone = FALSE].alone = FALSE
        BY <2>2 DEF Calls, Idle
      <3> QED BY <2>1, <2>2, <3>1, <3>2 DEF Disturbed
    <2>3. CASE c.stage \notin {"saving", "getting"}
      BY <2>1, <2>3 DEF Disturbed
    <2> QED BY <2>1, <2>2, <2>3
  <1>5. /\ req' \in [Requests -> Calls] /\ req'[r] = call
        /\ \A q \in Requests : q # r => req'[q] = Disturbed(req[q])
    BY <1>2, <1>3, <1>4
  <1>6. TypeOK'
    BY <1>2, <1>5 DEF IInv, TypeOK, Settings
  <1>7. LoneIsCurrent'
    BY <1>2, <1>3, <1>4, <1>5 DEF LoneIsCurrent, Is
  <1>8. \A q \in Requests : Is(q, "changing")' =>
            Is(q, "changing") /\ req'[q].proved = req[q].proved
    BY <1>3, <1>4, <1>5 DEF Is
  <1>9. StaleChangesBounded' /\ NewPasswordsAreUnknown'
    BY <1>2, <1>5, <1>8, PasswordsStand
  <1>10. AfterEnrolment'
    BY <1>2 DEF AfterEnrolment
  <1> QED BY <1>6, <1>7, <1>9, <1>10 DEF IInv

LEMMA FinishSaveStep ==
    ASSUME IInv, NEW r \in Requests, FinishSave(r)
    PROVE  IInv'
  <1>1. req[r].settings.enabled \in BOOLEAN
    BY CallShape DEF IInv, FinishSave, Settings
  <1>2. pref' \in BOOLEAN \cup {None}
    BY <1>1 DEF FinishSave, Upserted
  <1>3. Finish(r) /\ ~Is(r, "idle")
    BY DEF FinishSave, Is
  <1> QED BY <1>2, <1>3, FinishStep DEF FinishSave

LEMMA BeginGetStep ==
    ASSUME IInv, NEW r \in Requests, BeginGet(r)
    PROVE  IInv'
  <1>1. PICK b \in BOOLEAN : b = (Saving = {})
    OBVIOUS
  <1> DEFINE call == [stage |-> "getting", address |-> address, alone |-> b]
  <1>2. /\ Is(r, "idle") /\ registered /\ req' = [req EXCEPT ![r] = call]
        /\ UNCHANGED <<registered, hash, address, pref, backfill, runs, used, bought>>
    BY <1>1 DEF BeginGet
  <1>3. call \in Calls /\ call.stage = "getting" /\ call.address = address
    BY DEF Calls, IInv, TypeOK
  <1> HIDE DEF call
  <1>4. /\ req' \in [Requests -> Calls] /\ req'[r] = call
        /\ \A q \in Requests : q # r => req'[q] = req[q]
    BY <1>2, <1>3, CallSet DEF IInv
  <1>5. TypeOK' /\ AfterEnrolment'
    BY <1>2, <1>4 DEF IInv, TypeOK, AfterEnrolment
  <1>6. LoneIsCurrent'
    BY <1>2, <1>3, <1>4 DEF IInv, LoneIsCurrent, Is
  <1>7. StaleChangesBounded' /\ NewPasswordsAreUnknown'
    BY <1>2, <1>3, <1>4, PasswordsStand DEF Is
  <1> QED BY <1>5, <1>6, <1>7 DEF IInv

LEMMA FinishGetStep ==
    ASSUME IInv, NEW r \in Requests, FinishGet(r) \/ Fail(r)
    PROVE  IInv'
  <1>1. /\ Finish(r) /\ ~Is(r, "idle")
        /\ UNCHANGED <<registered, hash, address, pref, backfill, runs, used, bought>>
    BY DEF FinishGet, Fail, Is
  <1>2. pref' \in BOOLEAN \cup {None}
    BY <1>1 DEF IInv, TypeOK
  <1> QED BY <1>1, <1>2, FinishStep

\* A step of the command that does not write the member's row.
LEMMA CommandStep ==
    ASSUME IInv, UNCHANGED <<registered, hash, address, pref, req, used, bought>>,
           StartBackfill \/ ResolveMember \/ FailBackfill
    PROVE  IInv'
  <1>1. TypeOK' /\ AfterEnrolment'
    BY CredentialsAssumption
       DEF IInv, TypeOK, AfterEnrolment, StartBackfill, ResolveMember, FailBackfill, Is
  <1>2. LoneIsCurrent'
    BY DEF IInv, LoneIsCurrent, Is
  <1>3. StaleChangesBounded' /\ NewPasswordsAreUnknown'
    BY HashShape, PasswordsStand DEF Is
  <1> QED BY <1>1, <1>2, <1>3 DEF IInv

LEMMA UpdateCredStep ==
    ASSUME IInv, UpdateCred
    PROVE  IInv'
  <1>1. registered /\ UNCHANGED <<registered, address, pref, req, runs, used>>
    BY DEF UpdateCred, IInv, AfterEnrolment
  <1>2. bought' \in [Hashes -> Nat]
    BY HashShape DEF UpdateCred
  <1>3. TypeOK' /\ AfterEnrolment'
    BY <1>1, <1>2 DEF UpdateCred, IInv, TypeOK, AfterEnrolment, Hashes, Is
  <1>4. LoneIsCurrent'
    BY <1>1 DEF IInv, LoneIsCurrent, Is
  <1> QED BY <1>3, <1>4, BackfillBounded DEF IInv

-----------------------------------------------------------------------------
LEMMA InitInv == Init => IInv
  <1> SUFFICES ASSUME Init
               PROVE  IInv
    OBVIOUS
  <1>1. Idle \in Calls /\ \A r \in Requests : req[r] = Idle
    BY DEF Init, Calls
  <1>2. TypeOK
    BY <1>1, CredentialsAssumption DEF Init, TypeOK
  <1>3. AfterEnrolment /\ LoneIsCurrent /\ NewPasswordsAreUnknown
    BY <1>1 DEF Init, AfterEnrolment, LoneIsCurrent, NewPasswordsAreUnknown, Is, Idle, Hashes
  <1>4. \A p \in Hashes : bought[p] = 0
    BY DEF Init
  <1>5. StaleChangesBounded
    BY <1>4, ProvingCount, RequestsNat DEF StaleChangesBounded
  <1> QED BY <1>2, <1>3, <1>5 DEF IInv

LEMMA StutterStep == IInv /\ UNCHANGED vars => IInv'
  <1> SUFFICES ASSUME IInv, UNCHANGED vars
               PROVE  IInv'
    OBVIOUS
  <1>1. UNCHANGED <<registered, hash, address, pref, req, backfill, runs, used, bought>>
    BY DEF vars
  <1>2. TypeOK' /\ AfterEnrolment' /\ LoneIsCurrent'
    BY <1>1 DEF IInv, TypeOK, AfterEnrolment, LoneIsCurrent, Is
  <1>3. StaleChangesBounded' /\ NewPasswordsAreUnknown'
    BY <1>1, HashShape, PasswordsStand DEF Is
  <1> QED BY <1>2, <1>3 DEF IInv

LEMMA NextInv == IInv /\ [Next]_vars => IInv'
  <1> SUFFICES ASSUME IInv, [Next]_vars
               PROVE  IInv'
    OBVIOUS
  <1>1. CASE StartBackfill \/ ResolveMember \/ FailBackfill
    BY <1>1, CommandStep DEF StartBackfill, ResolveMember, FailBackfill
  <1> QED BY <1>1, EnrolStep, ResetStep, BeginChangeStep, ChangeStep, BeginSaveStep,
             FinishSaveStep, BeginGetStep, FinishGetStep, UpdateCredStep, StutterStep DEF Next

LEMMA Invariance == Spec => []IInv
  BY InitInv, NextInv, PTL DEF Spec

-----------------------------------------------------------------------------
\* A member's row and the requests on it have their types, and there is no row
\* to change before the member is enrolled.
THEOREM TypeCorrect == Spec => []TypeOK
  <1>1. IInv => TypeOK
    BY DEF IInv
  <1> QED BY <1>1, Invariance, PTL

\* The password that is in force has paid for no change since it came into
\* force, and a replaced one pays for at most one change of each request: those
\* that had verified it against the row they had read, and were still hashing.
THEOREM ReplacedPasswordsExpire == Spec => []StaleChangesBounded
  <1>1. IInv => StaleChangesBounded
    BY DEF IInv
  <1> QED BY <1>1, Invariance, PTL

\* A save that no other save overlapped leaves its own address and preference
\* behind, and a read that none overlapped returns a pair that was stored:
\* neither is one transaction.
THEOREM LoneSettingsStayWhole == Spec => LoneSettingsAreWhole
  <1> DEFINE Whole(r) ==
        /\ FinishSave(r) /\ req[r].alone =>
               req[r].settings = [address |-> address', enabled |-> Enabled(pref')]
        /\ FinishGet(r) /\ req[r].alone => req[r].address = address
  <1>1. ASSUME IInv, NEW r \in Requests
        PROVE  Whole(r)
    <2>1. ASSUME FinishSave(r), req[r].alone
          PROVE  req[r].settings = [address |-> address', enabled |-> Enabled(pref')]
      <3>1. PICK s \in Settings : s = req[r].settings
        BY <1>1, <2>1, CallShape DEF IInv, FinishSave
      <3>2. address' = s.address /\ pref' = s.enabled
        BY <1>1, <2>1, <3>1 DEF IInv, LoneIsCurrent, FinishSave, Upserted
      <3>3. s.enabled \in BOOLEAN /\ s = [address |-> s.address, enabled |-> s.enabled]
        BY DEF Settings
      <3>4. Enabled(pref') = s.enabled
        BY <3>2, <3>3, CredentialsAssumption DEF Enabled
      <3> QED BY <3>1, <3>2, <3>3, <3>4
    <2>2. ASSUME FinishGet(r), req[r].alone
          PROVE  req[r].address = address
      BY <1>1, <2>2 DEF IInv, LoneIsCurrent, FinishGet
    <2> QED BY <2>1, <2>2
  <1>2. IInv /\ [Next]_vars => [\A r \in Requests : Whole(r)]_vars
    BY <1>1
  <1>3. Spec => [][\A r \in Requests : Whole(r)]_vars
    BY <1>2, Invariance, PTL DEF Spec
  <1> QED BY <1>3 DEF LoneSettingsAreWhole
=============================================================================
