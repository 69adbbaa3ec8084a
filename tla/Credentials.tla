----------------------------- MODULE Credentials -----------------------------
(***************************************************************************)
(* One member's password and settings: self-service changes, resets, the   *)
(* mailing address and notification preference kept in two tables, and     *)
(* cmd/migrate_legacy_credentials, which fills in the old portal's hash.   *)
(* Members' rows are independent of each other.                            *)
(*                                                                         *)
(* A change verifies the current password against a row it has read, and   *)
(* writes after the slow hashing of the new one, whatever has become of    *)
(* the row.  Settings are saved, and read, by two statements.              *)
(***************************************************************************)
EXTENDS Naturals, FiniteSets

CONSTANTS Requests,    \* the requests handled at once
          Passwords,   \* those the member chooses, each at most once
          LegacyHash,  \* what tb_account holds
          Addresses,
          None,        \* NULL
          MaxRuns      \* the bound: how often the backfill is run

ASSUME CredentialsAssumption ==
    /\ IsFiniteSet(Requests) /\ MaxRuns \in Nat
    /\ LegacyHash \notin Passwords /\ None \notin Passwords \cup {LegacyHash} \cup Addresses \cup BOOLEAN

VARIABLES registered,  \* whether the member has a users row yet
          hash,        \* password_hash, as the password it was made from
          address, pref,
          req,
          backfill,    \* what the credentials command is doing
          runs,
          used,        \* passwords chosen so far
          bought       \* changes made on the strength of each password since
                       \* it was last in force (not a column)

vars == <<registered, hash, address, pref, req, backfill, runs, used, bought>>

Hashes == Passwords \cup {LegacyHash}

Idle == [stage |-> "idle"]

Settings == [address : Addresses \cup {None}, enabled : BOOLEAN]

\* alone: no save of another request has run since this one began.
Calls ==
    {Idle}
    \cup [stage : {"changing"}, proved : Hashes]
    \cup [stage : {"saving"}, settings : Settings, alone : BOOLEAN]
    \cup [stage : {"getting"}, address : Addresses \cup {None}, alone : BOOLEAN]

Is(r, stage) == req[r].stage = stage
Finish(r)    == req' = [req EXCEPT ![r] = Idle]

\* No row in user_notification_preferences means opted in.
Enabled(p) == IF p = None THEN TRUE ELSE p

-----------------------------------------------------------------------------
Init ==
    /\ registered \in BOOLEAN
    /\ hash = None /\ address = None /\ pref = None
    /\ req = [r \in Requests |-> Idle]
    /\ backfill = "off" /\ runs = 0
    /\ used = {} /\ bought = [p \in Hashes |-> 0]

\* A password the member has not had before comes into force.
Choose(p) ==
    /\ p \notin used
    /\ hash' = p /\ used' = used \cup {p}

\* The backfill of members creates the row without a password, a registration
\* with one.
Enrol ==
    /\ ~registered /\ registered' = TRUE
    /\ \/ UNCHANGED <<hash, used>>
       \/ \E p \in Passwords : Choose(p)
    /\ UNCHANGED <<address, pref, req, backfill, runs, bought>>

-----------------------------------------------------------------------------
(* Passwords.                                                              *)

\* Seeded fault: any password will do.
AnyPassword(h, p) == TRUE

CheckPassword(h, p) == h = p

\* Seeded fault: neither a missing password nor the current one is looked at.
BeginUnchecked(r, p) ==
    /\ Is(r, "idle") /\ registered
    /\ req' = [req EXCEPT ![r] = [stage |-> "changing", proved |-> hash]]
    /\ UNCHANGED <<registered, hash, address, pref, backfill, runs, used, bought>>

\* FindUserByID and the check; without a password there is nothing to check.
BeginChange(r, p) ==
    /\ Is(r, "idle") /\ registered
    /\ hash # None /\ CheckPassword(hash, p)
    /\ req' = [req EXCEPT ![r] = [stage |-> "changing", proved |-> p]]
    /\ UNCHANGED <<registered, hash, address, pref, backfill, runs, used, bought>>

UpdateUserPassword(r) ==
    /\ Is(r, "changing")
    /\ \E p \in Passwords : Choose(p)
    /\ bought' = [bought EXCEPT ![req[r].proved] = @ + 1]
    /\ Finish(r)
    /\ UNCHANGED <<registered, address, pref, backfill, runs>>

\* The last statement of a reset, whose challenge is already consumed.
ResetPassword ==
    /\ registered
    /\ \E p \in Passwords : Choose(p)
    /\ UNCHANGED <<registered, address, pref, req, backfill, runs, bought>>

-----------------------------------------------------------------------------
(* Settings.                                                               *)

Saving == {r \in Requests : Is(r, "saving")}

\* Another save begins.
Disturbed(call) ==
    IF call.stage \in {"saving", "getting"} THEN [call EXCEPT !.alone = FALSE] ELSE call

\* UpdateUserAddress
BeginSave(r, s) ==
    /\ Is(r, "idle") /\ registered
    /\ address' = s.address
    /\ req' = [q \in Requests |->
                 IF q = r THEN [stage |-> "saving", settings |-> s, alone |-> Saving = {}]
                 ELSE Disturbed(req[q])]
    /\ UNCHANGED <<registered, hash, pref, backfill, runs, used, bought>>

\* Seeded fault: INSERT IGNORE.
FirstPreference(enabled) == IF pref = None THEN enabled ELSE pref

\* INSERT ... ON DUPLICATE KEY UPDATE
Upserted(enabled) == enabled

\* UpsertNotificationPreference
FinishSave(r) ==
    /\ Is(r, "saving")
    /\ pref' = Upserted(req[r].settings.enabled)
    /\ Finish(r)
    /\ UNCHANGED <<registered, hash, address, backfill, runs, used, bought>>

\* FindUserByID, for the address
BeginGet(r) ==
    /\ Is(r, "idle") /\ registered
    /\ req' = [req EXCEPT ![r] = [stage |-> "getting", address |-> address,
                                  alone |-> Saving = {}]]
    /\ UNCHANGED <<registered, hash, address, pref, backfill, runs, used, bought>>

\* GetNotificationPreference, and the answer
FinishGet(r) ==
    /\ Is(r, "getting")
    /\ Finish(r)
    /\ UNCHANGED <<registered, hash, address, pref, backfill, runs, used, bought>>

\* The next statement of a request fails, or its process dies.
Fail(r) ==
    /\ ~Is(r, "idle")
    /\ Finish(r)
    /\ UNCHANGED <<registered, hash, address, pref, backfill, runs, used, bought>>

-----------------------------------------------------------------------------
(* cmd/migrate_legacy_credentials, as far as this member's row goes.       *)

StartBackfill ==
    /\ backfill \in {"off", "done", "unmatched", "failed"} /\ runs < MaxRuns
    /\ backfill' = "lookup" /\ runs' = runs + 1
    /\ UNCHANGED <<registered, hash, address, pref, req, used, bought>>

\* A row without a user yet is reported, to be retried.
ResolveMember ==
    /\ backfill = "lookup"
    /\ backfill' = IF registered THEN "update" ELSE "unmatched"
    /\ UNCHANGED <<registered, hash, address, pref, req, runs, used, bought>>

\* "a plain UPDATE", whatever the row holds
UpdateCred ==
    /\ backfill = "update"
    /\ hash' = LegacyHash
    /\ bought' = [bought EXCEPT ![LegacyHash] = 0]
    /\ backfill' = "done"
    /\ UNCHANGED <<registered, address, pref, req, runs, used>>

\* The lookup or the update fails: the row is reported; or the command dies.
FailBackfill ==
    /\ backfill \in {"lookup", "update"}
    /\ backfill' \in {"failed", "off"}
    /\ UNCHANGED <<registered, hash, address, pref, req, runs, used, bought>>

-----------------------------------------------------------------------------
Next ==
    \/ Enrol \/ ResetPassword
    \/ \E r \in Requests :
          \/ \E p \in Hashes : BeginChange(r, p)
          \/ UpdateUserPassword(r)
          \/ \E s \in Settings : BeginSave(r, s)
          \/ FinishSave(r) \/ BeginGet(r) \/ FinishGet(r) \/ Fail(r)
    \/ StartBackfill \/ ResolveMember \/ UpdateCred \/ FailBackfill

Spec == Init /\ [][Next]_vars

-----------------------------------------------------------------------------
(* Properties.                                                             *)

TypeOK ==
    /\ registered \in BOOLEAN
    /\ hash \in Hashes \cup {None}
    /\ address \in Addresses \cup {None} /\ pref \in BOOLEAN \cup {None}
    /\ req \in [Requests -> Calls]
    /\ backfill \in {"off", "lookup", "update", "done", "unmatched", "failed"}
    /\ runs \in 0..MaxRuns
    /\ used \subseteq Passwords /\ bought \in [Hashes -> Nat]
    /\ ~registered => hash = None /\ address = None /\ pref = None

Proving(p) == {r \in Requests : Is(r, "changing") /\ req[r].proved = p}

\* "requires the caller to prove they already know the current password": one
\* that was replaced since, by a change or a reset, only lets those changes
\* through that were under way by then.
StaleChangesBounded ==
    \A p \in Hashes :
        IF p = hash THEN bought[p] = 0
        ELSE bought[p] + Cardinality(Proving(p)) <= Cardinality(Requests)

\* Address and preference "together": a save that ran alone and was answered
\* leaves exactly its own pair behind, and a read that ran alone returns a
\* stored pair; only overlapping saves, or a failed one, can mix two.
LoneSettingsAreWhole ==
    [][\A r \in Requests :
          /\ FinishSave(r) /\ req[r].alone =>
                 req[r].settings = [address |-> address', enabled |-> Enabled(pref')]
          /\ FinishGet(r) /\ req[r].alone => req[r].address = address]_vars

-----------------------------------------------------------------------------
(* The inductive invariant behind these properties.                        *)

\* A password that was never chosen is in force nowhere, and nobody has proved
\* it or bought anything with it.
NewPasswordsAreUnknown ==
    /\ hash \in used \cup {LegacyHash, None}
    /\ \A r \in Requests : Is(r, "changing") => req[r].proved \in used \cup {LegacyHash}
    /\ \A p \in Passwords \ used : bought[p] = 0

\* What a request that is still alone has written or read is in the row.
LoneIsCurrent ==
    \A r \in Requests :
        /\ Is(r, "saving") /\ req[r].alone => address = req[r].settings.address
        /\ Is(r, "getting") /\ req[r].alone => address = req[r].address

\* Requests and the backfill's update come after the member's row.
AfterEnrolment ==
    /\ backfill = "update" => registered
    /\ \A r \in Requests : Is(r, "idle") \/ registered

IInv ==
    /\ TypeOK
    /\ AfterEnrolment
    /\ NewPasswordsAreUnknown /\ LoneIsCurrent
    /\ StaleChangesBounded
=============================================================================
