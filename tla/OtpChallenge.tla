---------------------------- MODULE OtpChallenge ----------------------------
(***************************************************************************)
(* The one-time passcode challenges of the auth service: rows of           *)
(* otp_verifications, created by three send endpoints, checked by three    *)
(* verify endpoints and redeemed by login, registration, Young Saver       *)
(* registration and password reset.                                        *)
(*                                                                         *)
(* Every endpoint is a sequence of autocommitted SQL statements with no    *)
(* transaction around them, so each statement is an action and the         *)
(* statements of concurrent requests interleave.  A row read early is kept *)
(* by the handler as a snapshot (req[r].seen).  A request that reads no    *)
(* suitable row returns at once and changes nothing: a stuttering step.    *)
(***************************************************************************)
EXTENDS Naturals

CONSTANTS Challenges,    \* the rows of otp_verifications
          NoChallenge,   \* the reference of a request that holds none
          Requests,      \* the requests the server handles at once
          MaxAttempts    \* otp_verifications.max_attempts

ASSUME ChallengeAssumption ==
    /\ MaxAttempts \in Nat \ {0}
    /\ NoChallenge \notin Challenges

VARIABLES otp,   \* the table: one row per challenge
          req,   \* each request's progress and the row it read
          out    \* what each challenge has brought about outside its row

vars == <<otp, req, out>>

Purposes  == {"login", "register", "password_reset"}
Ops       == Purposes \cup {"young_saver"}
Statuses  == {"absent", "pending", "sent", "failed"}
Stages    == {"idle", "sending", "mark_sent", "mark_failed",
              "checking", "creating", "consuming", "granting"}

\* The counters of out saturate: Many stands for two or more.
Many == 2
OneMore(n) == IF n < Many THEN n + 1 ELSE Many

Rows == [status : Statuses, purpose : Purposes, attempts : 0..MaxAttempts,
         verified : BOOLEAN, consumed : BOOLEAN, expired : BOOLEAN]
Reqs == [stage : Stages, op : Ops, ref : Challenges \cup {NoChallenge},
         seen : 0..MaxAttempts]
Outs == [told : BOOLEAN, accounts : 0..Many, tokens : 0..Many, resets : 0..Many]

PurposeOf(op) == IF op = "young_saver" THEN "register" ELSE op

NoRow == [status |-> "absent", purpose |-> "login", attempts |-> 0,
          verified |-> FALSE, consumed |-> FALSE, expired |-> FALSE]
Idle  == [stage |-> "idle", op |-> "login", ref |-> NoChallenge, seen |-> 0]

-----------------------------------------------------------------------------
(* The statements of the OTP repository, as functions of the row.          *)

\* INSERT: status takes its column default.
NewRow(p) == [status |-> "pending", purpose |-> p, attempts |-> 0,
              verified |-> FALSE, consumed |-> FALSE, expired |-> FALSE]

\* WHERE status = 'sent' AND consumed_at IS NULL AND expires_at > NOW()
IsActive(row) == row.status = "sent" /\ ~row.consumed /\ ~row.expired

\* WHERE verified_at IS NOT NULL AND consumed_at IS NULL; expiry not looked at
IsRedeemable(row) == row.verified /\ ~row.consumed

\* Seeded fault: the update forgets "consumed_at IS NULL".
MarkedVerifiedAlways(row) == [row EXCEPT !.verified = TRUE]

\* SET verified_at = NOW() WHERE consumed_at IS NULL
MarkedVerified(row) ==
    IF row.consumed THEN row ELSE [row EXCEPT !.verified = TRUE]

\* Seeded fault: the limit is compared with > instead of >=.
IncrementedPastLimit(row) ==
    IF row.consumed THEN row
    ELSE [row EXCEPT !.consumed = row.attempts + 1 > MaxAttempts,
                     !.attempts = @ + 1]

\* Seeded fault: the SET clauses swapped, so that the CASE sees the new count.
IncrementedTwiceSeen(row) ==
    IF row.consumed THEN row
    ELSE [row EXCEPT !.consumed = row.attempts + 2 >= MaxAttempts,
                     !.attempts = @ + 1]

\* One UPDATE under the row lock: the last permitted attempt consumes the row.
Incremented(row) ==
    IF row.consumed THEN row
    ELSE [row EXCEPT !.consumed = row.attempts + 1 >= MaxAttempts,
                     !.attempts = @ + 1]

\* SET consumed_at = NOW() WHERE consumed_at IS NULL
Consumed(row) == [row EXCEPT !.consumed = TRUE]

\* Seeded fault: RowsAffected is ignored, so every caller believes it won.
WinsAlways(row) == TRUE

\* RowsAffected > 0: this very statement flipped the row.
Wins(row) == ~row.consumed

-----------------------------------------------------------------------------
Init ==
    /\ otp = [c \in Challenges |-> NoRow]
    /\ req = [r \in Requests |-> Idle]
    /\ out = [c \in Challenges |->
                [told |-> FALSE, accounts |-> 0, tokens |-> 0, resets |-> 0]]

At(r, stage)  == req[r].stage = stage
Row(r)        == otp[req[r].ref]
GoTo(r, s)    == req' = [req EXCEPT ![r].stage = s]
Finish(r)     == req' = [req EXCEPT ![r] = Idle]
Enter(r, s, op, c) ==
    req' = [req EXCEPT ![r] = [stage |-> s, op |-> op, ref |-> c,
                               seen |-> otp[c].attempts]]
Write(r, row) == otp' = [otp EXCEPT ![req[r].ref] = row]

-----------------------------------------------------------------------------
(* Sending: insert the row, text the code, record how the text went.       *)

CreateChallenge(r, c, p) ==
    /\ At(r, "idle")
    /\ otp[c].status = "absent"
    /\ otp' = [otp EXCEPT ![c] = NewRow(p)]
    /\ Enter(r, "sending", p, c)
    /\ UNCHANGED out

\* The three endpoints that open a challenge.
SendLoginOTP(r, c)    == CreateChallenge(r, c, "login")
SendRegisterOTP(r, c) == CreateChallenge(r, c, "register")
ForgotPassword(r, c)  == CreateChallenge(r, c, "password_reset")

\* The SMS provider answers, or the 10 s client timeout fires.
SendSMS(r) ==
    /\ At(r, "sending")
    /\ \E verdict \in {"mark_sent", "mark_failed"} : GoTo(r, verdict)
    /\ UNCHANGED <<otp, out>>

\* The status write; the service drops its error, so it may leave no trace.
MarkDelivery(r, stage, status) ==
    /\ At(r, stage)
    /\ \/ Write(r, [Row(r) EXCEPT !.status = status])
       \/ UNCHANGED otp
    /\ Finish(r)
    /\ UNCHANGED out

MarkOTPSent(r)       == MarkDelivery(r, "mark_sent", "sent")
MarkOTPSendFailed(r) == MarkDelivery(r, "mark_failed", "failed")

-----------------------------------------------------------------------------
(* Verifying: find the active row, compare the code, record the outcome.   *)

BeginVerify(r, c, p) ==
    /\ At(r, "idle")
    /\ IsActive(otp[c])
    /\ otp[c].purpose = p
    /\ Enter(r, "checking", p, c)
    /\ UNCHANGED <<otp, out>>

\* A wrong code, or a snapshot already at the limit.  The statement's error
\* is dropped, so the attempt may go uncounted.
RejectCode(r) ==
    /\ At(r, "checking")
    /\ \/ Write(r, Incremented(Row(r)))
       \/ UNCHANGED otp
    /\ Finish(r)
    /\ UNCHANGED out

\* The right code for registration or reset: verified, not yet consumed.  The
\* rows affected are not looked at, so success is answered either way.
AcceptCode(r) ==
    /\ At(r, "checking")
    /\ req[r].op # "login"
    /\ req[r].seen < MaxAttempts
    /\ Write(r, MarkedVerified(Row(r)))
    /\ out' = [out EXCEPT ![req[r].ref].told = TRUE]
    /\ Finish(r)

\* Consume the row: the one request whose statement flips it goes on, any
\* other is refused.
Consume(r) ==
    /\ Write(r, Consumed(Row(r)))
    /\ IF Wins(Row(r)) THEN GoTo(r, "granting") ELSE Finish(r)
    /\ UNCHANGED out

\* The right code for login goes straight to the consuming statement.
AcceptLoginCode(r) ==
    /\ At(r, "checking")
    /\ req[r].op = "login"
    /\ req[r].seen < MaxAttempts
    /\ Consume(r)

-----------------------------------------------------------------------------
(* Redeeming a verified challenge: registration creates the account first  *)
(* and consumes after, the password reset consumes first.                  *)

\* Seeded fault: registration consumes first and creates the account after.
FirstRedeemStageSwapped(op) == "consuming"

FirstRedeemStage(op) == IF op = "password_reset" THEN "consuming" ELSE "creating"

\* Seeded fault: the purpose of the challenge is not compared.
ServesAny(op, row) == TRUE

\* challenge.Purpose against the endpoint's purpose
Serves(op, row) == row.purpose = PurposeOf(op)

BeginRedeem(r, c, op) ==
    /\ At(r, "idle")
    /\ op # "login"
    /\ IsRedeemable(otp[c])
    /\ Serves(op, otp[c])
    /\ Enter(r, FirstRedeemStage(op), op, c)
    /\ UNCHANGED <<otp, out>>

\* CreateUser commits the account; the challenge row is untouched.
CreateAccount(r) ==
    /\ At(r, "creating")
    /\ out' = [out EXCEPT ![req[r].ref].accounts = OneMore(@)]
    /\ GoTo(r, "consuming")
    /\ UNCHANGED otp

ConsumeRedeemed(r) == At(r, "consuming") /\ Consume(r)

\* The winner hands out what the challenge buys: a token pair for login and
\* registration, the new password for a reset; Young Saver registration only
\* answers.
Grant(r) ==
    /\ At(r, "granting")
    /\ out' = CASE req[r].op \in {"login", "register"} ->
                     [out EXCEPT ![req[r].ref].tokens = OneMore(@)]
                [] req[r].op = "password_reset" ->
                     [out EXCEPT ![req[r].ref].resets = OneMore(@)]
                [] req[r].op = "young_saver" -> out
    /\ Finish(r)
    /\ UNCHANGED otp

-----------------------------------------------------------------------------
(* Failures and time.                                                      *)

\* A statement fails, the lockout gate refuses, an email or member id is
\* already taken, the user is gone: the handler returns with its earlier
\* statements committed.
Abort(r) ==
    /\ req[r].stage \in {"checking", "creating", "consuming", "granting"}
    /\ Finish(r)
    /\ UNCHANGED <<otp, out>>

\* The process dies; the table survives, every request in flight is gone.
Crash ==
    /\ \E r \in Requests : ~At(r, "idle")
    /\ req' = [r \in Requests |-> Idle]
    /\ UNCHANGED <<otp, out>>

\* expires_at passes.
Expire(c) ==
    /\ otp[c].status # "absent"
    /\ ~otp[c].expired
    /\ otp' = [otp EXCEPT ![c].expired = TRUE]
    /\ UNCHANGED <<req, out>>

Next ==
    \/ \E r \in Requests, c \in Challenges :
          \/ SendLoginOTP(r, c) \/ SendRegisterOTP(r, c) \/ ForgotPassword(r, c)
          \/ \E p \in Purposes : BeginVerify(r, c, p)
          \/ \E op \in Ops : BeginRedeem(r, c, op)
    \/ \E r \in Requests :
          \/ SendSMS(r) \/ MarkOTPSent(r) \/ MarkOTPSendFailed(r)
          \/ RejectCode(r) \/ AcceptCode(r) \/ AcceptLoginCode(r)
          \/ CreateAccount(r) \/ ConsumeRedeemed(r) \/ Grant(r) \/ Abort(r)
    \/ Crash
    \/ \E c \in Challenges : Expire(c)

Spec == Init /\ [][Next]_vars

-----------------------------------------------------------------------------
(* Properties.                                                             *)

TypeOK ==
    /\ otp \in [Challenges -> Rows]
    /\ req \in [Requests -> Reqs]
    /\ out \in [Challenges -> Outs]

\* One challenge never mints two token pairs, never resets a password twice
\* and never does both, whatever requests race for it (the reason
\* ConsumeOTPVerification reports whether this call flipped the row).
RedeemedOnce == \A c \in Challenges : out[c].tokens + out[c].resets <= 1

\* Below the limit only a redeemer consumes the row of a registration or reset.
NotCutShort(c) ==
    otp[c].consumed /\ otp[c].attempts < MaxAttempts /\ otp[c].purpose # "login" =>
        otp[c].verified

\* Once the permitted wrong codes have been counted the challenge is dead for
\* good: no token pair or reset came or will come of it, even for a request
\* that compared the right code against a snapshot read before.  And it is not
\* dead one code early (the order of the SET clauses in IncrementOTPAttempts).
ExhaustedIsDead ==
    \A c \in Challenges :
        /\ otp[c].attempts = MaxAttempts =>
              /\ otp[c].consumed
              /\ out[c].tokens = 0 /\ out[c].resets = 0
              /\ \A r \in Requests : ~(At(r, "granting") /\ req[r].ref = c)
        /\ NotCutShort(c)

\* Everything a challenge brings about is of its own purpose, and registration
\* and reset act only on a challenge whose code was presented.
EffectsMatchPurpose ==
    \A c \in Challenges :
        /\ out[c].accounts > 0 => otp[c].purpose = "register" /\ otp[c].verified
        /\ out[c].resets > 0 => otp[c].purpose = "password_reset" /\ otp[c].verified
        /\ out[c].tokens > 0 =>
              \/ otp[c].purpose = "login"
              \/ otp[c].purpose = "register" /\ out[c].accounts > 0

\* Registration consumes a challenge only once an account exists, so an applicant
\* whose CreateUser failed can retry with the same reference: a registration
\* challenge used up other than by wrong codes has an account to show for it.
AccountBeforeConsume ==
    \A c \in Challenges :
        otp[c].purpose = "register" /\ otp[c].consumed /\ otp[c].attempts < MaxAttempts
            => out[c].accounts > 0

\* A consumed row is final: no late verify, wrong code, status write or second
\* redeemer changes it any more (only time passes).
ConsumedIsFinal ==
    [][\A c \in Challenges :
          otp[c].consumed => otp'[c] = [otp[c] EXCEPT !.expired = otp'[c].expired]]_vars

\* The challenges implement the abstract one-time pass.
Phase(c) ==
    CASE otp[c].status = "absent" -> "absent"
      [] otp[c].consumed /\ otp[c].attempts = MaxAttempts -> "void"
      [] otp[c].consumed /\ otp[c].attempts < MaxAttempts -> "spent"
      [] otp[c].status # "absent" /\ ~otp[c].consumed /\ otp[c].verified -> "proved"
      [] otp[c].status # "absent" /\ ~otp[c].consumed /\ ~otp[c].verified -> "issued"

PhaseOfAll == [c \in Challenges |-> Phase(c)]
Redeemed   == [c \in Challenges |-> out[c].tokens + out[c].resets > 0]

Pass == INSTANCE OneTimePass
            WITH Passes <- Challenges, pass <- PhaseOfAll, redeemed <- Redeemed

ImplementsOneTimePass == Pass!Spec

-----------------------------------------------------------------------------
(* The inductive invariant behind the properties above.                    *)

Sending == {"sending", "mark_sent", "mark_failed"}

\* What a row's columns say about each other and about what came of it.
RowInv(c) ==
    /\ otp[c].attempts = MaxAttempts => otp[c].consumed
    /\ NotCutShort(c)
    /\ otp[c].status # "sent" =>
          otp[c].attempts = 0 /\ ~otp[c].verified /\ ~otp[c].consumed
    /\ ~otp[c].consumed \/ otp[c].attempts = MaxAttempts =>
          out[c].tokens = 0 /\ out[c].resets = 0
    /\ out[c].tokens + out[c].resets <= 1

\* What a request in flight may rely on, at each stage.
ReqInv(r) ==
    LET q == req[r]
        row == otp[q.ref]
    IN  /\ q.stage # "idle" => q.ref \in Challenges
        /\ q.stage \in Sending => row.status = "pending"
        /\ q.stage = "checking" => row.status = "sent" /\ row.purpose = q.op
        /\ q.stage = "creating" =>
              row.verified /\ row.purpose = "register" /\ PurposeOf(q.op) = "register"
        /\ q.stage \in {"consuming", "granting"} =>
              /\ row.purpose = PurposeOf(q.op)
              /\ row.purpose # "login" => row.verified
              /\ row.purpose = "register" => out[q.ref].accounts > 0
        /\ q.stage = "consuming" => row.purpose # "login"
        /\ q.stage = "granting" =>
              /\ row.consumed /\ row.attempts < MaxAttempts
              /\ out[q.ref].tokens = 0 /\ out[q.ref].resets = 0

\* A row has one sender, and one winner.
Exclusive(q, r) ==
    q # r /\ req[q].ref = req[r].ref =>
        /\ ~(req[q].stage \in Sending /\ req[r].stage \in Sending)
        /\ ~(req[q].stage = "granting" /\ req[r].stage = "granting")

IInv ==
    /\ TypeOK
    /\ \A c \in Challenges : RowInv(c)
    /\ \A r \in Requests : ReqInv(r)
    /\ \A q, r \in Requests : Exclusive(q, r)
    /\ EffectsMatchPurpose
    /\ AccountBeforeConsume

-----------------------------------------------------------------------------
(* Statements of the code's comments and messages that its behaviours       *)
(* contradict.                                                              *)

\* A caller that did not flip the row "must treat [it] as a failure, not
\* silently proceed past" (ConsumeOTPVerification): one registration challenge
\* then stands for at most one account.
OneAccountPerChallenge == \A c \in Challenges : out[c].accounts <= 1

\* "otp verified, you may now complete registration" (and "... reset your
\* password"): a client that was told so holds a verified challenge.
ToldMeansVerified == \A c \in Challenges : out[c].told => otp[c].verified
=============================================================================
