------------------------- MODULE OtpChallengeProofs -------------------------
(***************************************************************************)
(* Proofs about OtpChallenge, for any number of rows and requests and any  *)
(* attempt limit: the inductive invariant IInv, the safety invariants it   *)
(* implies, the finality of consumed rows and the refinement of the        *)
(* abstract one-time pass.                                                 *)
(***************************************************************************)
EXTENDS OtpChallenge, TLAPS

(* What the statements of the repository do to a row.                      *)

LEMMA NewRowShape ==
    ASSUME NEW p \in Purposes
    PROVE  /\ NewRow(p) \in Rows
           /\ NewRow(p).status = "pending" /\ NewRow(p).purpose = p
           /\ NewRow(p).attempts = 0 /\ ~NewRow(p).verified /\ ~NewRow(p).consumed
  BY ChallengeAssumption DEF NewRow, Rows, Statuses

LEMMA MarkedVerifiedShape ==
    ASSUME NEW row \in Rows
    PROVE  /\ MarkedVerified(row) \in Rows
           /\ row.consumed => MarkedVerified(row) = row
           /\ ~row.consumed => MarkedVerified(row).verified
           /\ MarkedVerified(row).status = row.status
           /\ MarkedVerified(row).purpose = row.purpose
           /\ MarkedVerified(row).attempts = row.attempts
           /\ MarkedVerified(row).consumed = row.consumed
           /\ row.verified => MarkedVerified(row).verified
  BY DEF MarkedVerified, Rows

\* The limit is enforced by the row: the attempt that reaches it consumes.
LEMMA IncrementedShape ==
    ASSUME NEW row \in Rows, row.attempts = MaxAttempts => row.consumed
    PROVE  /\ Incremented(row) \in Rows
           /\ row.consumed => Incremented(row) = row
           /\ ~row.consumed =>
                (Incremented(row).consumed <=> Incremented(row).attempts = MaxAttempts)
           /\ Incremented(row).status = row.status
           /\ Incremented(row).purpose = row.purpose
           /\ Incremented(row).verified = row.verified
  <1>1. CASE row.consumed
    BY <1>1 DEF Incremented, Rows
  <1>2. CASE ~row.consumed
    <2>1. row.attempts \in Nat /\ row.attempts + 1 \in 0..MaxAttempts
      BY <1>2, ChallengeAssumption DEF Rows
    <2> DEFINE last == row.attempts + 1 >= MaxAttempts
    <2>2. last \in BOOLEAN /\ (last <=> row.attempts + 1 = MaxAttempts)
      BY <2>1, ChallengeAssumption
    <2>3. Incremented(row) = [row EXCEPT !.consumed = last, !.attempts = row.attempts + 1]
      BY <1>2 DEF Incremented
    <2> HIDE DEF last
    <2>4. /\ Incremented(row).consumed = last
          /\ Incremented(row).attempts = row.attempts + 1
      BY <2>3 DEF Rows
    <2>5. Incremented(row) \in Rows
      BY <2>1, <2>2, <2>3 DEF Rows
    <2> QED BY <1>2, <2>2, <2>3, <2>4, <2>5 DEF Rows
  <1> QED BY <1>1, <1>2

LEMMA ConsumedShape ==
    ASSUME NEW row \in Rows
    PROVE  /\ Consumed(row) \in Rows
           /\ Consumed(row).consumed
           /\ row.consumed => Consumed(row) = row
           /\ Consumed(row).status = row.status
           /\ Consumed(row).purpose = row.purpose
           /\ Consumed(row).attempts = row.attempts
           /\ Consumed(row).verified = row.verified
  BY DEF Consumed, Rows

(* What the assignments to req and otp amount to in a well-typed state.    *)

LEMMA GoToShape ==
    ASSUME TypeOK, NEW r \in Requests, NEW s \in Stages, GoTo(r, s)
    PROVE  /\ req' \in [Requests -> Reqs]
           /\ req'[r].stage = s
           /\ req'[r].op = req[r].op /\ req'[r].ref = req[r].ref
           /\ \A q \in Requests : q # r => req'[q] = req[q]
  BY DEF GoTo, TypeOK, Reqs

LEMMA FinishShape ==
    ASSUME TypeOK, NEW r \in Requests, Finish(r)
    PROVE  /\ req' \in [Requests -> Reqs]
           /\ req'[r] = Idle
           /\ \A q \in Requests : q # r => req'[q] = req[q]
  BY ChallengeAssumption DEF Finish, TypeOK, Reqs, Idle, Stages, Ops, Purposes

LEMMA EnterShape ==
    ASSUME TypeOK, NEW r \in Requests, NEW s \in Stages, NEW op \in Ops,
           NEW c \in Challenges, Enter(r, s, op, c)
    PROVE  /\ req' \in [Requests -> Reqs]
           /\ req'[r].stage = s /\ req'[r].op = op /\ req'[r].ref = c
           /\ \A q \in Requests : q # r => req'[q] = req[q]
  BY DEF Enter, TypeOK, Reqs, Rows

LEMMA WriteShape ==
    ASSUME TypeOK, NEW r \in Requests, req[r].ref \in Challenges,
           NEW row \in Rows, Write(r, row)
    PROVE  /\ otp' \in [Challenges -> Rows]
           /\ otp'[req[r].ref] = row
           /\ \A d \in Challenges : d # req[r].ref => otp'[d] = otp[d]
  BY DEF Write, TypeOK

-----------------------------------------------------------------------------
(* Every action preserves the inductive invariant.  Each lemma below takes  *)
(* one action from IInv to IInv', one step per conjunct.                    *)

LEMMA CreateChallengeStep ==
    ASSUME IInv, NEW r \in Requests, NEW c \in Challenges, NEW p \in Purposes,
           CreateChallenge(r, c, p)
    PROVE  IInv'
  <1> USE ChallengeAssumption
  <1>1. /\ otp' \in [Challenges -> Rows] /\ otp'[c] = NewRow(p)
        /\ \A d \in Challenges : d # c => otp'[d] = otp[d]
    BY NewRowShape DEF CreateChallenge, IInv, TypeOK
  <1>2. /\ req' \in [Requests -> Reqs]
        /\ req'[r].stage = "sending" /\ req'[r].op = p /\ req'[r].ref = c
        /\ \A q \in Requests : q # r => req'[q] = req[q]
    BY EnterShape DEF CreateChallenge, IInv, Ops, Stages
  <1>3. out' = out
    BY DEF CreateChallenge
  <1>4. otp[c].status = "absent" /\ req[r].stage = "idle"
    BY DEF CreateChallenge, At
  <1>5. \A q \in Requests : req[q].stage # "idle" => req[q].ref # c
    BY <1>4 DEF IInv, ReqInv, RowInv, TypeOK, Rows, Reqs, Stages, Sending
  <1>6. TypeOK'
    BY <1>1, <1>2, <1>3 DEF IInv, TypeOK
  <1>7. \A d \in Challenges : RowInv(d)'
    BY <1>1, <1>3, <1>4, NewRowShape DEF IInv, RowInv, NotCutShort
  <1>8. \A q \in Requests : ReqInv(q)'
    BY <1>1, <1>2, <1>3, <1>5, NewRowShape DEF IInv, ReqInv, Sending
  <1>9. \A q, s \in Requests : Exclusive(q, s)'
    BY <1>2, <1>5 DEF IInv, Exclusive, Sending
  <1>10. EffectsMatchPurpose' /\ AccountBeforeConsume'
    BY <1>1, <1>3, <1>4, NewRowShape
       DEF IInv, RowInv, NotCutShort, EffectsMatchPurpose, AccountBeforeConsume, TypeOK, Outs, Many
  <1> QED BY <1>6, <1>7, <1>8, <1>9, <1>10 DEF IInv

\* Steps that leave the tables alone and move one request: its new stage must
\* be one the row it holds supports.
LEMMA RequestStep ==
    ASSUME IInv, NEW r \in Requests, UNCHANGED <<otp, out>>,
           req' \in [Requests -> Reqs],
           \A q \in Requests : q # r => req'[q] = req[q],
           ReqInv(r)',
           req'[r].stage \in Sending =>
              req[r].stage \in Sending /\ req'[r].ref = req[r].ref,
           req'[r].stage # "granting"
    PROVE  IInv'
  <1>1. TypeOK'
    BY DEF IInv, TypeOK
  <1>2. \A d \in Challenges : RowInv(d)'
    BY DEF IInv, RowInv, NotCutShort
  <1>3. \A q \in Requests : ReqInv(q)'
    BY DEF IInv, ReqInv
  <1>4. \A q, s \in Requests : Exclusive(q, s)'
    BY DEF IInv, Exclusive
  <1>5. EffectsMatchPurpose' /\ AccountBeforeConsume'
    BY DEF IInv, EffectsMatchPurpose, AccountBeforeConsume
  <1> QED BY <1>1, <1>2, <1>3, <1>4, <1>5 DEF IInv

LEMMA SendSMSStep ==
    ASSUME IInv, NEW r \in Requests, SendSMS(r) PROVE IInv'
  <1>1. PICK verdict \in {"mark_sent", "mark_failed"} : GoTo(r, verdict)
    BY DEF SendSMS
  <1>2. /\ req' \in [Requests -> Reqs] /\ req'[r].stage = verdict
        /\ req'[r].op = req[r].op /\ req'[r].ref = req[r].ref
        /\ \A q \in Requests : q # r => req'[q] = req[q]
    BY <1>1, GoToShape DEF IInv, Stages
  <1>3. UNCHANGED <<otp, out>> /\ req[r].stage = "sending"
    BY DEF SendSMS, At
  <1>4. ReqInv(r)'
    BY <1>2, <1>3 DEF IInv, ReqInv, Sending
  <1> QED BY <1>1, <1>2, <1>3, <1>4, RequestStep DEF Sending

LEMMA BeginVerifyStep ==
    ASSUME IInv, NEW r \in Requests, NEW c \in Challenges, NEW p \in Purposes,
           BeginVerify(r, c, p)
    PROVE  IInv'
  <1>1. /\ req' \in [Requests -> Reqs]
        /\ req'[r].stage = "checking" /\ req'[r].op = p /\ req'[r].ref = c
        /\ \A q \in Requests : q # r => req'[q] = req[q]
    BY EnterShape DEF BeginVerify, IInv, Ops, Stages
  <1>2. UNCHANGED <<otp, out>> /\ otp[c].status = "sent" /\ otp[c].purpose = p
    BY DEF BeginVerify, IsActive
  <1>3. ReqInv(r)'
    BY <1>1, <1>2 DEF ReqInv, Sending
  <1> QED BY <1>1, <1>2, <1>3, RequestStep DEF Sending

LEMMA BeginRedeemStep ==
    ASSUME IInv, NEW r \in Requests, NEW c \in Challenges, NEW op \in Ops,
           BeginRedeem(r, c, op)
    PROVE  IInv'
  <1>1. FirstRedeemStage(op) \in {"creating", "consuming"}
    BY DEF FirstRedeemStage
  <1>2. /\ req' \in [Requests -> Reqs]
        /\ req'[r].stage = FirstRedeemStage(op) /\ req'[r].op = op /\ req'[r].ref = c
        /\ \A q \in Requests : q # r => req'[q] = req[q]
    BY <1>1, EnterShape DEF BeginRedeem, IInv, Stages
  <1>3. /\ UNCHANGED <<otp, out>>
        /\ otp[c].verified /\ otp[c].purpose = PurposeOf(op) /\ op # "login"
    BY DEF BeginRedeem, IsRedeemable, Serves
  <1>4. ReqInv(r)'
    BY <1>1, <1>2, <1>3
       DEF ReqInv, Sending, FirstRedeemStage, PurposeOf, Ops, Purposes
  <1> QED BY <1>1, <1>2, <1>3, <1>4, RequestStep DEF Sending

\* A request that ends, with or without its status write lost.
LEMMA FinishStep ==
    ASSUME IInv, NEW r \in Requests, Finish(r), UNCHANGED <<otp, out>>
    PROVE  IInv'
  <1>1. /\ req' \in [Requests -> Reqs] /\ req'[r] = Idle
        /\ \A q \in Requests : q # r => req'[q] = req[q]
    BY FinishShape DEF IInv
  <1>2. ReqInv(r)'
    BY <1>1 DEF ReqInv, Idle, Sending
  <1> QED BY <1>1, <1>2, RequestStep DEF Idle, Sending

LEMMA CrashStep ==
    ASSUME IInv, Crash PROVE IInv'
  <1>1. \A q \in Requests : req'[q] = Idle
    BY DEF Crash
  <1>2. TypeOK'
    BY ChallengeAssumption
       DEF Crash, IInv, TypeOK, Idle, Reqs, Stages, Ops, Purposes
  <1> QED BY <1>1, <1>2
       DEF Crash, IInv, RowInv, NotCutShort, ReqInv, Exclusive, Idle, Sending,
           EffectsMatchPurpose, AccountBeforeConsume

LEMMA ExpireStep ==
    ASSUME IInv, NEW c \in Challenges, Expire(c) PROVE IInv'
  <1>1. /\ UNCHANGED <<req, out>>
        /\ otp' = [otp EXCEPT ![c].expired = TRUE]
    BY DEF Expire
  <1>2. /\ otp' \in [Challenges -> Rows]
        /\ \A d \in Challenges :
              /\ otp'[d].status = otp[d].status /\ otp'[d].purpose = otp[d].purpose
              /\ otp'[d].attempts = otp[d].attempts
              /\ otp'[d].verified = otp[d].verified /\ otp'[d].consumed = otp[d].consumed
    BY <1>1 DEF IInv, TypeOK, Rows
  <1> QED BY <1>1, <1>2
       DEF IInv, TypeOK, RowInv, NotCutShort, ReqInv, Exclusive, Sending,
           EffectsMatchPurpose, AccountBeforeConsume

LEMMA MarkDeliveryStep ==
    ASSUME IInv, NEW r \in Requests, NEW stage \in Sending,
           NEW status \in {"sent", "failed"}, MarkDelivery(r, stage, status)
    PROVE  IInv'
  <1> DEFINE c == req[r].ref
  <1>1. CASE UNCHANGED otp
    BY <1>1, FinishStep DEF MarkDelivery
  <1>2. CASE Write(r, [Row(r) EXCEPT !.status = status])
    <2>1. /\ c \in Challenges /\ otp[c] \in Rows /\ otp[c].status = "pending"
          /\ req[r].stage \in Sending /\ out' = out
      BY DEF MarkDelivery, At, IInv, ReqInv, TypeOK, Sending
    <2>2. /\ otp' \in [Challenges -> Rows]
          /\ \A d \in Challenges : d # c => otp'[d] = otp[d]
      BY <1>2, <2>1 DEF Write, Row, IInv, TypeOK, Rows, Statuses
    <2>3. /\ otp'[c].status = status /\ otp'[c].purpose = otp[c].purpose
          /\ otp'[c].attempts = otp[c].attempts /\ otp'[c].verified = otp[c].verified
          /\ otp'[c].consumed = otp[c].consumed
      BY <1>2, <2>1 DEF Write, Row, IInv, TypeOK, Rows
    <2>4. /\ req' \in [Requests -> Reqs] /\ req'[r] = Idle
          /\ \A q \in Requests : q # r => req'[q] = req[q]
      BY FinishShape DEF MarkDelivery, IInv
    <2>5. TypeOK'
      BY <2>1, <2>2, <2>4 DEF IInv, TypeOK
    <2>6. \A d \in Challenges : RowInv(d)'
      BY <2>1, <2>2, <2>3 DEF IInv, RowInv, NotCutShort
    <2>7. \A q \in Requests : q # r /\ req[q].ref = c => req[q].stage \notin Sending
      BY <2>1 DEF IInv, Exclusive
    <2>8. \A q \in Requests : ReqInv(q)'
      BY <2>1, <2>2, <2>3, <2>4, <2>7 DEF IInv, ReqInv, Idle, Sending
    <2>9. \A q, s \in Requests : Exclusive(q, s)'
      BY <2>4 DEF IInv, Exclusive, Idle, Sending
    <2>10. EffectsMatchPurpose' /\ AccountBeforeConsume'
      BY <2>1, <2>2, <2>3 DEF IInv, EffectsMatchPurpose, AccountBeforeConsume
    <2> QED BY <2>5, <2>6, <2>8, <2>9, <2>10 DEF IInv
  <1> QED BY <1>1, <1>2 DEF MarkDelivery

\* A wrong code on a live row: the row counts it, and may be consumed by it.
LEMMA RejectCodeStep ==
    ASSUME IInv, NEW r \in Requests, RejectCode(r) PROVE IInv'
  <1> DEFINE c == req[r].ref
  <1>1. CASE UNCHANGED otp
    BY <1>1, FinishStep DEF RejectCode
  <1>2. CASE Write(r, Incremented(Row(r)))
    <2>1. /\ c \in Challenges /\ otp[c] \in Rows /\ otp[c].status = "sent"
          /\ otp[c].attempts = MaxAttempts => otp[c].consumed
          /\ out' = out /\ Row(r) = otp[c]
      BY DEF RejectCode, At, Row, IInv, ReqInv, RowInv, TypeOK
    <2>2. /\ otp' \in [Challenges -> Rows]
          /\ otp'[c] = Incremented(otp[c])
          /\ \A d \in Challenges : d # c => otp'[d] = otp[d]
      BY <1>2, <2>1, IncrementedShape, WriteShape DEF IInv
    <2>3. /\ otp'[c].status = "sent" /\ otp'[c].purpose = otp[c].purpose
          /\ otp'[c].verified = otp[c].verified
          /\ otp[c].consumed => otp'[c] = otp[c]
          /\ ~otp[c].consumed =>
                (otp'[c].consumed <=> otp'[c].attempts = MaxAttempts)
      BY <2>1, <2>2, IncrementedShape
    <2>4. /\ req' \in [Requests -> Reqs] /\ req'[r] = Idle
          /\ \A q \in Requests : q # r => req'[q] = req[q]
      BY FinishShape DEF RejectCode, IInv
    <2>5. TypeOK'
      BY <2>1, <2>2, <2>4 DEF IInv, TypeOK
    <2>6. \A d \in Challenges : RowInv(d)'
      BY <2>1, <2>2, <2>3, ChallengeAssumption DEF IInv, RowInv, NotCutShort
    <2>7. \A q \in Requests : ReqInv(q)'
      BY <2>1, <2>2, <2>3, <2>4 DEF IInv, ReqInv, Idle, Sending
    <2>8. \A q, s \in Requests : Exclusive(q, s)'
      BY <2>4 DEF IInv, Exclusive, Idle, Sending
    <2>9. EffectsMatchPurpose' /\ AccountBeforeConsume'
      BY <2>1, <2>2, <2>3, ChallengeAssumption
         DEF IInv, EffectsMatchPurpose, AccountBeforeConsume, TypeOK, Rows
    <2> QED BY <2>5, <2>6, <2>7, <2>8, <2>9 DEF IInv
  <1> QED BY <1>1, <1>2 DEF RejectCode

LEMMA AcceptCodeStep ==
    ASSUME IInv, NEW r \in Requests, AcceptCode(r) PROVE IInv'
  <1> DEFINE c == req[r].ref
  <1>1. /\ c \in Challenges /\ otp[c] \in Rows /\ otp[c].status = "sent"
        /\ Row(r) = otp[c]
    BY DEF AcceptCode, At, Row, IInv, ReqInv, TypeOK
  <1>2. /\ otp' \in [Challenges -> Rows]
        /\ otp'[c] = MarkedVerified(otp[c])
        /\ \A d \in Challenges : d # c => otp'[d] = otp[d]
    BY <1>1, MarkedVerifiedShape, WriteShape DEF AcceptCode, IInv
  <1>3. /\ otp'[c].status = "sent" /\ otp'[c].purpose = otp[c].purpose
        /\ otp'[c].attempts = otp[c].attempts /\ otp'[c].consumed = otp[c].consumed
        /\ otp[c].verified => otp'[c].verified
    BY <1>1, <1>2, MarkedVerifiedShape
  <1>4. /\ req' \in [Requests -> Reqs] /\ req'[r] = Idle
        /\ \A q \in Requests : q # r => req'[q] = req[q]
    BY FinishShape DEF AcceptCode, IInv
  <1>5. /\ out' \in [Challenges -> Outs]
        /\ \A d \in Challenges :
              /\ out'[d].accounts = out[d].accounts
              /\ out'[d].tokens = out[d].tokens /\ out'[d].resets = out[d].resets
    BY <1>1 DEF AcceptCode, IInv, TypeOK, Outs
  <1>6. TypeOK'
    BY <1>2, <1>4, <1>5 DEF IInv, TypeOK
  <1>7. \A d \in Challenges : RowInv(d)'
    BY <1>1, <1>2, <1>3, <1>5 DEF IInv, RowInv, NotCutShort
  <1>8. \A q \in Requests : ReqInv(q)'
    BY <1>1, <1>2, <1>3, <1>4, <1>5 DEF IInv, ReqInv, Idle, Sending
  <1>9. \A q, s \in Requests : Exclusive(q, s)'
    BY <1>4 DEF IInv, Exclusive, Idle, Sending
  <1>10. EffectsMatchPurpose' /\ AccountBeforeConsume'
    BY <1>1, <1>2, <1>3, <1>5 DEF IInv, EffectsMatchPurpose, AccountBeforeConsume
  <1> QED BY <1>6, <1>7, <1>8, <1>9, <1>10 DEF IInv

\* The consuming statement: of all requests that reach it, one flips the row.
LEMMA ConsumeStep ==
    ASSUME IInv, NEW r \in Requests, Consume(r),
           \/ req[r].stage = "checking" /\ req[r].op = "login"
           \/ req[r].stage = "consuming"
    PROVE  IInv'
  <1> DEFINE c == req[r].ref
  <1>1. /\ c \in Challenges /\ otp[c] \in Rows /\ otp[c].status = "sent"
        /\ Row(r) = otp[c] /\ out' = out
        /\ otp[c].purpose = PurposeOf(req[r].op)
        /\ otp[c].purpose # "login" => otp[c].verified
        /\ otp[c].purpose = "register" => out[c].accounts > 0
    BY DEF Consume, Row, IInv, ReqInv, RowInv, TypeOK, PurposeOf
  <1>2. /\ otp' \in [Challenges -> Rows]
        /\ otp'[c] = Consumed(otp[c])
        /\ \A d \in Challenges : d # c => otp'[d] = otp[d]
    BY <1>1, ConsumedShape, WriteShape DEF Consume, IInv
  <1>3. /\ otp'[c].status = "sent" /\ otp'[c].purpose = otp[c].purpose
        /\ otp'[c].attempts = otp[c].attempts /\ otp'[c].verified = otp[c].verified
        /\ otp'[c].consumed /\ (otp[c].consumed => otp'[c] = otp[c])
    BY <1>1, <1>2, ConsumedShape
  <1>4. /\ req' \in [Requests -> Reqs]
        /\ \A q \in Requests : q # r => req'[q] = req[q]
        /\ \/ req'[r] = Idle
           \/ /\ ~otp[c].consumed
              /\ req'[r].stage = "granting"
              /\ req'[r].op = req[r].op /\ req'[r].ref = c
    BY <1>1, GoToShape, FinishShape DEF Consume, Wins, IInv, Stages
  <1>5. TypeOK'
    BY <1>1, <1>2, <1>4 DEF IInv, TypeOK
  <1>6. \A d \in Challenges : RowInv(d)'
    BY <1>1, <1>2, <1>3 DEF IInv, RowInv, NotCutShort
  <1>7. ReqInv(r)'
    <2>1. CASE req'[r] = Idle
      BY <2>1 DEF ReqInv, Idle, Sending
    <2>2. CASE req'[r].stage = "granting" /\ ~otp[c].consumed
               /\ req'[r].op = req[r].op /\ req'[r].ref = c
      <3>1. otp[c].attempts < MaxAttempts /\ out[c].tokens = 0 /\ out[c].resets = 0
        BY <1>1, <2>2, ChallengeAssumption DEF IInv, RowInv, Rows
      <3> QED BY <1>1, <1>3, <2>2, <3>1 DEF ReqInv, Sending
    <2> QED BY <1>4, <2>1, <2>2
  <1>8. \A q \in Requests : ReqInv(q)'
    BY <1>1, <1>2, <1>3, <1>4, <1>7 DEF IInv, ReqInv, Sending
  <1>9. \A q \in Requests : ~otp[c].consumed /\ req[q].ref = c => req[q].stage # "granting"
    BY DEF IInv, ReqInv
  <1>10. \A q, s \in Requests : Exclusive(q, s)'
    BY <1>4, <1>9 DEF IInv, Exclusive, Idle, Sending
  <1>11. EffectsMatchPurpose' /\ AccountBeforeConsume'
    BY <1>1, <1>2, <1>3 DEF IInv, EffectsMatchPurpose, AccountBeforeConsume
  <1> QED BY <1>5, <1>6, <1>8, <1>10, <1>11 DEF IInv

LEMMA CreateAccountStep ==
    ASSUME IInv, NEW r \in Requests, CreateAccount(r) PROVE IInv'
  <1> DEFINE c == req[r].ref
  <1>1. /\ c \in Challenges /\ otp' = otp
        /\ otp[c].verified /\ otp[c].purpose = "register"
        /\ PurposeOf(req[r].op) = "register"
    BY DEF CreateAccount, At, IInv, ReqInv
  <1>2. /\ req' \in [Requests -> Reqs]
        /\ req'[r].stage = "consuming" /\ req'[r].op = req[r].op /\ req'[r].ref = c
        /\ \A q \in Requests : q # r => req'[q] = req[q]
    BY GoToShape DEF CreateAccount, IInv, Stages
  <1>3. /\ out' \in [Challenges -> Outs] /\ out'[c].accounts > 0
        /\ \A d \in Challenges :
              /\ out'[d].tokens = out[d].tokens /\ out'[d].resets = out[d].resets
              /\ out'[d].accounts > 0 <=> d = c \/ out[d].accounts > 0
    BY <1>1 DEF CreateAccount, IInv, TypeOK, Outs, OneMore, Many
  <1>4. TypeOK'
    BY <1>1, <1>2, <1>3 DEF IInv, TypeOK
  <1>5. \A d \in Challenges : RowInv(d)'
    BY <1>1, <1>3 DEF IInv, RowInv, NotCutShort
  <1>6. \A q \in Requests : ReqInv(q)'
    BY <1>1, <1>2, <1>3 DEF IInv, ReqInv, Sending
  <1>7. \A q, s \in Requests : Exclusive(q, s)'
    BY <1>2 DEF IInv, Exclusive, Sending
  <1>8. EffectsMatchPurpose' /\ AccountBeforeConsume'
    BY <1>1, <1>3 DEF IInv, EffectsMatchPurpose, AccountBeforeConsume
  <1> QED BY <1>4, <1>5, <1>6, <1>7, <1>8 DEF IInv

\* What the winner hands out is the first thing the challenge buys, and it
\* leaves its stage with it.
LEMMA GrantStep ==
    ASSUME IInv, NEW r \in Requests, Grant(r) PROVE IInv'
  <1> DEFINE c == req[r].ref
  <1>1. /\ c \in Challenges /\ otp' = otp /\ req[r].stage = "granting"
        /\ otp[c].consumed /\ otp[c].attempts < MaxAttempts
        /\ out[c].tokens = 0 /\ out[c].resets = 0
        /\ otp[c].purpose = PurposeOf(req[r].op)
        /\ otp[c].purpose # "login" => otp[c].verified
        /\ otp[c].purpose = "register" => out[c].accounts > 0
    BY DEF Grant, At, IInv, ReqInv
  <1>2. /\ req' \in [Requests -> Reqs] /\ req'[r] = Idle
        /\ \A q \in Requests : q # r => req'[q] = req[q]
    BY FinishShape DEF Grant, IInv
  <1>3. req[r].op \in {"login", "register", "password_reset", "young_saver"}
    BY DEF IInv, TypeOK, Reqs, Ops, Purposes
  <1>4. /\ out' \in [Challenges -> Outs]
        /\ \A d \in Challenges :
              /\ out'[d].accounts = out[d].accounts
              /\ d # c => out'[d] = out[d]
        /\ out'[c].tokens + out'[c].resets <= 1
        /\ out'[c].tokens > 0 => req[r].op \in {"login", "register"}
        /\ out'[c].resets > 0 => req[r].op = "password_reset"
    <2>1. CASE req[r].op \in {"login", "register"}
      <3>1. out' = [out EXCEPT ![c].tokens = OneMore(@)]
        BY <2>1 DEF Grant
      <3> QED BY <1>1, <2>1, <3>1 DEF IInv, TypeOK, Outs, OneMore, Many
    <2>2. CASE req[r].op = "password_reset"
      <3>1. out' = [out EXCEPT ![c].resets = OneMore(@)]
        BY <2>2 DEF Grant
      <3> QED BY <1>1, <2>2, <3>1 DEF IInv, TypeOK, Outs, OneMore, Many
    <2>3. CASE req[r].op = "young_saver"
      <3>1. out' = out
        BY <2>3 DEF Grant
      <3> QED BY <1>1, <2>3, <3>1 DEF IInv, TypeOK
    <2> QED BY <1>3, <2>1, <2>2, <2>3
  <1>5. TypeOK'
    BY <1>1, <1>2, <1>4 DEF IInv, TypeOK
  <1>6. \A d \in Challenges : RowInv(d)'
    BY <1>1, <1>4, ChallengeAssumption DEF IInv, RowInv, NotCutShort, TypeOK, Rows
  <1>7. \A q \in Requests : q # r /\ req[q].stage = "granting" => req[q].ref # c
    BY <1>1 DEF IInv, Exclusive
  <1>8. \A q \in Requests : ReqInv(q)'
    BY <1>1, <1>2, <1>4, <1>7 DEF IInv, ReqInv, Idle, Sending
  <1>9. \A q, s \in Requests : Exclusive(q, s)'
    BY <1>2 DEF IInv, Exclusive, Idle, Sending
  <1>10. EffectsMatchPurpose' /\ AccountBeforeConsume'
    BY <1>1, <1>3, <1>4
       DEF IInv, EffectsMatchPurpose, AccountBeforeConsume, PurposeOf
  <1> QED BY <1>5, <1>6, <1>8, <1>9, <1>10 DEF IInv

-----------------------------------------------------------------------------
LEMMA InitIInv == Init => IInv
  BY ChallengeAssumption
     DEF Init, IInv, TypeOK, RowInv, NotCutShort, ReqInv, Exclusive, EffectsMatchPurpose,
         AccountBeforeConsume, NoRow, Idle, Rows, Reqs, Outs, Statuses, Purposes,
         Stages, Ops, Many, Sending

LEMMA NextIInv == IInv /\ [Next]_vars => IInv'
  <1> SUFFICES ASSUME IInv, [Next]_vars PROVE IInv'
    OBVIOUS
  <1>1. ASSUME NEW r \in Requests, NEW c \in Challenges,
               \/ SendLoginOTP(r, c) \/ SendRegisterOTP(r, c) \/ ForgotPassword(r, c)
        PROVE  IInv'
    BY <1>1, CreateChallengeStep
       DEF SendLoginOTP, SendRegisterOTP, ForgotPassword, Purposes
  <1>2. ASSUME NEW r \in Requests, NEW c \in Challenges, NEW p \in Purposes,
               BeginVerify(r, c, p)
        PROVE  IInv'
    BY <1>2, BeginVerifyStep
  <1>3. ASSUME NEW r \in Requests, NEW c \in Challenges, NEW op \in Ops,
               BeginRedeem(r, c, op)
        PROVE  IInv'
    BY <1>3, BeginRedeemStep
  <1>4. ASSUME NEW r \in Requests, SendSMS(r) PROVE IInv'
    BY <1>4, SendSMSStep
  <1>5. ASSUME NEW r \in Requests, MarkOTPSent(r) \/ MarkOTPSendFailed(r) PROVE IInv'
    BY <1>5, MarkDeliveryStep DEF MarkOTPSent, MarkOTPSendFailed, Sending
  <1>6. ASSUME NEW r \in Requests, RejectCode(r) PROVE IInv'
    BY <1>6, RejectCodeStep
  <1>7. ASSUME NEW r \in Requests, AcceptCode(r) PROVE IInv'
    BY <1>7, AcceptCodeStep
  <1>8. ASSUME NEW r \in Requests, AcceptLoginCode(r) \/ ConsumeRedeemed(r) PROVE IInv'
    BY <1>8, ConsumeStep DEF AcceptLoginCode, ConsumeRedeemed, At
  <1>9. ASSUME NEW r \in Requests, CreateAccount(r) PROVE IInv'
    BY <1>9, CreateAccountStep
  <1>10. ASSUME NEW r \in Requests, Grant(r) PROVE IInv'
    BY <1>10, GrantStep
  <1>11. ASSUME NEW r \in Requests, Abort(r) PROVE IInv'
    BY <1>11, FinishStep DEF Abort
  <1>12. CASE Crash
    BY <1>12, CrashStep
  <1>13. ASSUME NEW c \in Challenges, Expire(c) PROVE IInv'
    BY <1>13, ExpireStep
  <1>14. CASE UNCHANGED vars
    BY <1>14
       DEF vars, IInv, TypeOK, RowInv, NotCutShort, ReqInv, Exclusive, EffectsMatchPurpose,
           AccountBeforeConsume
  <1> QED BY <1>1, <1>2, <1>3, <1>4, <1>5, <1>6, <1>7, <1>8, <1>9, <1>10, <1>11,
             <1>12, <1>13, <1>14 DEF Next

LEMMA Inductive == Spec => []IInv
  BY InitIInv, NextIInv, PTL DEF Spec

\* The state is well typed: in particular no row ever counts more than
\* MaxAttempts wrong codes, however many requests race.
THEOREM TypeCorrect == Spec => []TypeOK
  <1>1. IInv => TypeOK
    BY DEF IInv
  <1> QED BY <1>1, Inductive, PTL

\* One challenge is redeemed at most once, whatever requests race for it.
THEOREM RedemptionSafe == Spec => []RedeemedOnce
  <1>1. IInv => RedeemedOnce
    BY DEF IInv, RowInv, RedeemedOnce
  <1> QED BY <1>1, Inductive, PTL

\* A challenge whose permitted wrong codes were counted before the right one
\* came is never redeemed.
THEOREM ExhaustionKills == Spec => []ExhaustedIsDead
  <1>1. IInv => ExhaustedIsDead
    <2> SUFFICES ASSUME IInv, NEW c \in Challenges
                 PROVE  /\ NotCutShort(c)
                        /\ otp[c].attempts = MaxAttempts =>
                              /\ otp[c].consumed /\ out[c].tokens = 0 /\ out[c].resets = 0
                              /\ \A r \in Requests : ~(At(r, "granting") /\ req[r].ref = c)
      BY DEF ExhaustedIsDead
    <2>1. RowInv(c)
      BY DEF IInv
    <2>2. \A r \in Requests : At(r, "granting") /\ req[r].ref = c => otp[c].attempts < MaxAttempts
      BY DEF IInv, ReqInv, At
    <2> QED BY <2>1, <2>2, ChallengeAssumption DEF RowInv
  <1> QED BY <1>1, Inductive, PTL

\* A challenge brings about only what its purpose allows and, for registration
\* and reset, only once its code was presented.
THEOREM EffectsSafe == Spec => []EffectsMatchPurpose
  <1>1. IInv => EffectsMatchPurpose
    BY DEF IInv
  <1> QED BY <1>1, Inductive, PTL

\* Registration uses a challenge up only after creating an account with it.
THEOREM AccountComesFirst == Spec => []AccountBeforeConsume
  <1>1. IInv => AccountBeforeConsume
    BY DEF IInv
  <1> QED BY <1>1, Inductive, PTL

-----------------------------------------------------------------------------
(* A consumed row never changes again, save for the clock.                 *)

Final == \A c \in Challenges :
            otp[c].consumed => otp'[c] = [otp[c] EXCEPT !.expired = otp'[c].expired]

LEMMA RowUnchanged ==
    ASSUME NEW row \in Rows PROVE row = [row EXCEPT !.expired = row.expired]
  BY DEF Rows

\* No verify, redeem or status write of any request alters a consumed row.
THEOREM ConsumedRowsFinal == Spec => ConsumedIsFinal
  <1>1. IInv /\ [Next]_vars => [Final]_vars
    <2> SUFFICES ASSUME IInv, [Next]_vars, NEW c \in Challenges, otp[c].consumed
                 PROVE  otp'[c] = [otp[c] EXCEPT !.expired = otp'[c].expired]
      BY DEF Final
    <2>1. otp[c] \in Rows /\ otp[c].status = "sent"
      BY DEF IInv, RowInv, TypeOK
    <2>2. CASE otp'[c] = otp[c]
      BY <2>1, <2>2, RowUnchanged
    <2>3. ASSUME NEW r \in Requests, NEW d \in Challenges, NEW p \in Purposes,
                 CreateChallenge(r, d, p)
          PROVE  otp'[c] = otp[c]
      BY <2>1, <2>3 DEF CreateChallenge, IInv, TypeOK
    <2>4. ASSUME NEW r \in Requests,
                 MarkDelivery(r, "mark_sent", "sent") \/ MarkDelivery(r, "mark_failed", "failed")
          PROVE  otp'[c] = otp[c]
      BY <2>1, <2>4 DEF MarkDelivery, Write, At, IInv, TypeOK, ReqInv, Sending
    <2>5. ASSUME NEW r \in Requests, RejectCode(r) PROVE otp'[c] = otp[c]
      BY <2>1, <2>5 DEF RejectCode, Incremented, Write, Row, IInv, TypeOK
    <2>6. ASSUME NEW r \in Requests, AcceptCode(r) PROVE otp'[c] = otp[c]
      BY <2>1, <2>6 DEF AcceptCode, MarkedVerified, Write, Row, IInv, TypeOK
    <2>7. ASSUME NEW r \in Requests, Consume(r) PROVE otp'[c] = otp[c]
      BY <2>1, <2>7, ConsumedShape DEF Consume, Write, Row, IInv, TypeOK
    <2>8. ASSUME NEW d \in Challenges, Expire(d)
          PROVE  otp'[c] = [otp[c] EXCEPT !.expired = otp'[c].expired]
      <3>1. CASE d = c
        BY <2>1, <2>8, <3>1 DEF Expire, IInv, TypeOK, Rows
      <3>2. CASE d # c
        BY <2>2, <2>8, <3>2 DEF Expire, IInv, TypeOK
      <3> QED BY <3>1, <3>2
    <2>9. ASSUME UNCHANGED otp PROVE otp'[c] = otp[c]
      BY <2>9
    <2>10. CASE Next
      BY <2>2, <2>3, <2>4, <2>5, <2>6, <2>7, <2>8, <2>9, <2>10
         DEF Next, SendLoginOTP, SendRegisterOTP, ForgotPassword, Purposes, BeginVerify,
             BeginRedeem, SendSMS, MarkOTPSent, MarkOTPSendFailed, AcceptLoginCode,
             CreateAccount, ConsumeRedeemed, Grant, Abort, Crash
    <2> QED BY <2>2, <2>9, <2>10 DEF vars
  <1> QED BY <1>1, Inductive, PTL DEF Spec, ConsumedIsFinal, Final
-----------------------------------------------------------------------------
(* The challenges implement OneTimePass.                                   *)

Got(c) == out[c].tokens + out[c].resets > 0

LEMMA PhaseCases ==
    ASSUME IInv, NEW c \in Challenges
    PROVE  /\ otp[c].status = "absent" => Phase(c) = "absent"
           /\ otp[c].status # "absent" /\ ~otp[c].consumed =>
                 Phase(c) = IF otp[c].verified THEN "proved" ELSE "issued"
           /\ otp[c].consumed =>
                 Phase(c) = IF otp[c].attempts = MaxAttempts THEN "void" ELSE "spent"
  <1>1. /\ otp[c].attempts <= MaxAttempts /\ otp[c].attempts \in Nat
        /\ otp[c].consumed \in BOOLEAN /\ otp[c].verified \in BOOLEAN
        /\ otp[c].status = "absent" => ~otp[c].consumed
    BY ChallengeAssumption DEF IInv, TypeOK, RowInv, Rows
  <1> QED BY <1>1, ChallengeAssumption DEF Phase

\* A step that changes one row, or what came of it, moves one pass.
LEMMA OnePassMoves ==
    ASSUME NEW c \in Challenges,
           \A d \in Challenges : d # c => otp'[d] = otp[d] /\ out'[d] = out[d]
    PROVE  /\ PhaseOfAll' = [PhaseOfAll EXCEPT ![c] = Phase(c)']
           /\ Redeemed' = [Redeemed EXCEPT ![c] = Got(c)']
  <1>1. ASSUME NEW d \in Challenges, d # c
        PROVE  Phase(d)' = Phase(d) /\ Got(d)' = Got(d)
    BY <1>1 DEF Phase, Got
  <1>2. PhaseOfAll' = [d \in Challenges |-> Phase(d)'] /\ Redeemed' = [d \in Challenges |-> Got(d)']
    BY DEF PhaseOfAll, Redeemed, Got
  <1>3. PhaseOfAll = [d \in Challenges |-> Phase(d)] /\ Redeemed = [d \in Challenges |-> Got(d)]
    BY DEF PhaseOfAll, Redeemed, Got
  <1> QED BY <1>1, <1>2, <1>3

LEMMA PassStep ==
    ASSUME NEW c \in Challenges,
           \A d \in Challenges : d # c => otp'[d] = otp[d] /\ out'[d] = out[d],
           \/ Phase(c)' = Phase(c) /\ Got(c)' = Got(c)
           \/ /\ Got(c)' = Got(c)
              /\ \/ Phase(c) = "absent" /\ Phase(c)' = "issued"
                 \/ Phase(c) = "issued" /\ Phase(c)' = "proved"
                 \/ Phase(c) \in {"issued", "proved"} /\ Phase(c)' \in {"spent", "void"}
           \/ /\ Phase(c) = "spent" /\ Phase(c)' = "spent"
              /\ Got(c) = FALSE /\ Got(c)' = TRUE
    PROVE  [Pass!Next]_(Pass!vars)
  <1>1. /\ PhaseOfAll' = [PhaseOfAll EXCEPT ![c] = Phase(c)']
        /\ Redeemed' = [Redeemed EXCEPT ![c] = Got(c)']
    BY OnePassMoves
  <1>2. /\ PhaseOfAll[c] = Phase(c) /\ Redeemed[c] = Got(c)
        /\ DOMAIN PhaseOfAll = Challenges /\ DOMAIN Redeemed = Challenges
    BY DEF PhaseOfAll, Redeemed, Got
  <1>3. Phase(c)' = Phase(c) => PhaseOfAll' = PhaseOfAll
    BY <1>1, <1>2 DEF PhaseOfAll
  <1>4. Got(c)' = Got(c) => Redeemed' = Redeemed
    BY <1>1, <1>2 DEF Redeemed
  <1> QED BY <1>1, <1>2, <1>3, <1>4
             DEF Pass!Next, Pass!vars, Pass!Issue, Pass!Prove, Pass!Spend, Pass!Void,
                 Pass!Redeem, Pass!Move

\* Steps that touch no row and hand nothing out leave every pass where it was.
LEMMA PassStutter ==
    ASSUME UNCHANGED otp, \A c \in Challenges : Got(c)' = Got(c)
    PROVE  UNCHANGED Pass!vars
  <1>1. \A c \in Challenges : Phase(c)' = Phase(c)
    BY DEF Phase
  <1>2. PhaseOfAll' = [c \in Challenges |-> Phase(c)'] /\ Redeemed' = [c \in Challenges |-> Got(c)']
    BY DEF PhaseOfAll, Redeemed, Got
  <1>3. PhaseOfAll = [c \in Challenges |-> Phase(c)] /\ Redeemed = [c \in Challenges |-> Got(c)]
    BY DEF PhaseOfAll, Redeemed, Got
  <1> QED BY <1>1, <1>2, <1>3 DEF Pass!vars

LEMMA PassInit == Init => Pass!Init
  <1> SUFFICES ASSUME Init PROVE Pass!Init
    OBVIOUS
  <1>1. IInv
    BY InitIInv
  <1>2. \A c \in Challenges : otp[c].status = "absent" /\ Got(c) = FALSE
    <2>1. \A c \in Challenges : otp[c].status = "absent"
      BY DEF Init, NoRow
    <2>2. \A c \in Challenges : out[c].tokens = 0 /\ out[c].resets = 0
      BY <1>1, <2>1 DEF IInv, RowInv
    <2>3. ASSUME NEW c \in Challenges PROVE Got(c) = FALSE
      BY <2>2 DEF Got
    <2> QED BY <2>1, <2>3
  <1>3. \A c \in Challenges : Phase(c) = "absent"
    BY <1>1, <1>2, PhaseCases
  <1> QED BY <1>2, <1>3 DEF Pass!Init, PhaseOfAll, Redeemed, Got

LEMMA PassNext ==
    ASSUME IInv, IInv', [Next]_vars PROVE [Pass!Next]_(Pass!vars)
  <1>0. ASSUME NEW c \in Challenges
        PROVE  /\ otp'[c].status = "absent" => Phase(c)' = "absent"
               /\ otp'[c].status # "absent" /\ ~otp'[c].consumed =>
                     Phase(c)' = IF otp'[c].verified THEN "proved" ELSE "issued"
               /\ otp'[c].consumed =>
                     Phase(c)' = IF otp'[c].attempts = MaxAttempts THEN "void" ELSE "spent"
    <2>1. otp'[c].attempts <= MaxAttempts /\ otp'[c].attempts \in Nat
      BY ChallengeAssumption DEF IInv, TypeOK, Rows
    <2>2. /\ otp'[c].consumed \in BOOLEAN /\ otp'[c].verified \in BOOLEAN
          /\ otp'[c].status = "absent" => ~otp'[c].consumed
      BY DEF IInv, TypeOK, RowInv, Rows
    <2> QED BY <2>1, <2>2, ChallengeAssumption DEF Phase
  <1>1. ASSUME NEW r \in Requests, NEW c \in Challenges, NEW p \in Purposes,
               CreateChallenge(r, c, p)
        PROVE  [Pass!Next]_(Pass!vars)
    <2>1. /\ otp'[c] = NewRow(p) /\ out' = out /\ otp[c].status = "absent"
          /\ \A d \in Challenges : d # c => otp'[d] = otp[d]
      BY <1>1 DEF CreateChallenge, IInv, TypeOK
    <2>2. Phase(c) = "absent" /\ Phase(c)' = "issued" /\ Got(c)' = Got(c)
      BY <2>1, <1>0, NewRowShape, PhaseCases DEF Got
    <2> QED BY <2>1, <2>2, PassStep
  <1>2. ASSUME NEW r \in Requests, NEW stage \in Sending,
               NEW status \in {"sent", "failed"}, MarkDelivery(r, stage, status)
        PROVE  [Pass!Next]_(Pass!vars)
    <2>0. PICK c : c = req[r].ref
      OBVIOUS
    <2>1. CASE UNCHANGED otp
      BY <1>2, <2>0, <2>1, PassStutter DEF MarkDelivery, Got
    <2>2. CASE Write(r, [Row(r) EXCEPT !.status = status])
      <3>1. /\ c \in Challenges /\ otp[c] \in Rows /\ otp[c].status = "pending"
            /\ out' = out
        BY <1>2, <2>0 DEF MarkDelivery, At, IInv, ReqInv, TypeOK, Sending
      <3>2. /\ \A d \in Challenges : d # c => otp'[d] = otp[d]
            /\ otp'[c].status = status
            /\ otp'[c].consumed = otp[c].consumed /\ otp'[c].verified = otp[c].verified
        BY <2>0, <2>2, <3>1 DEF Write, Row, IInv, TypeOK, Rows
      <3>3. ~otp[c].consumed /\ ~otp[c].verified
        BY <3>1 DEF IInv, RowInv
      <3>4. Phase(c) = "issued" /\ Phase(c)' = "issued" /\ Got(c)' = Got(c)
        BY <3>1, <3>2, <3>3, <1>0, PhaseCases DEF Got
      <3> QED BY <3>1, <3>2, <3>4, PassStep
    <2> QED BY <1>2, <2>1, <2>2 DEF MarkDelivery
  <1>3. ASSUME NEW r \in Requests, RejectCode(r) PROVE [Pass!Next]_(Pass!vars)
    <2>0. PICK c : c = req[r].ref
      OBVIOUS
    <2>1. CASE UNCHANGED otp
      BY <1>3, <2>0, <2>1, PassStutter DEF RejectCode, Got
    <2>2. CASE Write(r, Incremented(Row(r)))
      <3>1. /\ c \in Challenges /\ otp[c] \in Rows /\ otp[c].status = "sent"
            /\ otp[c].attempts = MaxAttempts => otp[c].consumed
            /\ out' = out
        BY <1>3, <2>0 DEF RejectCode, At, IInv, ReqInv, RowInv, TypeOK
      <3>2. /\ otp'[c] = Incremented(otp[c])
            /\ \A d \in Challenges : d # c => otp'[d] = otp[d]
        BY <2>0, <2>2, <3>1 DEF Write, Row, IInv, TypeOK
      <3>3. /\ otp[c].consumed => Phase(c)' = Phase(c)
            /\ ~otp[c].consumed =>
                  /\ Phase(c) \in {"issued", "proved"}
                  /\ Phase(c)' = Phase(c) \/ Phase(c)' = "void"
        BY <3>1, <3>2, <1>0, PhaseCases, IncrementedShape
      <3> QED BY <3>1, <3>2, <3>3, PassStep DEF Got
    <2> QED BY <1>3, <2>1, <2>2 DEF RejectCode
  <1>4. ASSUME NEW r \in Requests, AcceptCode(r) PROVE [Pass!Next]_(Pass!vars)
    <2>0. PICK c : c = req[r].ref
      OBVIOUS
    <2>1. /\ c \in Challenges /\ otp[c] \in Rows /\ otp[c].status = "sent"
      BY <1>4, <2>0 DEF AcceptCode, At, IInv, ReqInv, TypeOK
    <2>2. /\ otp'[c] = MarkedVerified(otp[c])
          /\ \A d \in Challenges : d # c => otp'[d] = otp[d] /\ out'[d] = out[d]
          /\ out'[c].tokens = out[c].tokens /\ out'[c].resets = out[c].resets
      BY <1>4, <2>0, <2>1 DEF AcceptCode, Write, Row, IInv, TypeOK, Outs
    <2>3. \/ Phase(c)' = Phase(c)
          \/ Phase(c) = "issued" /\ Phase(c)' = "proved"
      BY <2>1, <2>2, <1>0, PhaseCases, MarkedVerifiedShape
    <2> QED BY <2>1, <2>2, <2>3, PassStep DEF Got
  <1>5. ASSUME NEW r \in Requests, Consume(r), req[r].stage \in {"checking", "consuming"}
        PROVE  [Pass!Next]_(Pass!vars)
    <2>0. PICK c : c = req[r].ref
      OBVIOUS
    <2>1. /\ c \in Challenges /\ otp[c] \in Rows /\ otp[c].status = "sent"
          /\ otp[c].attempts = MaxAttempts => otp[c].consumed
          /\ out' = out
      BY <1>5, <2>0 DEF Consume, IInv, ReqInv, RowInv, TypeOK, PurposeOf
    <2>2. /\ otp'[c] = Consumed(otp[c])
          /\ \A d \in Challenges : d # c => otp'[d] = otp[d]
      BY <1>5, <2>0, <2>1 DEF Consume, Write, Row, IInv, TypeOK
    <2>3. /\ otp[c].consumed => Phase(c)' = Phase(c)
          /\ ~otp[c].consumed => Phase(c) \in {"issued", "proved"} /\ Phase(c)' = "spent"
      BY <2>1, <2>2, <1>0, PhaseCases, ConsumedShape
    <2> QED BY <2>1, <2>2, <2>3, PassStep DEF Got
  <1>6. ASSUME NEW r \in Requests, CreateAccount(r) PROVE [Pass!Next]_(Pass!vars)
    <2>1. /\ UNCHANGED otp
          /\ \A d \in Challenges : out'[d].tokens = out[d].tokens /\ out'[d].resets = out[d].resets
      BY <1>6 DEF CreateAccount, IInv, TypeOK, Outs
    <2> QED BY <2>1, PassStutter DEF Got
  <1>7. ASSUME NEW r \in Requests, Grant(r) PROVE [Pass!Next]_(Pass!vars)
    <2>0. PICK c : c = req[r].ref
      OBVIOUS
    <2>1. /\ c \in Challenges /\ UNCHANGED otp /\ otp[c].consumed
          /\ otp[c].attempts < MaxAttempts /\ otp[c].attempts \in Nat
          /\ out[c].tokens = 0 /\ out[c].resets = 0
      BY <1>7, <2>0, ChallengeAssumption DEF Grant, At, IInv, ReqInv, TypeOK, Rows
    <2>2. \A d \in Challenges : d # c => out'[d] = out[d]
      BY <1>7, <2>0, <2>1 DEF Grant, IInv, TypeOK, Reqs, Ops, Purposes
    <2>3. Phase(c) = "spent" /\ Phase(c)' = "spent"
      BY <2>1, <1>0, PhaseCases, ChallengeAssumption
    <2>4. Got(c) = FALSE /\ Got(c)' \in BOOLEAN
      BY <2>1 DEF Got
    <2> QED BY <2>1, <2>2, <2>3, <2>4, PassStep
  <1>8. ASSUME UNCHANGED <<otp, out>> PROVE [Pass!Next]_(Pass!vars)
    BY <1>8, PassStutter DEF Got
  <1>9. ASSUME NEW c \in Challenges, Expire(c) PROVE [Pass!Next]_(Pass!vars)
    <2>1. /\ \A d \in Challenges : d # c => otp'[d] = otp[d]
          /\ out' = out /\ otp[c].status # "absent"
          /\ otp'[c].status = otp[c].status /\ otp'[c].attempts = otp[c].attempts
          /\ otp'[c].verified = otp[c].verified /\ otp'[c].consumed = otp[c].consumed
      BY <1>9 DEF Expire, IInv, TypeOK, Rows
    <2>2. Phase(c)' = Phase(c) /\ Got(c)' = Got(c)
      BY <2>1, <1>0, PhaseCases DEF Got
    <2> QED BY <2>1, <2>2, PassStep
  <1>10. CASE Next
    BY <1>1, <1>2, <1>3, <1>4, <1>5, <1>6, <1>7, <1>8, <1>9, <1>10
       DEF Next, SendLoginOTP, SendRegisterOTP, ForgotPassword, Purposes, Sending,
           BeginVerify, BeginRedeem, SendSMS, MarkOTPSent, MarkOTPSendFailed,
           AcceptLoginCode, ConsumeRedeemed, At, Abort, Crash
  <1> QED BY <1>8, <1>10 DEF vars

\* Whatever requests race and wherever they crash, the challenges behave as the
\* abstract passes do: each has one winner at most, and what it buys is handed
\* out at most once.
THEOREM Refinement == Spec => ImplementsOneTimePass
  <1>1. Init => Pass!Init
    BY PassInit
  <1>2. IInv /\ IInv' /\ [Next]_vars => [Pass!Next]_(Pass!vars)
    BY PassNext
  <1> QED BY <1>1, <1>2, Inductive, PTL DEF Spec, ImplementsOneTimePass, Pass!Spec
=============================================================================
