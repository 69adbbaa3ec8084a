------------------------ MODULE RefreshSessionProofs ------------------------
(***************************************************************************)
(* Proofs about RefreshSession, for any number of tokens and requests:     *)
(* a token that was exchanged is dead, and concurrent exchanges of one     *)
(* token mint at most one successor for each request.                      *)
(***************************************************************************)
EXTENDS RefreshSession, FiniteSetTheorems, TLAPS

\* The sets that BoundedReplay counts are finite, in every state.
LEMMA CountedSetsFinite ==
    ASSUME NEW t
    PROVE  IsFiniteSet(Successors(t)) /\ IsFiniteSet(Exchanging(t))
  <1>1. Successors(t) \in SUBSET Tokens /\ Exchanging(t) \in SUBSET Requests
    BY DEF Successors, Exchanging
  <1> QED BY <1>1, FS_Subset, FS_CardinalityType, SessionAssumption

LEMMA RequestsNat == Cardinality(Requests) \in Nat
  BY FS_CardinalityType, SessionAssumption

\* Revoking a row, or its expiry, changes neither its existence nor its origin.
LEMMA RowShapes ==
    ASSUME NEW row \in Sessions
    PROVE  /\ Revoked(row) \in Sessions
           /\ Revoked(row).state = "revoked" /\ Revoked(row).from = row.from
           /\ [row EXCEPT !.expired = TRUE] \in Sessions
           /\ [row EXCEPT !.expired = TRUE].state = row.state
           /\ [row EXCEPT !.expired = TRUE].from = row.from
  BY DEF Revoked, Sessions

-----------------------------------------------------------------------------
(* Steps that mint nothing: rows keep their origin and stay revoked.       *)

RowsAge ==
    /\ session' \in [Tokens -> Sessions]
    /\ \A t \in Tokens :
          /\ Minted(t)' <=> Minted(t)
          /\ session'[t].from = session[t].from
          /\ session[t].state = "revoked" => session'[t].state = "revoked"
          /\ ~Minted(t) => session'[t] = session[t]

\* A request keeps the token it presented, or lets go of it.
TokensKept ==
    /\ req' \in [Requests -> Reqs]
    /\ \A r \in Requests : req'[r].token \in {NoToken, req[r].token}

LEMMA RowsAgeUnchanged == IInv /\ UNCHANGED session => RowsAge
  BY DEF IInv, TypeOK, RowsAge, Minted

LEMMA FinishShape ==
    ASSUME IInv, NEW r \in Requests, Finish(r)
    PROVE  /\ req' \in [Requests -> Reqs]
           /\ req'[r] = Idle
           /\ \A q \in Requests : q # r => req'[q] = req[q]
  BY DEF IInv, TypeOK, Finish, Idle, Reqs, Stages

\* Nothing minted and no token picked up: the invariant rests on InFlight only.
LEMMA AgeStep ==
    ASSUME IInv, RowsAge, TokensKept, \A r \in Requests : InFlight(r)'
    PROVE  IInv'
  <1>1. TypeOK'
    <2>1. \A t \in Tokens : ~Minted(t)' => session'[t] = NoRow
      BY DEF IInv, TypeOK, RowsAge
    <2>2. ASSUME NEW t \in Tokens, session'[t].from # NoToken
          PROVE  session'[t].from # t /\ session'[session'[t].from].state # "absent"
      <3>1. PICK p \in Tokens : p = session[t].from /\ p = session'[t].from
        BY <2>2 DEF IInv, TypeOK, RowsAge, Sessions
      <3>2. p # t /\ Minted(p)
        BY <2>2, <3>1 DEF IInv, TypeOK
      <3> QED BY <3>1, <3>2 DEF RowsAge, Minted
    <2> QED BY <2>1, <2>2 DEF TypeOK, RowsAge, TokensKept, Minted
  <1>2. \A t \in Tokens : Successors(t)' = Successors(t)
    BY DEF RowsAge, Successors
  <1>3. \A t \in Tokens : Exchanging(t)' \in SUBSET Exchanging(t)
    BY SessionAssumption DEF TokensKept, Exchanging
  <1>4. ExchangedIsRevoked'
    BY <1>2 DEF IInv, ExchangedIsRevoked, RowsAge
  <1>5. ASSUME NEW t \in Tokens
        PROVE  (Cardinality(Successors(t)) + Cardinality(Exchanging(t))
                  <= Cardinality(Requests))'
    <2>1. IsFiniteSet(Successors(t)) /\ IsFiniteSet(Exchanging(t))
      BY CountedSetsFinite
    <2>2. Successors(t)' \in SUBSET Successors(t) /\ Exchanging(t)' \in SUBSET Exchanging(t)
      BY <1>2, <1>3
    <2>3. Cardinality(Successors(t)) + Cardinality(Exchanging(t)) <= Cardinality(Requests)
      BY DEF IInv, BoundedReplay
    <2> QED BY <2>1, <2>2, <2>3, FS_Subset, FS_CardinalityType, RequestsNat
  <1> QED BY <1>1, <1>4, <1>5 DEF IInv, BoundedReplay

\* Rows age and one request is done.
LEMMA FinishedStep ==
    ASSUME IInv, RowsAge, NEW r \in Requests, Finish(r)
    PROVE  IInv'
  <1>1. TokensKept
    BY FinishShape DEF TokensKept, Idle
  <1>2. \A q \in Requests : InFlight(q)'
    BY FinishShape DEF IInv, TypeOK, Reqs, InFlight, At, Idle, RowsAge
  <1> QED BY <1>1, <1>2, AgeStep

\* Rows age and no request moves.
LEMMA RowsOnlyStep ==
    ASSUME IInv, RowsAge, UNCHANGED req
    PROVE  IInv'
  <1>1. TokensKept
    BY DEF TokensKept, IInv, TypeOK
  <1>2. \A q \in Requests : InFlight(q)'
    BY DEF IInv, TypeOK, Reqs, InFlight, At, RowsAge
  <1> QED BY <1>1, <1>2, AgeStep

LEMMA LogoutStep ==
    ASSUME IInv, NEW t \in Tokens, Logout(t)
    PROVE  IInv'
  <1>1. /\ session'[t] = Revoked(session[t])
        /\ \A u \in Tokens : u # t => session'[u] = session[u]
        /\ session' \in [Tokens -> Sessions]
    BY RowShapes DEF IInv, TypeOK, Logout
  <1>2. Revoked(session[t]).state = "revoked" /\ Revoked(session[t]).from = session[t].from
    BY RowShapes DEF IInv, TypeOK
  <1>3. RowsAge
    BY <1>1, <1>2 DEF RowsAge, Minted, Logout
  <1> QED BY <1>3, RowsOnlyStep DEF Logout

LEMMA ExpireStep ==
    ASSUME IInv, NEW t \in Tokens, Expire(t)
    PROVE  IInv'
  <1>1. PICK row \in Sessions : row = [session[t] EXCEPT !.expired = TRUE]
    BY RowShapes DEF IInv, TypeOK
  <1>2. row.state = session[t].state /\ row.from = session[t].from
    BY <1>1, RowShapes DEF IInv, TypeOK
  <1>3. session' = [session EXCEPT ![t] = row]
    BY <1>1 DEF Expire
  <1>4. RowsAge
    BY <1>2, <1>3 DEF RowsAge, Minted, Expire, IInv, TypeOK
  <1> QED BY <1>4, RowsOnlyStep DEF Expire

LEMMA RevokePresentedStep ==
    ASSUME IInv, NEW r \in Requests, RevokePresented(r)
    PROVE  IInv'
  <1>1. PICK t : t = req[r].token
    OBVIOUS
  <1>2. req[r].stage = "refreshing" /\ t \in Tokens /\ Minted(t)
    BY <1>1 DEF RevokePresented, At, IInv, TypeOK, Reqs, InFlight
  <1>3. /\ session'[t] = Revoked(session[t])
        /\ \A u \in Tokens : u # t => session'[u] = session[u]
        /\ session' \in [Tokens -> Sessions]
    BY <1>1, <1>2, RowShapes DEF IInv, TypeOK, RevokePresented
  <1>4. Revoked(session[t]).state = "revoked" /\ Revoked(session[t]).from = session[t].from
    BY <1>2, RowShapes DEF IInv, TypeOK
  <1>5. RowsAge
    BY <1>2, <1>3, <1>4 DEF RowsAge, Minted
  <1>6. /\ req' \in [Requests -> Reqs]
        /\ req'[r].stage = "issuing" /\ req'[r].token = t
        /\ \A q \in Requests : q # r => req'[q] = req[q]
    BY <1>1, <1>2 DEF RevokePresented, IInv, TypeOK, Reqs, Stages
  <1>7. TokensKept
    BY <1>1, <1>6 DEF TokensKept
  <1>8. \A q \in Requests : InFlight(q)'
    BY <1>3, <1>4, <1>5, <1>6 DEF IInv, TypeOK, Reqs, InFlight, At, RowsAge
  <1> QED BY <1>5, <1>7, <1>8, AgeStep

LEMMA SignInStep ==
    ASSUME IInv, NEW r \in Requests, SignIn(r)
    PROVE  IInv'
  <1>1. /\ req' \in [Requests -> Reqs]
        /\ req'[r].stage = "issuing" /\ req'[r].token = NoToken
        /\ \A q \in Requests : q # r => req'[q] = req[q]
    BY DEF SignIn, IInv, TypeOK, Reqs, Stages
  <1>2. TokensKept
    BY <1>1 DEF TokensKept
  <1>3. RowsAge
    BY RowsAgeUnchanged DEF SignIn
  <1>4. \A q \in Requests : InFlight(q)'
    BY <1>1, <1>3 DEF IInv, TypeOK, Reqs, InFlight, At, RowsAge
  <1> QED BY <1>2, <1>3, <1>4, AgeStep

LEMMA CrashStep == IInv /\ Crash => IInv'
  <1> SUFFICES ASSUME IInv, Crash
               PROVE  IInv'
    OBVIOUS
  <1>1. req' \in [Requests -> Reqs] /\ \A r \in Requests : req'[r] = Idle
    BY DEF Crash, Idle, Reqs, Stages
  <1>2. TokensKept
    BY <1>1 DEF TokensKept, Idle
  <1>3. \A r \in Requests : InFlight(r)'
    BY <1>1 DEF InFlight, At, Idle
  <1>4. RowsAge
    BY RowsAgeUnchanged DEF Crash
  <1> QED BY <1>2, <1>3, <1>4, AgeStep

-----------------------------------------------------------------------------
(* A token is picked up: it is open, so it has no successor yet.           *)

LEMMA FindSessionStep ==
    ASSUME IInv, NEW r \in Requests, NEW t \in Tokens, FindSession(r, t)
    PROVE  IInv'
  <1>1. /\ req' \in [Requests -> Reqs]
        /\ req'[r] = [stage |-> "refreshing", token |-> t]
        /\ \A q \in Requests : q # r => req'[q] = req[q]
        /\ session' = session
    BY DEF FindSession, IInv, TypeOK, Reqs, Stages
  <1>2. session[t].state = "open" /\ req[r].token = NoToken
    BY DEF FindSession, IsActive, IInv, InFlight
  <1>3. TypeOK' /\ ExchangedIsRevoked'
    BY <1>1 DEF IInv, TypeOK, Minted, ExchangedIsRevoked, Successors
  <1>4. \A q \in Requests : InFlight(q)'
    <2>1. InFlight(r)'
      BY <1>1, <1>2, SessionAssumption DEF InFlight, At, Minted
    <2>2. ASSUME NEW q \in Requests, q # r
          PROVE  InFlight(q)'
      BY <1>1, <2>2 DEF IInv, InFlight, At, Minted
    <2> QED BY <2>1, <2>2
  <1>5. ASSUME NEW u \in Tokens
        PROVE  (Cardinality(Successors(u)) + Cardinality(Exchanging(u))
                  <= Cardinality(Requests))'
    <2>1. Successors(u)' = Successors(u)
      BY <1>1 DEF Successors, Minted
    <2>2. CASE u = t
      <3>1. Successors(u) = {}
        BY <1>2, <2>2 DEF IInv, ExchangedIsRevoked
      <3>2. Cardinality(Successors(u)') = 0
        BY <2>1, <3>1, FS_EmptySet
      <3>3. Exchanging(u)' \in SUBSET Requests
        BY DEF Exchanging
      <3>4. /\ Cardinality(Exchanging(u)') \in Nat
            /\ Cardinality(Exchanging(u)') <= Cardinality(Requests)
        BY <3>3, FS_Subset, FS_CardinalityType, SessionAssumption
      <3> QED BY <3>2, <3>4, RequestsNat
    <2>3. CASE u # t
      <3>1. Exchanging(u)' = Exchanging(u)
        BY <1>1, <1>2, <2>3, SessionAssumption DEF Exchanging
      <3> QED BY <2>1, <3>1 DEF IInv, BoundedReplay
    <2> QED BY <2>2, <2>3
  <1> QED BY <1>3, <1>4, <1>5 DEF IInv, BoundedReplay

-----------------------------------------------------------------------------
(* A successor is minted: the request is no longer counted, its token is.  *)

LEMMA IssueTokensStep ==
    ASSUME IInv, NEW r \in Requests, NEW t \in Tokens, IssueTokens(r, t)
    PROVE  IInv'
  <1>1. PICK p : p = req[r].token
    OBVIOUS
  <1>2. /\ req[r].stage = "issuing" /\ p \in Tokens \cup {NoToken} /\ ~Minted(t)
        /\ p # NoToken => session[p].state = "revoked"
    BY <1>1 DEF IssueTokens, At, IInv, TypeOK, Reqs, InFlight
  <1>3. p # t
    BY <1>2, SessionAssumption DEF Minted
  <1>4. /\ session'[t] = [state |-> "open", expired |-> FALSE, from |-> p]
        /\ \A u \in Tokens : u # t => session'[u] = session[u]
        /\ session' \in [Tokens -> Sessions]
    BY <1>1, <1>2 DEF IssueTokens, NewSession, IInv, TypeOK, Sessions
  <1>5. /\ req' \in [Requests -> Reqs]
        /\ req'[r] = Idle
        /\ \A q \in Requests : q # r => req'[q] = req[q]
    BY FinishShape DEF IssueTokens
  <1>6. TypeOK'
    <2>1. \A u \in Tokens : ~Minted(u)' => session'[u] = NoRow
      BY <1>4 DEF IInv, TypeOK, Minted
    <2>2. ASSUME NEW u \in Tokens, session'[u].from # NoToken
          PROVE  session'[u].from # u /\ session'[session'[u].from].state # "absent"
      <3>1. CASE u = t
        <4>1. p \in Tokens /\ p # t /\ session'[u].from = p
          BY <1>2, <1>3, <1>4, <2>2, <3>1
        <4>2. session'[p] = session[p] /\ session[p].state = "revoked"
          BY <1>2, <1>4, <4>1, SessionAssumption
        <4> QED BY <3>1, <4>1, <4>2
      <3>2. CASE u # t
        <4>1. PICK w \in Tokens : w = session[u].from /\ w = session'[u].from
          BY <1>4, <2>2, <3>2 DEF IInv, TypeOK, Sessions
        <4>2. w # u /\ Minted(w) /\ w # t
          BY <1>2, <2>2, <4>1 DEF IInv, TypeOK
        <4> QED BY <1>4, <4>1, <4>2 DEF Minted
      <3> QED BY <3>1, <3>2
    <2> QED BY <1>4, <1>5, <2>1, <2>2 DEF TypeOK, Minted
  <1>7. \A q \in Requests : InFlight(q)'
    <2>1. \A u \in Tokens : session[u].state = "revoked" => session'[u].state = "revoked"
      BY <1>2, <1>4 DEF Minted
    <2>2. \A u \in Tokens : Minted(u) => Minted(u)'
      BY <1>2, <1>4 DEF Minted
    <2> QED BY <1>5, <2>1, <2>2 DEF IInv, TypeOK, Reqs, InFlight, At, Idle
  <1>8. \A u \in Tokens : t \notin Successors(u)
    BY <1>2 DEF Successors
  <1>9. \A u \in Tokens : u # p => Successors(u)' = Successors(u)
    BY <1>2, <1>4 DEF Successors, Minted
  <1>10. p \in Tokens => Successors(p)' = Successors(p) \cup {t}
    BY <1>4 DEF Successors, Minted
  <1>11. Successors(t) = {}
    BY <1>2, SessionAssumption DEF Successors, IInv, TypeOK
  <1>12. ExchangedIsRevoked'
    BY <1>2, <1>3, <1>4, <1>9, <1>10, <1>11, SessionAssumption
       DEF IInv, ExchangedIsRevoked
  <1>13. ASSUME NEW u \in Tokens
         PROVE  (Cardinality(Successors(u)) + Cardinality(Exchanging(u))
                   <= Cardinality(Requests))'
    <2>1. CASE u = p
      <3>1. Exchanging(u)' = Exchanging(u) \ {r} /\ r \in Exchanging(u)
        BY <1>1, <1>5, <2>1, SessionAssumption DEF Exchanging, Idle
      <3>2. IsFiniteSet(Successors(u)) /\ IsFiniteSet(Exchanging(u))
        BY CountedSetsFinite
      <3>3. Cardinality(Successors(u) \cup {t}) + Cardinality(Exchanging(u) \ {r})
               = Cardinality(Successors(u)) + Cardinality(Exchanging(u))
        <4>1. /\ Cardinality(Successors(u) \cup {t}) = Cardinality(Successors(u)) + 1
              /\ Cardinality(Successors(u)) \in Nat
          BY <1>8, <3>2, FS_AddElement, FS_CardinalityType
        <4>2. /\ Cardinality(Exchanging(u) \ {r}) = Cardinality(Exchanging(u)) - 1
              /\ Cardinality(Exchanging(u)) \in Nat
          BY <3>1, <3>2, FS_RemoveElement, FS_CardinalityType
        <4> QED BY <4>1, <4>2
      <3> QED BY <1>10, <2>1, <3>1, <3>3 DEF IInv, BoundedReplay
    <2>2. CASE u # p
      <3>1. Exchanging(u)' = Exchanging(u)
        BY <1>1, <1>5, <2>2, SessionAssumption DEF Exchanging, Idle
      <3> QED BY <1>9, <2>2, <3>1 DEF IInv, BoundedReplay
    <2> QED BY <2>1, <2>2
  <1> QED BY <1>6, <1>7, <1>12, <1>13 DEF IInv, BoundedReplay

-----------------------------------------------------------------------------
(* Invariance.                                                             *)

LEMMA Initially == Init => IInv
  <1> SUFFICES ASSUME Init
               PROVE  IInv
    OBVIOUS
  <1>1. TypeOK
    BY DEF Init, TypeOK, Sessions, Reqs, Stages, NoRow, Idle, Minted
  <1>2. \A r \in Requests : InFlight(r)
    BY DEF Init, InFlight, At, Idle
  <1>3. \A t \in Tokens : Successors(t) = {} /\ Exchanging(t) = {}
    BY SessionAssumption DEF Init, Successors, Exchanging, Minted, NoRow, Idle
  <1>4. ExchangedIsRevoked
    BY <1>3 DEF ExchangedIsRevoked
  <1>5. BoundedReplay
    BY <1>3, FS_EmptySet, RequestsNat DEF BoundedReplay
  <1> QED BY <1>1, <1>2, <1>4, <1>5 DEF IInv

LEMMA Inductive == IInv /\ [Next]_vars => IInv'
  <1> SUFFICES ASSUME IInv, [Next]_vars
               PROVE  IInv'
    OBVIOUS
  <1>1. ASSUME NEW r \in Requests, SignIn(r)
        PROVE  IInv'
    BY <1>1, SignInStep
  <1>2. ASSUME NEW r \in Requests, RevokePresented(r)
        PROVE  IInv'
    BY <1>2, RevokePresentedStep
  <1>3. ASSUME NEW r \in Requests, Fail(r)
        PROVE  IInv'
    BY <1>3, FinishedStep, RowsAgeUnchanged DEF Fail
  <1>4. ASSUME NEW r \in Requests, NEW t \in Tokens, FindSession(r, t)
        PROVE  IInv'
    BY <1>4, FindSessionStep
  <1>5. ASSUME NEW r \in Requests, NEW t \in Tokens, IssueTokens(r, t)
        PROVE  IInv'
    BY <1>5, IssueTokensStep
  <1>6. ASSUME NEW t \in Tokens, Logout(t)
        PROVE  IInv'
    BY <1>6, LogoutStep
  <1>7. ASSUME NEW t \in Tokens, Expire(t)
        PROVE  IInv'
    BY <1>7, ExpireStep
  <1>8. CASE Crash
    BY <1>8, CrashStep
  <1>9. CASE UNCHANGED vars
    BY <1>9, RowsAgeUnchanged, RowsOnlyStep DEF vars
  <1> QED
    BY <1>1, <1>2, <1>3, <1>4, <1>5, <1>6, <1>7, <1>8, <1>9 DEF Next

LEMMA Invariance == Spec => []IInv
  BY Initially, Inductive, PTL DEF Spec

\* Session rows and requests are always well formed: what was never minted holds
\* nothing, and every predecessor is a minted token.
THEOREM TypeCorrect == Spec => []TypeOK
  <1>1. IInv => TypeOK
    BY DEF IInv
  <1> QED BY <1>1, Invariance, PTL

\* RefreshTokenService never leaves a token usable next to its successor.
THEOREM ExchangeKills == Spec => []ExchangedIsRevoked
  <1>1. IInv => ExchangedIsRevoked
    BY DEF IInv
  <1> QED BY <1>1, Invariance, PTL

\* Presenting one refresh token any number of times mints at most one session for
\* each request that found it active at the same time.
THEOREM ReplayBounded == Spec => []BoundedReplay
  <1>1. IInv => BoundedReplay
    BY DEF IInv
  <1> QED BY <1>1, Invariance, PTL
=============================================================================
