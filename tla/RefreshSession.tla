--------------------------- MODULE RefreshSession ---------------------------
(***************************************************************************)
(* Refresh-token sessions: rows of auth_sessions, opened by issueTokens    *)
(* after any kind of sign-in, exchanged by RefreshTokenService for a new   *)
(* one and closed by LogoutService.  An exchange is three statements       *)
(* outside any transaction: find the row, revoke it, insert the successor. *)
(* The raw token is modelled by its row: SHA-256 keeps them one to one.    *)
(***************************************************************************)
EXTENDS Naturals, FiniteSets

CONSTANTS Tokens,    \* the refresh tokens ever minted
          NoToken,   \* the predecessor of a token minted by a sign-in
          Requests   \* the requests the server handles at once

ASSUME SessionAssumption ==
    /\ NoToken \notin Tokens
    /\ IsFiniteSet(Tokens)
    /\ IsFiniteSet(Requests)

VARIABLES session,  \* the table: one row per token
          req       \* each request's progress and the token it presented

vars == <<session, req>>

\* expired: expires_at has passed.  from: the token this one was exchanged for.
Sessions == [state : {"absent", "open", "revoked"}, expired : BOOLEAN,
             from : Tokens \cup {NoToken}]
Stages   == {"idle", "refreshing", "issuing"}
Reqs     == [stage : Stages, token : Tokens \cup {NoToken}]

Idle     == [stage |-> "idle", token |-> NoToken]
NoRow    == [state |-> "absent", expired |-> FALSE, from |-> NoToken]

-----------------------------------------------------------------------------
(* The statements of the session repository, as functions of the row.      *)

\* Seeded fault: the lookup forgets "revoked_at IS NULL".
IsUnexpired(row) == row.state # "absent" /\ ~row.expired

\* WHERE revoked_at IS NULL AND expires_at > NOW()
IsActive(row) == row.state = "open" /\ ~row.expired

\* SET revoked_at = NOW() WHERE revoked_at IS NULL; the rows affected are not
\* looked at.
Revoked(row) == [row EXCEPT !.state = "revoked"]

\* INSERT: revoked_at takes its default, expires_at lies ahead.
NewSession(t) == [state |-> "open", expired |-> FALSE, from |-> t]

-----------------------------------------------------------------------------
Init ==
    /\ session = [t \in Tokens |-> NoRow]
    /\ req = [r \in Requests |-> Idle]

At(r, stage) == req[r].stage = stage
Finish(r)    == req' = [req EXCEPT ![r] = Idle]
Minted(t)    == session[t].state # "absent"

\* A login, registration, social or SSO sign-in has succeeded.
SignIn(r) ==
    /\ At(r, "idle")
    /\ req' = [req EXCEPT ![r] = [stage |-> "issuing", token |-> NoToken]]
    /\ UNCHANGED session

\* A refresh presents a token whose row is found active; any other token is
\* refused at once.
FindSession(r, t) ==
    /\ At(r, "idle")
    /\ IsActive(session[t])
    /\ req' = [req EXCEPT ![r] = [stage |-> "refreshing", token |-> t]]
    /\ UNCHANGED session

\* Seeded fault: the rotation goes on to issue without revoking.
RotateWithoutRevoke(r) ==
    /\ At(r, "refreshing")
    /\ req' = [req EXCEPT ![r].stage = "issuing"]
    /\ UNCHANGED session

\* The presented token is revoked, whether or not it still was active.
RevokePresented(r) ==
    /\ At(r, "refreshing")
    /\ session' = [session EXCEPT ![req[r].token] = Revoked(@)]
    /\ req' = [req EXCEPT ![r].stage = "issuing"]

\* Seeded fault: the presented token may be handed out again.
IssueOrReopen(r, t) ==
    /\ At(r, "issuing")
    /\ ~Minted(t) \/ t = req[r].token
    /\ session' = [session EXCEPT ![t] = NewSession(req[r].token)]
    /\ Finish(r)

\* issueTokens: a fresh random token, and its row.
IssueTokens(r, t) ==
    /\ At(r, "issuing")
    /\ ~Minted(t)
    /\ session' = [session EXCEPT ![t] = NewSession(req[r].token)]
    /\ Finish(r)

\* A statement fails, or the user is gone: what was revoked stays revoked.
Fail(r) ==
    /\ ~At(r, "idle")
    /\ Finish(r)
    /\ UNCHANGED session

\* LogoutService: one statement.
Logout(t) ==
    /\ Minted(t)
    /\ session' = [session EXCEPT ![t] = Revoked(@)]
    /\ UNCHANGED req

Expire(t) ==
    /\ Minted(t)
    /\ ~session[t].expired
    /\ session' = [session EXCEPT ![t].expired = TRUE]
    /\ UNCHANGED req

Crash ==
    /\ \E r \in Requests : ~At(r, "idle")
    /\ req' = [r \in Requests |-> Idle]
    /\ UNCHANGED session

Next ==
    \/ \E r \in Requests :
          \/ SignIn(r) \/ RevokePresented(r) \/ Fail(r)
          \/ \E t \in Tokens : FindSession(r, t) \/ IssueTokens(r, t)
    \/ \E t \in Tokens : Logout(t) \/ Expire(t)
    \/ Crash

Spec == Init /\ [][Next]_vars

-----------------------------------------------------------------------------
(* Properties.                                                             *)

\* Rows that were never minted hold nothing, and a token's predecessor is a
\* minted token other than itself.
TypeOK ==
    /\ session \in [Tokens -> Sessions]
    /\ req \in [Requests -> Reqs]
    /\ \A t \in Tokens : ~Minted(t) => session[t] = NoRow
    /\ \A t \in Tokens :
          session[t].from # NoToken => session[t].from # t /\ Minted(session[t].from)

Successors(t) == {u \in Tokens : Minted(u) /\ session[u].from = t}
Exchanging(t) == {r \in Requests : req[r].token = t}

\* A token that was exchanged is dead from then on: at no point, whatever fails
\* in between, are a token and the one it was exchanged for both usable.
ExchangedIsRevoked ==
    \A t \in Tokens :
        Successors(t) # {} => session[t].state = "revoked"

\* A token buys at most one new pair for each request that presented it while it
\* was active: presenting it again once it was exchanged or logged out buys none.
BoundedReplay ==
    \A t \in Tokens :
        Cardinality(Successors(t)) + Cardinality(Exchanging(t))
            <= Cardinality(Requests)

-----------------------------------------------------------------------------
(* The inductive invariant behind ExchangedIsRevoked and BoundedReplay.     *)

\* What a request holds on to: a token it found, then the same token revoked.
InFlight(r) ==
    /\ At(r, "idle") => req[r].token = NoToken
    /\ At(r, "refreshing") => req[r].token # NoToken /\ Minted(req[r].token)
    /\ At(r, "issuing") /\ req[r].token # NoToken =>
          session[req[r].token].state = "revoked"

IInv ==
    /\ TypeOK
    /\ \A r \in Requests : InFlight(r)
    /\ ExchangedIsRevoked
    /\ BoundedReplay

-----------------------------------------------------------------------------
(* A statement of the code's comments that its behaviours contradict.       *)

\* "Rotate: the presented refresh token is single-use."
SingleUse == \A t \in Tokens : Cardinality(Successors(t)) <= 1
=============================================================================
