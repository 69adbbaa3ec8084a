---------------------------- MODULE IPRateLimiter ----------------------------
(***************************************************************************)
(* The per-IP limiter of the auth, SSO and contact routes.  A request      *)
(* fetches its address's rate.Limiter under the mutex and calls Allow      *)
(* after releasing it; a sweeper drops idle visitors from the map, and the *)
(* next request of a dropped address starts a fresh, full limiter.  The    *)
(* module shows that dropping is invisible: the map of limiters implements *)
(* one token bucket per address (module TokenBucket).                      *)
(*                                                                         *)
(* The clock is discrete.  A limiter refills eagerly at each tick, which   *)
(* is what the lazy computation of golang.org/x/time/rate yields.          *)
(***************************************************************************)
EXTENDS Naturals, FiniteSets

CONSTANTS IPs,
          Requests,         \* the requests the server handles at once
          Limiters,         \* the limiter objects on the heap
          None,             \* no visitor; the limiter of an idle request
          Burst, Refill,    \* tokens, and ticks per token
          IdleTimeout, CleanupInterval,
          Patience          \* the most ticks from getLimiter to Allow

ASSUME LimiterAssumption ==
    /\ Burst \in Nat \ {0} /\ Refill \in Nat \ {0}
    /\ IdleTimeout \in Nat /\ CleanupInterval \in Nat \ {0} /\ Patience \in Nat
    /\ None \notin IPs \cup Limiters
    /\ None \notin [limiter : Limiters, idle : Nat]

\* Ten minutes cover the 10 s (contact: 30 s) a bucket takes to fill, and the
\* time a request may take between two adjacent statements.
ASSUME TimeoutCoversRefill == Burst * Refill + Patience <= IdleTimeout + 1

VARIABLES visitors,    \* the map: the limiter of an address and its idle time
          level,       \* what each limiter holds, in ticks
          req,         \* the address and limiter of each request under way
          sinceSweep   \* ticks since the sweeper last ran

vars == <<visitors, level, req, sinceSweep>>

Full == Burst * Refill

Idle == [ip |-> None, limiter |-> None, wait |-> 0]

Refilled(n) == IF n < Full THEN n + 1 ELSE n

Known(ip)  == visitors[ip] # None
Pending(r) == req[r] # Idle

\* Limiters the garbage collector may not take.
Reachable == {visitors[ip].limiter : ip \in {x \in IPs : Known(x)}}
             \cup {req[r].limiter : r \in {x \in Requests : Pending(x)}}

-----------------------------------------------------------------------------
Init ==
    /\ visitors = [ip \in IPs |-> None]
    /\ level = [l \in Limiters |-> Full]
    /\ req = [r \in Requests |-> Idle]
    /\ sinceSweep = 0

\* Seeded fault: lastSeen is set when the visitor is created only.
KeepAge(v, l) == [limiter |-> l, idle |-> v.idle]

Seen(v, l) == [limiter |-> l, idle |-> 0]

Fetch(r, ip, l) == req' = [req EXCEPT ![r] = [ip |-> ip, limiter |-> l, wait |-> 0]]

\* getLimiter of an address that has a visitor.
GetLimiter(r, ip) ==
    /\ ~Pending(r) /\ Known(ip)
    /\ LET l == visitors[ip].limiter
       IN  /\ visitors' = [visitors EXCEPT ![ip] = Seen(visitors[ip], l)]
           /\ Fetch(r, ip, l)
    /\ UNCHANGED <<level, sinceSweep>>

\* getLimiter of a new address, or of one the sweeper dropped.
NewVisitor(r, ip) ==
    /\ ~Pending(r) /\ ~Known(ip)
    /\ \E l \in Limiters \ Reachable :
          /\ level' = [level EXCEPT ![l] = Full]
          /\ visitors' = [visitors EXCEPT ![ip] = [limiter |-> l, idle |-> 0]]
          /\ Fetch(r, ip, l)
    /\ UNCHANGED sinceSweep

\* Seeded fault: a token that is still being refilled is spent.
HasSome(r) == level[req[r].limiter] > 0

HasToken(r) == level[req[r].limiter] >= Refill

\* Allow spends a token and the request goes on to its handler.
Allow(r) ==
    /\ Pending(r)
    /\ HasToken(r)
    /\ level' = [level EXCEPT ![req[r].limiter] = @ - Refill]
    /\ req' = [req EXCEPT ![r] = Idle]
    /\ UNCHANGED <<visitors, sinceSweep>>

\* 429 "too many requests".
Reject(r) ==
    /\ Pending(r)
    /\ ~HasToken(r)
    /\ req' = [req EXCEPT ![r] = Idle]
    /\ UNCHANGED <<visitors, level, sinceSweep>>

\* Seeded faults: every visitor is dropped; only one idle for twice as long.
Everyone(v)  == TRUE
TwiceIdle(v) == v.idle > IdleTimeout + CleanupInterval

Expired(v) == v.idle > IdleTimeout

CleanupVisitors ==
    /\ sinceSweep = CleanupInterval
    /\ visitors' = [ip \in IPs |->
                      IF Known(ip) /\ Expired(visitors[ip]) THEN None ELSE visitors[ip]]
    /\ sinceSweep' = 0
    /\ UNCHANGED <<level, req>>

\* The sweeper is due every CleanupInterval, and no request is held up for
\* longer than Patience between its two statements.
Tick ==
    /\ sinceSweep < CleanupInterval
    /\ \A r \in Requests : Pending(r) => req[r].wait < Patience
    /\ level' = [l \in Limiters |-> Refilled(level[l])]
    /\ visitors' = [ip \in IPs |->
                      IF Known(ip)
                      THEN [limiter |-> visitors[ip].limiter, idle |-> visitors[ip].idle + 1]
                      ELSE None]
    /\ req' = [r \in Requests |->
                 IF Pending(r)
                 THEN [ip |-> req[r].ip, limiter |-> req[r].limiter, wait |-> req[r].wait + 1]
                 ELSE Idle]
    /\ sinceSweep' = sinceSweep + 1

Next ==
    \/ \E r \in Requests :
          \/ \E ip \in IPs : GetLimiter(r, ip) \/ NewVisitor(r, ip)
          \/ Allow(r) \/ Reject(r)
    \/ CleanupVisitors
    \/ Tick

Spec == Init /\ [][Next]_vars

-----------------------------------------------------------------------------
(* Properties.                                                             *)

Visitors == [limiter : Limiters, idle : Nat]
Flights  == [ip : IPs, limiter : Limiters, wait : 0..Patience]

TypeOK ==
    /\ visitors \in [IPs -> Visitors \cup {None}]
    /\ level \in [Limiters -> 0..Full]
    /\ req \in [Requests -> Flights \cup {Idle}]
    /\ sinceSweep \in 0..CleanupInterval

\* "evict visitors that have been idle past idleTimeout, so the map doesn't
\* grow unbounded": no entry outlives its last request by more than the
\* timeout and one sweeping interval.
BoundedResidence ==
    \A ip \in IPs :
        Known(ip) => visitors[ip].idle <= IdleTimeout + CleanupInterval

\* An address without a visitor has a full bucket.
BucketOf(ip) == IF Known(ip) THEN level[visitors[ip].limiter] ELSE Full

Buckets == [ip \in IPs |-> BucketOf(ip)]

Bucket == INSTANCE TokenBucket WITH level <- Buckets

\* Evicting visitors, and requests that call Allow on a limiter fetched before
\* an eviction, never let an address through more often than its one bucket.
ImplementsTokenBucket == Bucket!Spec

-----------------------------------------------------------------------------
(* The inductive invariant behind them.                                    *)

\* A request still holds the limiter the map holds: nothing is evicted under it.
HoldsCurrent(r) ==
    /\ Known(req[r].ip)
    /\ visitors[req[r].ip].limiter = req[r].limiter
    /\ visitors[req[r].ip].idle <= req[r].wait

\* A limiter unused for a while has refilled accordingly.
RefilledWhileIdle(ip) ==
    \/ level[visitors[ip].limiter] = Full
    \/ level[visitors[ip].limiter] + Patience >= visitors[ip].idle

\* What a sweep leaves behind is young.
YoungSinceSweep(ip) == visitors[ip].idle <= IdleTimeout + sinceSweep

OneLimiterEach ==
    \A i, j \in IPs :
        Known(i) /\ Known(j) /\ visitors[i].limiter = visitors[j].limiter => i = j

IInv ==
    /\ TypeOK
    /\ OneLimiterEach
    /\ \A r \in Requests : Pending(r) => HoldsCurrent(r)
    /\ \A ip \in IPs : Known(ip) => RefilledWhileIdle(ip) /\ YoungSinceSweep(ip)
=============================================================================
