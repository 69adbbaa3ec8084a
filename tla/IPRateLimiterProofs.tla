------------------------ MODULE IPRateLimiterProofs ------------------------
(***************************************************************************)
(* Proofs about IPRateLimiter, for any number of addresses, requests and   *)
(* limiters, any rate and any timeout that covers a refill: eviction is    *)
(* invisible, and the visitor map holds no entry for good.                 *)
(***************************************************************************)
EXTENDS IPRateLimiter, Integers, TLAPS

\* The arithmetic of the constants, with Burst * Refill taken as one number.
LEMMA Capacity ==
    /\ Full \in Nat /\ Refill <= Full /\ Refill \in Nat \ {0}
    /\ IdleTimeout \in Nat /\ Patience \in Nat /\ CleanupInterval \in Nat
    /\ Full + Patience <= IdleTimeout + 1
    /\ Patience <= IdleTimeout
  <1>1. Burst * Refill \in Nat /\ Refill <= Burst * Refill /\ 1 <= Burst * Refill
    <2>1. \A b, f \in Nat \ {0} : b * f \in Nat /\ f <= b * f /\ 1 <= b * f
      OBVIOUS
    <2> QED BY <2>1, LimiterAssumption
  <1>2. Burst * Refill + Patience <= IdleTimeout + 1
    BY TimeoutCoversRefill
  <1> QED BY <1>1, <1>2, LimiterAssumption DEF Full

\* A bucket stays within its capacity while it refills.
LEMMA RefilledShape ==
    ASSUME NEW n \in 0..Full
    PROVE  /\ Refilled(n) \in 0..Full
           /\ n <= Refilled(n)
           /\ Refilled(n) = IF n = Full THEN Full ELSE n + 1
  BY Capacity DEF Refilled

\* What a request under way has fetched.
LEMMA PendingShape ==
    ASSUME TypeOK, NEW r \in Requests, Pending(r)
    PROVE  req[r] \in Flights
  BY DEF TypeOK, Pending

LEMMA FreshIsYoung ==
    ASSUME NEW s \in 0..CleanupInterval
    PROVE  0 <= IdleTimeout + s
  BY Capacity

LEMMA VisitorShape ==
    ASSUME NEW l \in Limiters, NEW n \in Nat
    PROVE  /\ [limiter |-> l, idle |-> n] \in Visitors
           /\ [limiter |-> l, idle |-> n] # None
  BY LimiterAssumption DEF Visitors

LEMMA IdleShape == Idle \notin Flights
  BY LimiterAssumption DEF Idle, Flights

\* What the map holds for an address.
LEMMA KnownShape ==
    ASSUME TypeOK, NEW ip \in IPs, Known(ip)
    PROVE  visitors[ip] \in Visitors
  BY DEF TypeOK, Known

-----------------------------------------------------------------------------
(* The inductive invariant, one action at a time.                          *)

LEMMA InitIInv == Init => IInv
  <1> SUFFICES ASSUME Init
               PROVE  IInv
    OBVIOUS
  <1>1. Full \in 0..Full /\ 0 \in 0..CleanupInterval
    BY Capacity
  <1>2. TypeOK
    BY <1>1 DEF Init, TypeOK
  <1>3. \A ip \in IPs : ~Known(ip)
    BY DEF Init, Known
  <1>4. \A r \in Requests : ~Pending(r)
    BY DEF Init, Pending
  <1> QED BY <1>2, <1>3, <1>4 DEF IInv, OneLimiterEach

LEMMA GetLimiterStep ==
    ASSUME IInv, NEW r \in Requests, NEW ip \in IPs, GetLimiter(r, ip)
    PROVE  IInv'
  <1> DEFINE l == visitors[ip].limiter
  <1>1. visitors[ip] \in Visitors /\ l \in Limiters /\ TypeOK /\ Known(ip)
    BY KnownShape DEF IInv, GetLimiter, Visitors
  <1>2. [limiter |-> l, idle |-> 0] \in Visitors /\ [limiter |-> l, idle |-> 0] # None
    BY <1>1, VisitorShape
  <1>3. [ip |-> ip, limiter |-> l, wait |-> 0] \in Flights
    BY <1>1, Capacity DEF Flights
  <1>4. /\ visitors' = [visitors EXCEPT ![ip] = [limiter |-> l, idle |-> 0]]
        /\ req' = [req EXCEPT ![r] = [ip |-> ip, limiter |-> l, wait |-> 0]]
        /\ UNCHANGED <<level, sinceSweep>>
    BY DEF GetLimiter, Seen, Fetch
  <1>5. /\ visitors'[ip] = [limiter |-> l, idle |-> 0]
        /\ \A j \in IPs : j # ip => visitors'[j] = visitors[j]
        /\ req'[r] = [ip |-> ip, limiter |-> l, wait |-> 0]
        /\ \A q \in Requests : q # r => req'[q] = req[q]
    BY <1>1, <1>4 DEF TypeOK
  <1>6. TypeOK'
    BY <1>1, <1>2, <1>3, <1>4 DEF TypeOK
  <1>7. \A j \in IPs : /\ Known(j)' <=> Known(j)
                       /\ Known(j) => visitors'[j].limiter = visitors[j].limiter
                       /\ Known(j) => visitors'[j].idle \in {0, visitors[j].idle}
    BY <1>1, <1>2, <1>5 DEF Known
  <1>8. OneLimiterEach'
    BY <1>7 DEF OneLimiterEach, IInv
  <1>9. ASSUME NEW q \in Requests, Pending(q)'
        PROVE  HoldsCurrent(q)'
    <2>1. CASE q = r
      BY <1>1, <1>5, <1>7, <2>1 DEF HoldsCurrent
    <2>2. CASE q # r
      <3>1. Pending(q) /\ req'[q] = req[q] /\ HoldsCurrent(q) /\ req[q] \in Flights
        BY <1>1, <1>5, <1>9, <2>2, PendingShape DEF Pending, IInv
      <3>2. req[q].ip \in IPs /\ req[q].wait \in 0..Patience
        BY <3>1 DEF Flights
      <3> QED BY <1>7, <3>1, <3>2, Capacity DEF HoldsCurrent
    <2> QED BY <2>1, <2>2
  <1>10. ASSUME NEW j \in IPs, Known(j)'
         PROVE  RefilledWhileIdle(j)' /\ YoungSinceSweep(j)'
    <2>1. Known(j) /\ visitors[j] \in Visitors /\ visitors'[j].limiter = visitors[j].limiter
          /\ visitors'[j].idle \in {0, visitors[j].idle}
      BY <1>1, <1>7, <1>10, KnownShape
    <2>2. RefilledWhileIdle(j) /\ YoungSinceSweep(j)
      BY <2>1 DEF IInv
    <2>3. level[visitors[j].limiter] \in 0..Full /\ visitors[j].idle \in Nat
          /\ sinceSweep \in 0..CleanupInterval
      BY <1>1, <2>1 DEF TypeOK, Visitors
    <2>4. level' = level /\ sinceSweep' = sinceSweep
      BY <1>4
    <2> QED BY <2>1, <2>2, <2>3, <2>4, Capacity DEF RefilledWhileIdle, YoungSinceSweep
  <1> QED BY <1>6, <1>8, <1>9, <1>10 DEF IInv

LEMMA NewVisitorStep ==
    ASSUME IInv, NEW r \in Requests, NEW ip \in IPs, NewVisitor(r, ip)
    PROVE  IInv'
  <1>1. PICK l \in Limiters \ Reachable :
            /\ level' = [level EXCEPT ![l] = Full]
            /\ visitors' = [visitors EXCEPT ![ip] = [limiter |-> l, idle |-> 0]]
            /\ req' = [req EXCEPT ![r] = [ip |-> ip, limiter |-> l, wait |-> 0]]
            /\ sinceSweep' = sinceSweep
    BY DEF NewVisitor, Fetch
  <1>2. TypeOK /\ ~Known(ip) /\ l \in Limiters
    BY DEF IInv, NewVisitor
  <1>3. [limiter |-> l, idle |-> 0] \in Visitors /\ [limiter |-> l, idle |-> 0] # None
    BY VisitorShape
  <1>4. [ip |-> ip, limiter |-> l, wait |-> 0] \in Flights
    BY Capacity DEF Flights
  <1>5. /\ visitors'[ip] = [limiter |-> l, idle |-> 0]
        /\ \A j \in IPs : j # ip => visitors'[j] = visitors[j]
        /\ req'[r] = [ip |-> ip, limiter |-> l, wait |-> 0]
        /\ \A q \in Requests : q # r => req'[q] = req[q]
        /\ level'[l] = Full
        /\ \A k \in Limiters : k # l => level'[k] = level[k]
    BY <1>1, <1>2 DEF TypeOK
  <1>6. TypeOK'
    <2>1. Full \in 0..Full
      BY Capacity
    <2> QED BY <1>1, <1>2, <1>3, <1>4, <2>1 DEF TypeOK
  <1>7. \A j \in IPs : Known(j) => visitors[j].limiter # l /\ j # ip
    BY <1>1, <1>2 DEF Reachable
  <1>8. Known(ip)' /\ \A j \in IPs : j # ip => (Known(j)' <=> Known(j))
    BY <1>3, <1>5 DEF Known
  <1>9. OneLimiterEach'
    BY <1>5, <1>7, <1>8 DEF OneLimiterEach, IInv
  <1>10. ASSUME NEW q \in Requests, Pending(q)'
         PROVE  HoldsCurrent(q)'
    <2>1. CASE q = r
      BY <1>5, <1>8, <2>1 DEF HoldsCurrent
    <2>2. CASE q # r
      <3>1. Pending(q) /\ req'[q] = req[q] /\ HoldsCurrent(q) /\ req[q] \in Flights
        BY <1>2, <1>5, <1>10, <2>2, PendingShape DEF Pending, IInv
      <3>2. req[q].ip \in IPs /\ Known(req[q].ip) /\ req[q].ip # ip
        BY <1>7, <3>1 DEF Flights, HoldsCurrent
      <3> QED BY <1>5, <1>8, <3>1, <3>2 DEF HoldsCurrent
    <2> QED BY <2>1, <2>2
  <1>11. ASSUME NEW j \in IPs, Known(j)'
         PROVE  RefilledWhileIdle(j)' /\ YoungSinceSweep(j)'
    <2>1. CASE j = ip
      <3>1. level'[visitors'[j].limiter] = Full /\ visitors'[j].idle = 0
        BY <1>5, <2>1
      <3>2. sinceSweep' \in 0..CleanupInterval
        BY <1>6 DEF TypeOK
      <3>3. RefilledWhileIdle(j)'
        BY <3>1, <2>1 DEF RefilledWhileIdle, Full
      <3>4. 0 <= IdleTimeout + sinceSweep'
        BY <3>2, FreshIsYoung
      <3>5. YoungSinceSweep(j)'
        BY <3>1, <3>4 DEF YoungSinceSweep
      <3> QED BY <3>3, <3>5
    <2>2. CASE j # ip
      <3>1. Known(j) /\ visitors'[j] = visitors[j] /\ visitors[j].limiter # l
            /\ visitors[j].limiter \in Limiters
        BY <1>2, <1>5, <1>7, <1>8, <1>11, <2>2, KnownShape DEF Visitors
      <3>2. level'[visitors[j].limiter] = level[visitors[j].limiter]
        BY <1>5, <3>1
      <3>3. RefilledWhileIdle(j) /\ YoungSinceSweep(j)
        BY <3>1 DEF IInv
      <3> QED BY <1>1, <3>1, <3>2, <3>3 DEF RefilledWhileIdle, YoungSinceSweep
    <2> QED BY <2>1, <2>2
  <1> QED BY <1>6, <1>9, <1>10, <1>11 DEF IInv

\* A request is over: it no longer needs its limiter.
LEMMA FinishShape ==
    ASSUME TypeOK, NEW r \in Requests, req' = [req EXCEPT ![r] = Idle]
    PROVE  /\ req' \in [Requests -> Flights \cup {Idle}]
           /\ \A q \in Requests : Pending(q)' => Pending(q) /\ req'[q] = req[q]
  BY DEF TypeOK, Pending

LEMMA AllowShape ==
    ASSUME IInv, NEW r \in Requests, Allow(r)
    PROVE  \E ip \in IPs :
              /\ ip = req[r].ip /\ Known(ip)
              /\ visitors[ip].limiter = req[r].limiter /\ req[r].limiter \in Limiters
              /\ visitors[ip].idle <= Patience /\ visitors[ip].idle \in Nat
              /\ level[req[r].limiter] >= Refill
              /\ level'[req[r].limiter] = level[req[r].limiter] - Refill
              /\ level'[req[r].limiter] \in 0..Full
              /\ level' \in [Limiters -> 0..Full]
              /\ \A k \in Limiters : k # req[r].limiter => level'[k] = level[k]
  <1>1. TypeOK /\ req[r] \in Flights /\ HoldsCurrent(r)
    BY PendingShape DEF Allow, IInv
  <1>2. PICK ip : ip = req[r].ip
    OBVIOUS
  <1>3. PICK l : l = req[r].limiter
    OBVIOUS
  <1>4. ip \in IPs /\ l \in Limiters /\ req[r].wait \in 0..Patience
    BY <1>1, <1>2, <1>3 DEF Flights
  <1>5. Known(ip) /\ visitors[ip].limiter = l /\ visitors[ip].idle <= req[r].wait
    BY <1>1, <1>2, <1>3 DEF HoldsCurrent
  <1>6. visitors[ip].idle \in Nat
    BY <1>1, <1>4, <1>5, KnownShape DEF Visitors
  <1>7. visitors[ip].idle <= Patience
    BY <1>4, <1>5, <1>6, Capacity
  <1>8. level[l] \in 0..Full /\ level[l] >= Refill /\ level[l] - Refill \in 0..Full
    BY <1>1, <1>3, <1>4, Capacity DEF TypeOK, Allow, HasToken
  <1>9. level' = [level EXCEPT ![l] = level[l] - Refill]
    BY <1>3 DEF Allow
  <1>10. /\ level' \in [Limiters -> 0..Full]
         /\ level'[l] = level[l] - Refill
         /\ \A k \in Limiters : k # l => level'[k] = level[k]
    BY <1>1, <1>4, <1>8, <1>9 DEF TypeOK
  <1> QED BY <1>2, <1>3, <1>4, <1>5, <1>6, <1>7, <1>8, <1>10

LEMMA AllowStep ==
    ASSUME IInv, NEW r \in Requests, Allow(r)
    PROVE  IInv'
  <1>1. PICK ip \in IPs :
              /\ ip = req[r].ip /\ Known(ip)
              /\ visitors[ip].limiter = req[r].limiter /\ req[r].limiter \in Limiters
              /\ visitors[ip].idle <= Patience /\ visitors[ip].idle \in Nat
              /\ level'[req[r].limiter] \in 0..Full
              /\ level' \in [Limiters -> 0..Full]
              /\ \A k \in Limiters : k # req[r].limiter => level'[k] = level[k]
    BY AllowShape
  <1>2. visitors' = visitors /\ sinceSweep' = sinceSweep /\ TypeOK
    BY DEF Allow, IInv
  <1>3. /\ req' \in [Requests -> Flights \cup {Idle}]
        /\ \A q \in Requests : Pending(q)' => Pending(q) /\ req'[q] = req[q]
    BY <1>2, FinishShape DEF Allow
  <1>4. TypeOK'
    BY <1>1, <1>2, <1>3 DEF TypeOK
  <1>5. OneLimiterEach' /\ \A q \in Requests : Pending(q)' => HoldsCurrent(q)'
    BY <1>2, <1>3 DEF IInv, OneLimiterEach, HoldsCurrent, Known
  <1>6. ASSUME NEW j \in IPs, Known(j)'
        PROVE  RefilledWhileIdle(j)' /\ YoungSinceSweep(j)'
    <2>1. Known(j) /\ visitors[j].limiter \in Limiters
      BY <1>2, <1>6, KnownShape DEF Known, Visitors
    <2>2. RefilledWhileIdle(j) /\ YoungSinceSweep(j)
      BY <2>1 DEF IInv
    <2>3. CASE j = ip
      <3>1. level'[visitors[ip].limiter] + Patience >= visitors[ip].idle
        BY <1>1, Capacity
      <3> QED BY <1>2, <2>2, <2>3, <3>1 DEF RefilledWhileIdle, YoungSinceSweep
    <2>4. CASE j # ip
      <3>1. visitors[j].limiter # req[r].limiter
        BY <1>1, <2>1, <2>4 DEF IInv, OneLimiterEach
      <3>2. level'[visitors[j].limiter] = level[visitors[j].limiter]
        BY <1>1, <2>1, <3>1
      <3> QED BY <1>2, <2>2, <3>2 DEF RefilledWhileIdle, YoungSinceSweep
    <2> QED BY <2>3, <2>4
  <1> QED BY <1>4, <1>5, <1>6 DEF IInv

LEMMA RejectStep ==
    ASSUME IInv, NEW r \in Requests, Reject(r)
    PROVE  IInv'
  <1>1. visitors' = visitors /\ sinceSweep' = sinceSweep /\ level' = level /\ TypeOK
    BY DEF Reject, IInv
  <1>2. /\ req' \in [Requests -> Flights \cup {Idle}]
        /\ \A q \in Requests : Pending(q)' => Pending(q) /\ req'[q] = req[q]
    BY <1>1, FinishShape DEF Reject
  <1>3. TypeOK'
    BY <1>1, <1>2 DEF TypeOK
  <1> QED BY <1>1, <1>2, <1>3
          DEF IInv, OneLimiterEach, HoldsCurrent, Known, RefilledWhileIdle, YoungSinceSweep

\* What the sweeper drops has a full bucket, and no request holds on to it.
LEMMA DroppedIsFull ==
    ASSUME IInv, NEW ip \in IPs, Known(ip), Expired(visitors[ip])
    PROVE  /\ level[visitors[ip].limiter] = Full
           /\ \A r \in Requests : Pending(r) => req[r].ip # ip
  <1>1. visitors[ip].limiter \in Limiters /\ visitors[ip].idle \in Nat /\ TypeOK
        /\ visitors[ip].idle > IdleTimeout
    BY KnownShape DEF IInv, Visitors, Expired
  <1>2. level[visitors[ip].limiter] \in 0..Full /\ RefilledWhileIdle(ip)
    BY <1>1 DEF TypeOK, IInv
  <1>3. level[visitors[ip].limiter] = Full
    BY <1>1, <1>2, Capacity DEF RefilledWhileIdle
  <1>4. ASSUME NEW r \in Requests, Pending(r)
        PROVE  req[r].ip # ip
    <2>1. req[r].wait \in 0..Patience /\ visitors[req[r].ip].idle <= req[r].wait
      BY <1>1, <1>4, PendingShape DEF IInv, HoldsCurrent, Flights
    <2> QED BY <1>1, <2>1, Capacity
  <1> QED BY <1>3, <1>4

LEMMA CleanupStep ==
    ASSUME IInv, CleanupVisitors
    PROVE  IInv'
  <1>1. TypeOK /\ level' = level /\ req' = req /\ sinceSweep' = 0
    BY DEF CleanupVisitors, IInv
  <1>2. \A j \in IPs :
            visitors'[j] = IF Known(j) /\ Expired(visitors[j]) THEN None ELSE visitors[j]
    BY DEF CleanupVisitors
  <1>3. TypeOK'
    <2>1. 0 \in 0..CleanupInterval
      BY Capacity
    <2> QED BY <1>1, <2>1 DEF TypeOK, CleanupVisitors
  <1>4. \A j \in IPs : Known(j)' => /\ Known(j) /\ visitors'[j] = visitors[j]
                                    /\ ~Expired(visitors[j])
    BY <1>2 DEF Known
  <1>5. OneLimiterEach'
    BY <1>4 DEF OneLimiterEach, IInv
  <1>6. ASSUME NEW q \in Requests, Pending(q)'
        PROVE  HoldsCurrent(q)'
    <2>1. Pending(q) /\ HoldsCurrent(q) /\ req[q].ip \in IPs
      BY <1>1, <1>6, PendingShape DEF Pending, IInv, Flights
    <2>2. ~(Known(req[q].ip) /\ Expired(visitors[req[q].ip]))
      BY <2>1, DroppedIsFull
    <2>3. visitors'[req[q].ip] = visitors[req[q].ip]
      BY <1>2, <2>1, <2>2
    <2> QED BY <1>1, <2>1, <2>3 DEF HoldsCurrent, Known
  <1>7. ASSUME NEW j \in IPs, Known(j)'
        PROVE  RefilledWhileIdle(j)' /\ YoungSinceSweep(j)'
    <2>1. Known(j) /\ visitors'[j] = visitors[j] /\ ~Expired(visitors[j])
      BY <1>4, <1>7
    <2>2. visitors[j].idle \in Nat /\ RefilledWhileIdle(j)
      BY <1>1, <2>1, KnownShape DEF Visitors, IInv
    <2>3. visitors[j].idle <= IdleTimeout
      BY <2>1, <2>2, Capacity DEF Expired
    <2> QED BY <1>1, <2>1, <2>2, <2>3, Capacity DEF RefilledWhileIdle, YoungSinceSweep
  <1> QED BY <1>3, <1>5, <1>6, <1>7 DEF IInv

LEMMA TickStep ==
    ASSUME IInv, Tick
    PROVE  IInv'
  <1>1. TypeOK /\ sinceSweep' = sinceSweep + 1 /\ sinceSweep < CleanupInterval
    BY DEF Tick, IInv
  <1>2. /\ level' \in [Limiters -> 0..Full]
        /\ \A l \in Limiters : level'[l] = Refilled(level[l])
    <2>1. \A l \in Limiters : Refilled(level[l]) \in 0..Full
      BY <1>1, RefilledShape DEF TypeOK
    <2> QED BY <2>1 DEF Tick
  <1>3. \A j \in IPs :
            /\ ~Known(j) => visitors'[j] = None
            /\ Known(j) => /\ visitors'[j].limiter = visitors[j].limiter
                           /\ visitors'[j].idle = visitors[j].idle + 1
                           /\ visitors'[j] \in Visitors /\ visitors'[j] # None
    <2>1. ASSUME NEW j \in IPs, Known(j)
          PROVE  /\ visitors'[j].limiter = visitors[j].limiter
                 /\ visitors'[j].idle = visitors[j].idle + 1
                 /\ visitors'[j] \in Visitors /\ visitors'[j] # None
      <3>1. visitors[j].limiter \in Limiters /\ visitors[j].idle \in Nat
        BY <1>1, <2>1, KnownShape DEF Visitors
      <3>2. PICK l \in Limiters : l = visitors[j].limiter
        BY <3>1
      <3>3. PICK n \in Nat : n = visitors[j].idle + 1
        BY <3>1
      <3>4. visitors'[j] = [limiter |-> l, idle |-> n]
        BY <2>1, <3>2, <3>3 DEF Tick
      <3> QED BY <3>2, <3>3, <3>4, VisitorShape
    <2>2. \A j \in IPs : ~Known(j) => visitors'[j] = None
      BY DEF Tick
    <2> QED BY <2>1, <2>2
  <1>4. \A q \in Requests :
            /\ ~Pending(q) => req'[q] = Idle
            /\ Pending(q) => /\ req'[q].ip = req[q].ip /\ req'[q].limiter = req[q].limiter
                             /\ req'[q].wait = req[q].wait + 1
                             /\ req'[q] \in Flights
    <2>1. ASSUME NEW q \in Requests, Pending(q)
          PROVE  /\ req'[q].ip = req[q].ip /\ req'[q].limiter = req[q].limiter
                 /\ req'[q].wait = req[q].wait + 1
                 /\ req'[q] \in Flights
      <3>1. /\ req'[q] = [ip |-> req[q].ip, limiter |-> req[q].limiter,
                          wait |-> req[q].wait + 1]
            /\ req[q].ip \in IPs /\ req[q].limiter \in Limiters
            /\ req[q].wait + 1 \in 0..Patience
        BY <1>1, <2>1, PendingShape, Capacity DEF Flights, Tick
      <3> QED BY <3>1 DEF Flights
    <2>2. \A q \in Requests : ~Pending(q) => req'[q] = Idle
      BY DEF Tick
    <2> QED BY <2>1, <2>2
  <1>5. TypeOK'
    <2>1. visitors' \in [IPs -> Visitors \cup {None}]
      BY <1>3 DEF Tick
    <2>2. req' \in [Requests -> Flights \cup {Idle}]
      BY <1>4 DEF Tick
    <2>3. sinceSweep' \in 0..CleanupInterval
      BY <1>1, Capacity DEF TypeOK
    <2> QED BY <1>2, <2>1, <2>2, <2>3 DEF TypeOK
  <1>6. \A j \in IPs : Known(j)' <=> Known(j)
    BY <1>3 DEF Known
  <1>7. \A q \in Requests : Pending(q)' => Pending(q)
    BY <1>4 DEF Pending
  <1>8. OneLimiterEach'
    BY <1>3, <1>6 DEF OneLimiterEach, IInv
  <1>9. ASSUME NEW q \in Requests, Pending(q)'
        PROVE  HoldsCurrent(q)'
    <2>1. Pending(q) /\ HoldsCurrent(q) /\ req[q] \in Flights
      BY <1>1, <1>7, <1>9, PendingShape DEF IInv
    <2>2. PICK ip \in IPs : ip = req[q].ip
      BY <2>1 DEF Flights
    <2>3. visitors[ip].idle \in Nat /\ req[q].wait \in 0..Patience /\ Known(ip)
      BY <1>1, <2>1, <2>2, KnownShape DEF Flights, Visitors, HoldsCurrent
    <2>4. visitors'[ip].idle <= req'[q].wait
      BY <1>3, <1>4, <2>1, <2>2, <2>3, Capacity DEF HoldsCurrent
    <2> QED BY <1>3, <1>4, <1>6, <2>1, <2>2, <2>3, <2>4 DEF HoldsCurrent
  <1>10. ASSUME NEW j \in IPs, Known(j)'
         PROVE  RefilledWhileIdle(j)' /\ YoungSinceSweep(j)'
    <2>1. /\ Known(j) /\ visitors[j].limiter \in Limiters /\ visitors[j].idle \in Nat
          /\ visitors'[j].limiter = visitors[j].limiter
          /\ visitors'[j].idle = visitors[j].idle + 1
      BY <1>1, <1>3, <1>6, <1>10, KnownShape DEF Visitors
    <2>2. RefilledWhileIdle(j) /\ YoungSinceSweep(j)
      BY <2>1 DEF IInv
    <2>3. level[visitors[j].limiter] \in 0..Full /\ sinceSweep \in 0..CleanupInterval
      BY <1>1, <2>1 DEF TypeOK
    <2>4. PICK n \in 0..Full : n = level[visitors[j].limiter]
      BY <2>3
    <2>5. level'[visitors[j].limiter] = IF n = Full THEN Full ELSE n + 1
      BY <1>2, <2>1, <2>4, RefilledShape
    <2>6. RefilledWhileIdle(j)'
      BY <2>1, <2>2, <2>4, <2>5, Capacity DEF RefilledWhileIdle
    <2>7. YoungSinceSweep(j)'
      BY <1>1, <2>1, <2>2, <2>3, Capacity DEF YoungSinceSweep
    <2> QED BY <2>6, <2>7
  <1> QED BY <1>5, <1>8, <1>9, <1>10 DEF IInv

LEMMA NextIInv == IInv /\ [Next]_vars => IInv'
  <1> SUFFICES ASSUME IInv, [Next]_vars
               PROVE  IInv'
    OBVIOUS
  <1>1. ASSUME NEW r \in Requests, NEW ip \in IPs, GetLimiter(r, ip)
        PROVE  IInv'
    BY <1>1, GetLimiterStep
  <1>2. ASSUME NEW r \in Requests, NEW ip \in IPs, NewVisitor(r, ip)
        PROVE  IInv'
    BY <1>2, NewVisitorStep
  <1>3. ASSUME NEW r \in Requests, Allow(r)
        PROVE  IInv'
    BY <1>3, AllowStep
  <1>4. ASSUME NEW r \in Requests, Reject(r)
        PROVE  IInv'
    BY <1>4, RejectStep
  <1>5. CASE CleanupVisitors
    BY <1>5, CleanupStep
  <1>6. CASE Tick
    BY <1>6, TickStep
  <1>7. CASE UNCHANGED vars
    BY <1>7 DEF vars, IInv, TypeOK, OneLimiterEach, HoldsCurrent, Known, Pending,
                RefilledWhileIdle, YoungSinceSweep
  <1> QED BY <1>1, <1>2, <1>3, <1>4, <1>5, <1>6, <1>7 DEF Next

LEMMA Inductive == Spec => []IInv
  BY InitIInv, NextIInv, PTL DEF Spec

\* Every reachable state is well typed: no bucket ever holds less than nothing or
\* more than its burst.
THEOREM TypeCorrect == Spec => []TypeOK
  <1>1. IInv => TypeOK
    BY DEF IInv
  <1> QED BY <1>1, Inductive, PTL

\* The visitor map holds no address for longer than the timeout and one sweep
\* interval after its last request.
THEOREM ResidenceBounded == Spec => []BoundedResidence
  <1>1. IInv => BoundedResidence
    <2> SUFFICES ASSUME IInv, NEW ip \in IPs, Known(ip)
                 PROVE  visitors[ip].idle <= IdleTimeout + CleanupInterval
      BY DEF BoundedResidence
    <2>1. visitors[ip].idle \in Nat /\ sinceSweep \in 0..CleanupInterval
      BY KnownShape DEF IInv, TypeOK, Visitors
    <2>2. visitors[ip].idle <= IdleTimeout + sinceSweep
      BY DEF IInv, YoungSinceSweep
    <2> QED BY <2>1, <2>2, Capacity
  <1> QED BY <1>1, Inductive, PTL

-----------------------------------------------------------------------------
(* The refinement: the map of limiters is one bucket per address.          *)

LEMMA BucketShape ==
    ASSUME IInv
    PROVE  \A ip \in IPs : BucketOf(ip) \in 0..Full
  BY KnownShape, Capacity DEF IInv, TypeOK, BucketOf, Visitors

\* A step that leaves every bucket alone is a stutter.
LEMMA SameBuckets ==
    ASSUME \A ip \in IPs : BucketOf(ip)' = BucketOf(ip)
    PROVE  [Bucket!Next]_Buckets
  BY DEF Buckets

LEMMA GetLimiterIsStutter ==
    ASSUME IInv, NEW r \in Requests, NEW ip \in IPs, GetLimiter(r, ip)
    PROVE  [Bucket!Next]_Buckets
  <1> DEFINE l == visitors[ip].limiter
  <1>1. visitors[ip] \in Visitors /\ l \in Limiters /\ TypeOK /\ Known(ip)
    BY KnownShape DEF IInv, GetLimiter, Visitors
  <1>2. [limiter |-> l, idle |-> 0] # None
    BY <1>1, VisitorShape
  <1>3. /\ visitors' = [visitors EXCEPT ![ip] = [limiter |-> l, idle |-> 0]]
        /\ level' = level
    BY DEF GetLimiter, Seen
  <1>4. /\ visitors'[ip] = [limiter |-> l, idle |-> 0]
        /\ \A j \in IPs : j # ip => visitors'[j] = visitors[j]
    BY <1>1, <1>3 DEF TypeOK
  <1>5. \A j \in IPs : /\ Known(j)' <=> Known(j)
                       /\ Known(j) => visitors'[j].limiter = visitors[j].limiter
    BY <1>1, <1>2, <1>4 DEF Known
  <1>6. \A j \in IPs : BucketOf(j)' = BucketOf(j)
    BY <1>3, <1>5 DEF BucketOf
  <1> QED BY <1>6, SameBuckets

\* A new limiter is full, as the bucket of an address without a visitor is.
LEMMA NewVisitorIsStutter ==
    ASSUME IInv, NEW r \in Requests, NEW ip \in IPs, NewVisitor(r, ip)
    PROVE  [Bucket!Next]_Buckets
  <1>1. PICK l \in Limiters \ Reachable :
            /\ level' = [level EXCEPT ![l] = Full]
            /\ visitors' = [visitors EXCEPT ![ip] = [limiter |-> l, idle |-> 0]]
    BY DEF NewVisitor
  <1>2. TypeOK /\ ~Known(ip) /\ l \in Limiters
    BY DEF IInv, NewVisitor
  <1>3. [limiter |-> l, idle |-> 0] # None
    BY VisitorShape
  <1>4. /\ visitors'[ip] = [limiter |-> l, idle |-> 0]
        /\ \A j \in IPs : j # ip => visitors'[j] = visitors[j]
        /\ level'[l] = Full
        /\ \A k \in Limiters : k # l => level'[k] = level[k]
    BY <1>1, <1>2 DEF TypeOK
  <1>5. \A j \in IPs : Known(j) => visitors[j].limiter # l /\ j # ip
                                   /\ visitors[j].limiter \in Limiters
    BY <1>1, <1>2, KnownShape DEF Reachable, Visitors
  <1>6. Known(ip)' /\ visitors'[ip].limiter = l
    BY <1>3, <1>4 DEF Known
  <1>7. BucketOf(ip)' = Full /\ BucketOf(ip) = Full
    <2>1. BucketOf(ip)' = level'[l]
      BY <1>6 DEF BucketOf
    <2> QED BY <1>2, <1>4, <2>1 DEF BucketOf
  <1>8. ASSUME NEW j \in IPs, j # ip
        PROVE  BucketOf(j)' = BucketOf(j)
    <2>1. visitors'[j] = visitors[j] /\ (Known(j)' <=> Known(j))
      BY <1>4, <1>8 DEF Known
    <2>2. Known(j) => level'[visitors[j].limiter] = level[visitors[j].limiter]
      BY <1>4, <1>5
    <2> QED BY <2>1, <2>2 DEF BucketOf, Full
  <1>9. \A j \in IPs : BucketOf(j)' = BucketOf(j)
    BY <1>7, <1>8
  <1> QED BY <1>9, SameBuckets

\* Allow spends a token of the address's bucket: the limiter it fetched is still
\* the one in the map.
LEMMA AllowIsAdmit ==
    ASSUME IInv, NEW r \in Requests, Allow(r)
    PROVE  [Bucket!Next]_Buckets
  <1>1. PICK ip \in IPs :
              /\ ip = req[r].ip /\ Known(ip)
              /\ visitors[ip].limiter = req[r].limiter /\ req[r].limiter \in Limiters
              /\ level[req[r].limiter] >= Refill
              /\ level'[req[r].limiter] = level[req[r].limiter] - Refill
              /\ \A k \in Limiters : k # req[r].limiter => level'[k] = level[k]
    BY AllowShape
  <1>2. visitors' = visitors /\ TypeOK
    BY DEF Allow, IInv
  <1>3. BucketOf(ip) >= Refill /\ BucketOf(ip)' = BucketOf(ip) - Refill
    BY <1>1, <1>2 DEF BucketOf, Known
  <1>4. ASSUME NEW j \in IPs, j # ip
        PROVE  BucketOf(j)' = BucketOf(j)
    <2>1. CASE Known(j)
      <3>1. visitors[j].limiter \in Limiters /\ visitors[j].limiter # req[r].limiter
        BY <1>1, <1>2, <1>4, <2>1, KnownShape DEF IInv, OneLimiterEach, Visitors
      <3> QED BY <1>1, <1>2, <2>1, <3>1 DEF BucketOf, Known
    <2>2. CASE ~Known(j)
      BY <1>2, <2>2 DEF BucketOf, Known, Full
    <2> QED BY <2>1, <2>2
  <1>5. Buckets' = [Buckets EXCEPT ![ip] = Buckets[ip] - Refill]
    BY <1>3, <1>4 DEF Buckets
  <1>6. Buckets[ip] >= Refill
    BY <1>3 DEF Buckets
  <1>7. Bucket!Admit(ip)
    BY <1>5, <1>6 DEF Bucket!Admit
  <1> QED BY <1>7 DEF Bucket!Next

LEMMA RejectIsStutter ==
    ASSUME NEW r \in Requests, Reject(r)
    PROVE  [Bucket!Next]_Buckets
  <1>1. \A j \in IPs : BucketOf(j)' = BucketOf(j)
    BY DEF Reject, BucketOf, Known
  <1> QED BY <1>1, SameBuckets

\* What the sweeper forgets it would find again: a full bucket.
LEMMA CleanupIsStutter ==
    ASSUME IInv, CleanupVisitors
    PROVE  [Bucket!Next]_Buckets
  <1>1. level' = level /\ \A j \in IPs :
            visitors'[j] = IF Known(j) /\ Expired(visitors[j]) THEN None ELSE visitors[j]
    BY DEF CleanupVisitors
  <1>2. ASSUME NEW j \in IPs
        PROVE  BucketOf(j)' = BucketOf(j)
    <2>1. CASE Known(j) /\ Expired(visitors[j])
      <3>1. level[visitors[j].limiter] = Full
        BY <2>1, DroppedIsFull
      <3>2. ~Known(j)'
        BY <1>1, <2>1 DEF Known
      <3> QED BY <2>1, <3>1, <3>2 DEF BucketOf, Full
    <2>2. CASE ~(Known(j) /\ Expired(visitors[j]))
      BY <1>1, <2>2 DEF BucketOf, Known, Full
    <2> QED BY <2>1, <2>2
  <1> QED BY <1>2, SameBuckets

LEMMA TickIsTick ==
    ASSUME IInv, Tick
    PROVE  [Bucket!Next]_Buckets
  <1>1. ASSUME NEW j \in IPs
        PROVE  BucketOf(j)' = Refilled(BucketOf(j))
    <2>1. CASE Known(j)
      <3>1. visitors[j].limiter \in Limiters /\ visitors[j].idle + 1 \in Nat
        BY <2>1, KnownShape DEF IInv, Visitors
      <3>2. PICK l \in Limiters : l = visitors[j].limiter
        BY <3>1
      <3>3. PICK n \in Nat : n = visitors[j].idle + 1
        BY <3>1
      <3>4. visitors'[j] = [limiter |-> l, idle |-> n]
        BY <2>1, <3>2, <3>3 DEF Tick
      <3>5. Known(j)' /\ visitors'[j].limiter = l
        BY <3>4, VisitorShape DEF Known
      <3>6. level'[l] = Refilled(level[l])
        BY DEF Tick
      <3> QED BY <2>1, <3>2, <3>5, <3>6 DEF BucketOf
    <2>2. CASE ~Known(j)
      <3>1. ~Known(j)'
        BY <2>2 DEF Tick, Known
      <3>2. Refilled(Full) = Full
        BY Capacity DEF Refilled
      <3> QED BY <2>2, <3>1, <3>2 DEF BucketOf, Full
    <2> QED BY <2>1, <2>2
  <1>2. \A n : Bucket!Refilled(n) = Refilled(n)
    BY DEF Bucket!Refilled, Refilled, Bucket!Full, Full
  <1>3. Buckets' = [ip \in IPs |-> Refilled(BucketOf(ip))]
    BY <1>1 DEF Buckets
  <1>4. Buckets' = [ip \in IPs |-> Bucket!Refilled(Buckets[ip])]
    BY <1>2, <1>3 DEF Buckets
  <1>5. Bucket!Tick
    BY <1>4 DEF Bucket!Tick
  <1> QED BY <1>5 DEF Bucket!Next

LEMMA BucketInit == Init => Bucket!Init
  BY DEF Init, Bucket!Init, Buckets, BucketOf, Known, Full, Bucket!Full

LEMMA BucketNext == IInv /\ [Next]_vars => [Bucket!Next]_Buckets
  <1> SUFFICES ASSUME IInv, [Next]_vars
               PROVE  [Bucket!Next]_Buckets
    OBVIOUS
  <1>1. ASSUME NEW r \in Requests, NEW ip \in IPs, GetLimiter(r, ip)
        PROVE  [Bucket!Next]_Buckets
    BY <1>1, GetLimiterIsStutter
  <1>2. ASSUME NEW r \in Requests, NEW ip \in IPs, NewVisitor(r, ip)
        PROVE  [Bucket!Next]_Buckets
    BY <1>2, NewVisitorIsStutter
  <1>3. ASSUME NEW r \in Requests, Allow(r)
        PROVE  [Bucket!Next]_Buckets
    BY <1>3, AllowIsAdmit
  <1>4. ASSUME NEW r \in Requests, Reject(r)
        PROVE  [Bucket!Next]_Buckets
    BY <1>4, RejectIsStutter
  <1>5. CASE CleanupVisitors
    BY <1>5, CleanupIsStutter
  <1>6. CASE Tick
    BY <1>6, TickIsTick
  <1>7. CASE UNCHANGED vars
    BY <1>7 DEF vars, Buckets, BucketOf, Known
  <1> QED BY <1>1, <1>2, <1>3, <1>4, <1>5, <1>6, <1>7 DEF Next

\* Eviction is invisible: whatever requests overlap a sweep, each address is let
\* through exactly as one token bucket of its own would let it through.
THEOREM BucketRefined == Spec => ImplementsTokenBucket
  <1>1. Init => Bucket!Init
    BY BucketInit
  <1>2. IInv /\ [Next]_vars => [Bucket!Next]_Buckets
    BY BucketNext
  <1> QED BY <1>1, <1>2, Inductive, PTL DEF Spec, ImplementsTokenBucket, Bucket!Spec
=============================================================================
