-------------------------- MODULE AccountLockProofs --------------------------
(***************************************************************************)
(* Proofs about AccountLock, for any number of members, requests and rows: *)
(* the rows and emails of one lockout are bounded by the requests handled  *)
(* at once, and no row claims an email that was not sent.                  *)
(***************************************************************************)
EXTENDS AccountLock, FiniteSetTheorems, WellFoundedInduction, SequenceTheorems, TLAPS

\* A set of positions that is not empty has a last one.
LEMMA LastPosition ==
    ASSUME NEW n \in Nat, NEW S, S \subseteq 1..n, S # {}
    PROVE  \E k \in S : \A j \in S : j <= k
  <1> DEFINE T == {n - k : k \in S}
             Less == OpToRel(<, Nat)
  <1>1. T \subseteq Nat /\ T # {}
    <2>1. \A k \in S : n - k \in Nat
      OBVIOUS
    <2> QED BY <2>1
  <1>2. IsWellFoundedOn(Less, Nat)
    BY NatLessThanWellFounded
  <1>3. \A x, y \in Nat : y < x => <<y, x>> \in Less
    BY DEF OpToRel
  <1> HIDE DEF T, Less
  <1>4. PICK x \in T : \A y \in T : <<y, x>> \notin Less
    BY <1>1, <1>2, WFMin
  <1>5. \A y \in T : x <= y
    <2> SUFFICES ASSUME NEW y \in T
                 PROVE  x <= y
      OBVIOUS
    <2>1. x \in Nat /\ y \in Nat /\ ~(y < x)
      BY <1>1, <1>3, <1>4
    <2> QED BY <2>1
  <1>6. PICK k \in S : x = n - k
    BY DEF T
  <1>7. ASSUME NEW j \in S
        PROVE  j <= k
    <2>1. n - k <= n - j
      BY <1>5, <1>6 DEF T
    <2> QED BY <2>1
  <1> QED BY <1>7

-----------------------------------------------------------------------------
(* What the table and the calls look like.                                 *)

LEMMA TableShape ==
    ASSUME TypeOK
    PROVE  /\ Len(lock) \in Nat /\ DOMAIN lock = 1..Len(lock)
           /\ \A k \in 1..Len(lock) : lock[k] \in Locks
  BY LenProperties, ElementOfSeq DEF TypeOK

LEMMA CreatingShape ==
    ASSUME TypeOK, NEW r \in Requests, At(r, "creating")
    PROVE  req[r].member \in Members /\ req[r].attempts \in Counts
  BY DEF TypeOK, At, Calls, Idle

LEMMA BumpingShape ==
    ASSUME TypeOK, NEW r \in Requests, At(r, "bumping")
    PROVE  req[r].id \in 1..Len(lock) /\ req[r].attempts \in Counts
  BY TableShape DEF TypeOK, At, Calls, Idle

LEMMA CallShape ==
    ASSUME NEW m \in Members, NEW n \in Counts
    PROVE  [stage |-> "creating", member |-> m, attempts |-> n] \in Calls
  BY DEF Calls

LEMMA IdleShape == Idle.stage = "idle"
  BY DEF Idle

LEMMA RequestsNat == Cardinality(Requests) \in Nat
  BY FS_CardinalityType, LockAssumption

\* The two sets BoundedDuplicates counts.
LEMMA CountedShape ==
    ASSUME TypeOK, NEW m \in Members
    PROVE  /\ ActiveIds(m) \subseteq 1..Len(lock) /\ IsFiniteSet(ActiveIds(m))
           /\ Creating(m) \subseteq Requests /\ IsFiniteSet(Creating(m))
  <1>1. ActiveIds(m) \subseteq 1..Len(lock) /\ Len(lock) \in Nat
    BY TableShape DEF ActiveIds
  <1>2. IsFiniteSet(1..Len(lock))
    BY <1>1, FS_Interval
  <1>3. Creating(m) \subseteq Requests
    BY DEF Creating
  <1> QED BY <1>1, <1>2, <1>3, FS_Subset, FS_CardinalityType, LockAssumption

-----------------------------------------------------------------------------
(* Every action but CreateLock leaves the rows where they are, and moves   *)
(* each of them only forward.                                              *)

Aged(k) ==
    /\ lock'[k].member = lock[k].member
    /\ lock'[k].locked => lock[k].locked
    /\ lock[k].expired => lock'[k].expired
    /\ lock[k].sent => lock'[k].sent
    /\ lock'[k].notified => lock[k].notified \/ lock[k].sent

TableAged ==
    /\ lock' \in Seq(Locks)
    /\ Len(lock') = Len(lock)
    /\ \A k \in 1..Len(lock) : Aged(k)

LEMMA SameTable ==
    ASSUME TypeOK, lock' = lock
    PROVE  TableAged
  BY DEF TableAged, Aged, TypeOK

\* A write of one row.
LEMMA WrittenRow ==
    ASSUME TypeOK, NEW k \in 1..Len(lock), NEW row \in Locks,
           lock' = [lock EXCEPT ![k] = row],
           row.member = lock[k].member, row.locked => lock[k].locked,
           lock[k].expired => row.expired, lock[k].sent => row.sent,
           row.notified => lock[k].notified \/ lock[k].sent
    PROVE  TableAged /\ lock'[k] = row
  <1>1. /\ lock' \in Seq(Locks) /\ Len(lock') = Len(lock)
        /\ \A j \in 1..Len(lock) : lock'[j] = IF j = k THEN row ELSE lock[j]
    BY ExceptSeq DEF TypeOK
  <1> QED BY <1>1 DEF TableAged, Aged

LEMMA AgedActive ==
    ASSUME TypeOK, TableAged, NEW m \in Members
    PROVE  ActiveIds(m)' \subseteq ActiveIds(m)
  <1>1. DOMAIN lock = 1..Len(lock) /\ DOMAIN lock' = 1..Len(lock)
    BY TableShape, LenProperties DEF TableAged
  <1> QED BY <1>1 DEF ActiveIds, Active, TableAged, Aged

LEMMA AgedNotified ==
    ASSUME TypeOK, NotifiedMeansSent, TableAged
    PROVE  NotifiedMeansSent'
  <1>1. DOMAIN lock = 1..Len(lock) /\ DOMAIN lock' = 1..Len(lock)
    BY TableShape, LenProperties DEF TableAged
  <1> QED BY <1>1 DEF NotifiedMeansSent, TableAged, Aged

\* A step that only moves rows forward, lets no further request create a row,
\* and lets a goroutine mark its row only after sending its email.
LEMMA ForwardStep ==
    ASSUME IInv, TableAged,
           req' \in [Requests -> Calls \cup {Idle}],
           \A r \in Requests : At(r, "bumping")' => req'[r].id \in 1..Len(lock),
           \A m \in Members : Creating(m)' \subseteq Creating(m),
           mails' \subseteq Mails,
           \A g \in mails' : g.id \in 1..Len(lock),
           \A g \in mails' : g.stage = "marking" => g \in mails \/ lock'[g.id].sent
    PROVE  IInv'
  <1>1. TypeOK /\ Len(lock) \in Nat /\ DOMAIN lock' = 1..Len(lock) /\ DOMAIN lock = 1..Len(lock)
    BY TableShape, LenProperties DEF IInv, TableAged
  <1>2. TypeOK'
    BY <1>1 DEF TypeOK, TableAged
  <1>3. BoundedDuplicates'
    <2> SUFFICES ASSUME NEW m \in Members
                 PROVE  (Cardinality(ActiveIds(m)) + Cardinality(Creating(m)))'
                           <= Cardinality(Requests)
      BY DEF BoundedDuplicates
    <2>1. Cardinality(ActiveIds(m)) + Cardinality(Creating(m)) <= Cardinality(Requests)
      BY DEF IInv, BoundedDuplicates
    <2>2. ActiveIds(m)' \subseteq ActiveIds(m) /\ Creating(m)' \subseteq Creating(m)
      BY <1>1, AgedActive
    <2>3. IsFiniteSet(ActiveIds(m)) /\ IsFiniteSet(Creating(m))
      BY <1>1, CountedShape
    <2> QED BY <2>1, <2>2, <2>3, RequestsNat, FS_Subset, FS_CardinalityType
  <1>4. NotifiedMeansSent'
    BY <1>1, AgedNotified DEF IInv
  <1>5. MarkingIsSent'
    BY <1>1 DEF MarkingIsSent, IInv, TableAged, Aged
  <1> QED BY <1>2, <1>3, <1>4, <1>5 DEF IInv

\* A call that ends, or goes on to a stage other than "creating".
LEMMA CallEnds ==
    ASSUME TypeOK, NEW r \in Requests, NEW call \in Calls \cup {Idle},
           call.stage # "creating",
           call.stage = "bumping" => call.id \in 1..Len(lock),
           req' = [req EXCEPT ![r] = call]
    PROVE  /\ req' \in [Requests -> Calls \cup {Idle}]
           /\ \A q \in Requests : At(q, "bumping")' => req'[q].id \in 1..Len(lock)
           /\ \A m \in Members : Creating(m)' \subseteq Creating(m)
  <1>1. /\ req' \in [Requests -> Calls \cup {Idle}]
        /\ req'[r] = call
        /\ \A q \in Requests : q # r => req'[q] = req[q]
    BY DEF TypeOK
  <1>2. \A q \in Requests : At(q, "bumping")' => req'[q].id \in 1..Len(lock)
    BY <1>1, BumpingShape DEF At
  <1>3. \A m \in Members : Creating(m)' \subseteq Creating(m)
    BY <1>1 DEF Creating, At
  <1> QED BY <1>1, <1>2, <1>3

\* The calls are left alone.
LEMMA SameCalls ==
    ASSUME TypeOK, req' = req
    PROVE  /\ req' \in [Requests -> Calls \cup {Idle}]
           /\ \A q \in Requests : At(q, "bumping")' => req'[q].id \in 1..Len(lock)
           /\ \A m \in Members : Creating(m)' \subseteq Creating(m)
  BY BumpingShape DEF TypeOK, At, Creating

\* Goroutines that were there before, and did not turn to marking.
LEMMA FewerMails ==
    ASSUME TypeOK, mails' \subseteq mails
    PROVE  /\ mails' \subseteq Mails
           /\ \A g \in mails' : g.id \in 1..Len(lock)
           /\ \A g \in mails' : g.stage = "marking" => g \in mails \/ lock'[g.id].sent
  BY TableShape DEF TypeOK

-----------------------------------------------------------------------------
(* The inductive invariant, one action at a time.                          *)

LEMMA InitIInv == Init => IInv
  <1> SUFFICES ASSUME Init
               PROVE  IInv
    OBVIOUS
  <1>1. lock = <<>> /\ lock \in Seq(Locks) /\ Len(lock) = 0 /\ DOMAIN lock = {}
    BY EmptySeq DEF Init
  <1>2. TypeOK
    BY <1>1, LockAssumption DEF Init, TypeOK, At, Idle
  <1>3. \A m \in Members : ActiveIds(m) = {} /\ Creating(m) = {}
    BY <1>1 DEF Init, ActiveIds, Creating, At, Idle
  <1>4. BoundedDuplicates
    BY <1>3, FS_EmptySet, RequestsNat DEF BoundedDuplicates
  <1>5. NotifiedMeansSent /\ MarkingIsSent
    BY <1>1 DEF NotifiedMeansSent, MarkingIsSent, Init
  <1> QED BY <1>2, <1>4, <1>5 DEF IInv

\* Before a request goes to insert, the member had no active row: the bound is
\* then one on the requests alone.
LEMMA FindNoneStep ==
    ASSUME IInv, NEW r \in Requests, NEW m \in Members, NEW n \in Counts, FindNone(r, m, n)
    PROVE  IInv'
  <1> DEFINE call == [stage |-> "creating", member |-> m, attempts |-> n]
  <1>1. TypeOK /\ lock' = lock /\ mails' = mails /\ ActiveIds(m) = {}
        /\ req' = [req EXCEPT ![r] = call] /\ call \in Calls
    BY CallShape DEF IInv, FindNone, Call
  <1>2. /\ req' \in [Requests -> Calls \cup {Idle}]
        /\ req'[r] = call
        /\ \A q \in Requests : q # r => req'[q] = req[q]
    BY <1>1 DEF TypeOK
  <1>3. TypeOK'
    BY <1>1, <1>2 DEF TypeOK, At
  <1>4. ASSUME NEW p \in Members
        PROVE  (Cardinality(ActiveIds(p)) + Cardinality(Creating(p)))'
                  <= Cardinality(Requests)
    <2>1. ActiveIds(p)' = ActiveIds(p)
      BY <1>1 DEF ActiveIds, Active
    <2>2. CASE p = m
      <3>1. Cardinality(ActiveIds(p)') = 0
        BY <1>1, <2>1, <2>2, FS_EmptySet
      <3>2. Creating(p)' \in SUBSET Requests
        BY DEF Creating
      <3>3. Cardinality(Creating(p)') <= Cardinality(Requests)
            /\ Cardinality(Creating(p)') \in Nat
        BY <3>2, FS_Subset, FS_CardinalityType, LockAssumption
      <3> QED BY <3>1, <3>3, RequestsNat
    <2>3. CASE p # m
      <3>1. Creating(p)' \subseteq Creating(p)
        BY <1>2, <2>3 DEF Creating, At
      <3>2. IsFiniteSet(ActiveIds(p)) /\ IsFiniteSet(Creating(p))
        BY <1>1, CountedShape
      <3>3. Cardinality(ActiveIds(p)) + Cardinality(Creating(p)) <= Cardinality(Requests)
        BY DEF IInv, BoundedDuplicates
      <3> QED BY <2>1, <3>1, <3>2, <3>3, RequestsNat, FS_Subset, FS_CardinalityType
    <2> QED BY <2>2, <2>3
  <1>5. BoundedDuplicates'
    BY <1>4 DEF BoundedDuplicates
  <1>6. NotifiedMeansSent' /\ MarkingIsSent'
    BY <1>1 DEF IInv, NotifiedMeansSent, MarkingIsSent
  <1> QED BY <1>3, <1>5, <1>6 DEF IInv

LEMMA FindActiveStep ==
    ASSUME IInv, NEW r \in Requests, NEW m \in Members, NEW n \in Counts, FindActive(r, m, n)
    PROVE  IInv'
  <1>1. TypeOK /\ lock' = lock /\ mails' = mails /\ ActiveIds(m) # {}
    BY DEF IInv, FindActive
  <1>2. Len(lock) \in Nat /\ Len(lock) <= MaxLocks /\ MaxLocks \in Nat
    BY <1>1, TableShape, LockAssumption DEF TypeOK
  <1>3. Newest(ActiveIds(m)) \in ActiveIds(m)
    <2>1. ActiveIds(m) \subseteq 1..Len(lock)
      BY <1>1, CountedShape
    <2>2. \E k \in ActiveIds(m) : \A j \in ActiveIds(m) : j <= k
      BY <1>1, <1>2, <2>1, LastPosition
    <2> QED BY <2>2 DEF Newest
  <1>4. PICK k \in 1..Len(lock) : k = Newest(ActiveIds(m))
    BY <1>1, <1>3, CountedShape
  <1>5. PICK call : call = [stage |-> "bumping", id |-> k, attempts |-> n]
    OBVIOUS
  <1>6. call \in Calls /\ call.stage = "bumping" /\ call.id = k
    BY <1>2, <1>5 DEF Calls
  <1>7. req' = [req EXCEPT ![r] = call]
    BY <1>4, <1>5 DEF FindActive, Call
  <1>8. TableAged
    BY <1>1, SameTable
  <1>9. /\ req' \in [Requests -> Calls \cup {Idle}]
        /\ \A q \in Requests : At(q, "bumping")' => req'[q].id \in 1..Len(lock)
        /\ \A p \in Members : Creating(p)' \subseteq Creating(p)
    BY <1>1, <1>6, <1>7, CallEnds
  <1>10. /\ mails' \subseteq Mails
         /\ \A g \in mails' : g.id \in 1..Len(lock)
         /\ \A g \in mails' : g.stage = "marking" => g \in mails \/ lock'[g.id].sent
    BY <1>1, FewerMails
  <1> QED BY <1>8, <1>9, <1>10, ForwardStep

LEMMA UpdateAttemptsStep ==
    ASSUME IInv, NEW r \in Requests, UpdateAttempts(r)
    PROVE  IInv'
  <1>1. TypeOK /\ mails' = mails /\ At(r, "bumping")
    BY DEF IInv, UpdateAttempts
  <1>2. PICK k \in 1..Len(lock) : k = req[r].id
    BY <1>1, BumpingShape
  <1>3. lock[k] \in Locks /\ req[r].attempts \in Counts
    BY <1>1, TableShape, BumpingShape
  <1>4. PICK row : row = [lock[k] EXCEPT !.attempts = req[r].attempts]
    OBVIOUS
  <1>5. /\ row \in Locks /\ row.member = lock[k].member /\ row.locked = lock[k].locked
        /\ row.expired = lock[k].expired /\ row.sent = lock[k].sent
        /\ row.notified = lock[k].notified
    BY <1>3, <1>4 DEF Locks
  <1>6. lock' = [lock EXCEPT ![k] = row] /\ req' = [req EXCEPT ![r] = Idle]
    BY <1>2, <1>4 DEF UpdateAttempts, Set, Finish
  <1>7. TableAged
    BY <1>1, <1>5, <1>6, WrittenRow
  <1>8. /\ req' \in [Requests -> Calls \cup {Idle}]
        /\ \A q \in Requests : At(q, "bumping")' => req'[q].id \in 1..Len(lock)
        /\ \A p \in Members : Creating(p)' \subseteq Creating(p)
    BY <1>1, <1>6, IdleShape, CallEnds
  <1>9. /\ mails' \subseteq Mails
        /\ \A g \in mails' : g.id \in 1..Len(lock)
        /\ \A g \in mails' : g.stage = "marking" => g \in mails \/ lock'[g.id].sent
    BY <1>1, FewerMails
  <1> QED BY <1>7, <1>8, <1>9, ForwardStep

\* The one action that adds a row: the request that was counted as creating
\* is now counted by its row.
LEMMA CreateLockStep ==
    ASSUME IInv, NEW r \in Requests, CreateLock(r)
    PROVE  IInv'
  <1> DEFINE row == NewLock(req[r].member, req[r].attempts)
             new == Len(lock) + 1
  <1>1. /\ TypeOK /\ At(r, "creating") /\ Len(lock) < MaxLocks
        /\ lock' = Append(lock, row)
        /\ req' = [req EXCEPT ![r] = Idle]
        /\ mails' \subseteq mails \cup {[stage |-> "sending", id |-> new]}
    BY DEF IInv, CreateLock, Finish, InsertId
  <1>2. Len(lock) \in Nat /\ DOMAIN lock = 1..Len(lock) /\ MaxLocks \in Nat
        /\ lock \in Seq(Locks) /\ mails \subseteq Mails
    BY <1>1, TableShape, LockAssumption DEF TypeOK
  <1>3. row \in Locks /\ row.member = req[r].member /\ row.locked /\ ~row.expired
        /\ row.notified = FALSE
    BY <1>1, CreatingShape DEF NewLock, Locks
  <1> HIDE DEF row
  <1>4. /\ lock' \in Seq(Locks) /\ Len(lock') = new
        /\ \A k \in 1..Len(lock) : lock'[k] = lock[k]
        /\ lock'[new] = row
    BY <1>1, <1>2, <1>3, AppendProperties
  <1>5. DOMAIN lock' = 1..new /\ new \in 1..MaxLocks
    BY <1>1, <1>2, <1>4, LenProperties
  <1>6. /\ req' \in [Requests -> Calls \cup {Idle}]
        /\ req'[r] = Idle
        /\ \A q \in Requests : q # r => req'[q] = req[q]
    BY <1>1 DEF TypeOK
  <1>7. mails' \subseteq Mails /\ \A g \in mails' : g.id \in 1..new
    <2>1. [stage |-> "sending", id |-> new] \in Mails
      BY <1>5 DEF Mails
    <2>2. \A g \in mails : g.id \in 1..Len(lock)
      BY <1>1, <1>2 DEF TypeOK
    <2> QED BY <1>1, <1>2, <2>1, <2>2
  <1>8. TypeOK'
    <2>1. \A q \in Requests : At(q, "bumping")' => req'[q].id \in 1..new
      BY <1>1, <1>2, <1>6, BumpingShape, IdleShape DEF At
    <2> QED BY <1>4, <1>5, <1>6, <1>7, <2>1 DEF TypeOK
  <1>9. ASSUME NEW p \in Members
        PROVE  (Cardinality(ActiveIds(p)) + Cardinality(Creating(p)))'
                  <= Cardinality(Requests)
    <2>1. Cardinality(ActiveIds(p)) + Cardinality(Creating(p)) <= Cardinality(Requests)
      BY DEF IInv, BoundedDuplicates
    <2>2. /\ ActiveIds(p) \subseteq 1..Len(lock) /\ IsFiniteSet(ActiveIds(p))
          /\ IsFiniteSet(Creating(p))
      BY <1>1, CountedShape
    <2>3. CASE p = req[r].member
      <3>1. ActiveIds(p)' = ActiveIds(p) \cup {new}
        BY <1>2, <1>3, <1>4, <1>5, <2>3 DEF ActiveIds, Active
      <3>2. Creating(p)' = Creating(p) \ {r} /\ r \in Creating(p)
        BY <1>1, <1>6, <2>3, IdleShape DEF Creating, At
      <3>3. new \notin ActiveIds(p)
        BY <1>2, <2>2
      <3>4. Cardinality(ActiveIds(p) \cup {new}) + Cardinality(Creating(p) \ {r})
               = Cardinality(ActiveIds(p)) + Cardinality(Creating(p))
        <4>1. /\ Cardinality(ActiveIds(p) \cup {new}) = Cardinality(ActiveIds(p)) + 1
              /\ Cardinality(ActiveIds(p)) \in Nat
          BY <2>2, <3>3, FS_AddElement, FS_CardinalityType
        <4>2. /\ Cardinality(Creating(p) \ {r}) = Cardinality(Creating(p)) - 1
              /\ Cardinality(Creating(p)) \in Nat
          BY <2>2, <3>2, FS_RemoveElement, FS_CardinalityType
        <4> QED BY <4>1, <4>2
      <3> QED BY <2>1, <3>1, <3>2, <3>4
    <2>4. CASE p # req[r].member
      <3>1. ActiveIds(p)' = ActiveIds(p)
        BY <1>2, <1>3, <1>4, <1>5, <2>4 DEF ActiveIds, Active
      <3>2. Creating(p)' = Creating(p)
        BY <1>6, <2>4, IdleShape DEF Creating, At
      <3> QED BY <2>1, <3>1, <3>2
    <2> QED BY <2>3, <2>4
  <1>10. BoundedDuplicates'
    BY <1>9 DEF BoundedDuplicates
  <1>11. NotifiedMeansSent'
    BY <1>2, <1>3, <1>4, <1>5 DEF IInv, NotifiedMeansSent
  <1>12. MarkingIsSent'
    <2>1. \A g \in mails' : g.stage = "marking" => g \in mails
      BY <1>1
    <2>2. \A g \in mails : g.id \in 1..Len(lock)
      BY <1>1, <1>2 DEF TypeOK
    <2> QED BY <1>4, <2>1, <2>2 DEF IInv, MarkingIsSent
  <1> QED BY <1>8, <1>10, <1>11, <1>12 DEF IInv

LEMMA FailStep ==
    ASSUME IInv, NEW r \in Requests, Fail(r)
    PROVE  IInv'
  <1>1. TypeOK /\ lock' = lock /\ mails' = mails /\ req' = [req EXCEPT ![r] = Idle]
    BY DEF IInv, Fail, Finish
  <1>2. /\ req' \in [Requests -> Calls \cup {Idle}]
        /\ \A q \in Requests : At(q, "bumping")' => req'[q].id \in 1..Len(lock)
        /\ \A p \in Members : Creating(p)' \subseteq Creating(p)
    BY <1>1, IdleShape, CallEnds
  <1> QED BY <1>1, <1>2, SameTable, FewerMails, ForwardStep

LEMMA SendEmailStep ==
    ASSUME IInv, NEW k \in DOMAIN lock, SendEmail(k)
    PROVE  IInv'
  <1> DEFINE sending == [stage |-> "sending", id |-> k]
             marking == [stage |-> "marking", id |-> k]
  <1>1. TypeOK /\ req' = req /\ k \in 1..Len(lock) /\ sending \in mails
    BY TableShape DEF IInv, SendEmail
  <1>2. k \in 1..MaxLocks
    BY <1>1 DEF TypeOK, Mails
  <1>3. /\ req' \in [Requests -> Calls \cup {Idle}]
        /\ \A q \in Requests : At(q, "bumping")' => req'[q].id \in 1..Len(lock)
        /\ \A p \in Members : Creating(p)' \subseteq Creating(p)
    BY <1>1, SameCalls
  <1>4. CASE Set(k, [lock[k] EXCEPT !.sent = TRUE]) /\ mails' = (mails \ {sending}) \cup {marking}
    <2>1. lock[k] \in Locks
      BY <1>1, TableShape
    <2>2. PICK row : row = [lock[k] EXCEPT !.sent = TRUE]
      OBVIOUS
    <2>3. /\ row \in Locks /\ row.member = lock[k].member /\ row.locked = lock[k].locked
          /\ row.expired = lock[k].expired /\ row.sent = TRUE
          /\ row.notified = lock[k].notified
      BY <2>1, <2>2 DEF Locks
    <2>4. lock' = [lock EXCEPT ![k] = row]
      BY <1>4, <2>2 DEF Set
    <2>5. TableAged /\ lock'[k] = row
      BY <1>1, <2>3, <2>4, WrittenRow
    <2>6. marking \in Mails /\ marking.id = k
      BY <1>2 DEF Mails
    <2>7. mails' \subseteq Mails /\ \A g \in mails' : g.id \in 1..Len(lock)
      BY <1>1, <1>4, <2>6, TableShape DEF TypeOK
    <2>8. \A g \in mails' : g.stage = "marking" => g \in mails \/ lock'[g.id].sent
      BY <1>4, <2>3, <2>5
    <2> QED BY <1>3, <2>5, <2>7, <2>8, ForwardStep
  <1>5. CASE mails' = mails \ {sending} /\ lock' = lock
    <2>1. mails' \subseteq mails
      BY <1>5
    <2> QED BY <1>1, <1>3, <1>5, <2>1, SameTable, FewerMails, ForwardStep
  <1> QED BY <1>4, <1>5 DEF SendEmail

\* The row is marked by a goroutine that has sent its email.
LEMMA MarkNotifiedStep ==
    ASSUME IInv, NEW k \in DOMAIN lock, MarkNotified(k)
    PROVE  IInv'
  <1> DEFINE marking == [stage |-> "marking", id |-> k]
  <1>1. TypeOK /\ req' = req /\ k \in 1..Len(lock) /\ marking \in mails
        /\ mails' = mails \ {marking}
    BY TableShape DEF IInv, MarkNotified
  <1>2. lock[k].sent
    BY <1>1 DEF IInv, MarkingIsSent
  <1>3. /\ req' \in [Requests -> Calls \cup {Idle}]
        /\ \A q \in Requests : At(q, "bumping")' => req'[q].id \in 1..Len(lock)
        /\ \A p \in Members : Creating(p)' \subseteq Creating(p)
    BY <1>1, SameCalls
  <1>4. TableAged
    <2>1. CASE Set(k, [lock[k] EXCEPT !.notified = TRUE])
      <3>1. lock[k] \in Locks
        BY <1>1, TableShape
      <3>2. PICK row : row = [lock[k] EXCEPT !.notified = TRUE]
        OBVIOUS
      <3>3. /\ row \in Locks /\ row.member = lock[k].member /\ row.locked = lock[k].locked
            /\ row.expired = lock[k].expired /\ row.sent = lock[k].sent
        BY <3>1, <3>2 DEF Locks
      <3>4. lock' = [lock EXCEPT ![k] = row]
        BY <2>1, <3>2 DEF Set
      <3> QED BY <1>1, <1>2, <3>3, <3>4, WrittenRow
    <2>2. CASE lock' = lock
      BY <1>1, <2>2, SameTable
    <2> QED BY <2>1, <2>2 DEF MarkNotified
  <1>5. mails' \subseteq mails
    BY <1>1
  <1> QED BY <1>1, <1>3, <1>4, <1>5, FewerMails, ForwardStep

LEMMA UnlockMemberStep ==
    ASSUME IInv, NEW m \in Members, UnlockMember(m)
    PROVE  IInv'
  <1>1. TypeOK /\ req' = req /\ mails' = mails
    BY DEF IInv, UnlockMember
  <1>2. Len(lock) \in Nat /\ DOMAIN lock = 1..Len(lock)
        /\ \A k \in 1..Len(lock) : lock[k] \in Locks
    BY <1>1, TableShape
  <1>3. lock' = [k \in 1..Len(lock) |->
                   IF lock[k].member = m THEN [lock[k] EXCEPT !.locked = FALSE] ELSE lock[k]]
    BY <1>2 DEF UnlockMember
  <1>4. ASSUME NEW k \in 1..Len(lock)
        PROVE  lock'[k] \in Locks /\ Aged(k)
    <2>1. lock[k] \in Locks
      BY <1>2
    <2>2. PICK row : row = [lock[k] EXCEPT !.locked = FALSE]
      OBVIOUS
    <2>3. /\ row \in Locks /\ row.member = lock[k].member /\ row.locked = FALSE
          /\ row.expired = lock[k].expired /\ row.sent = lock[k].sent
          /\ row.notified = lock[k].notified
      BY <2>1, <2>2 DEF Locks
    <2>4. lock'[k] = row \/ lock'[k] = lock[k]
      BY <1>3, <2>2
    <2> QED BY <2>1, <2>3, <2>4 DEF Aged
  <1>5. lock' \in Seq(Locks) /\ Len(lock') = Len(lock)
    BY <1>2, <1>3, <1>4
  <1>6. TableAged
    BY <1>4, <1>5 DEF TableAged
  <1> QED BY <1>1, <1>6, SameCalls, FewerMails, ForwardStep

LEMMA ExpireStep ==
    ASSUME IInv, NEW k \in DOMAIN lock, Expire(k)
    PROVE  IInv'
  <1>1. TypeOK /\ req' = req /\ mails' = mails /\ k \in 1..Len(lock)
    BY TableShape DEF IInv, Expire
  <1>2. lock[k] \in Locks
    BY <1>1, TableShape
  <1>3. PICK row : row = [lock[k] EXCEPT !.expired = TRUE]
    OBVIOUS
  <1>4. /\ row \in Locks /\ row.member = lock[k].member /\ row.locked = lock[k].locked
        /\ row.expired = TRUE /\ row.sent = lock[k].sent
        /\ row.notified = lock[k].notified
    BY <1>2, <1>3 DEF Locks
  <1>5. lock' = [lock EXCEPT ![k] = row]
    BY <1>3 DEF Expire, Set
  <1>6. TableAged
    BY <1>1, <1>4, <1>5, WrittenRow
  <1> QED BY <1>1, <1>6, SameCalls, FewerMails, ForwardStep

LEMMA CrashStep ==
    ASSUME IInv, Crash
    PROVE  IInv'
  <1>1. TypeOK /\ lock' = lock /\ mails' = {} /\ req' = [r \in Requests |-> Idle]
    BY DEF IInv, Crash
  <1>2. /\ req' \in [Requests -> Calls \cup {Idle}]
        /\ \A q \in Requests : At(q, "bumping")' => req'[q].id \in 1..Len(lock)
        /\ \A p \in Members : Creating(p)' \subseteq Creating(p)
    BY <1>1, IdleShape DEF At, Creating
  <1>3. mails' \subseteq mails
    BY <1>1
  <1> QED BY <1>1, <1>2, <1>3, SameTable, FewerMails, ForwardStep

LEMMA NextIInv == IInv /\ [Next]_vars => IInv'
  <1> SUFFICES ASSUME IInv, [Next]_vars
               PROVE  IInv'
    OBVIOUS
  <1>1. ASSUME NEW r \in Requests, NEW m \in Members, NEW n \in Counts,
               FindNone(r, m, n) \/ FindActive(r, m, n)
        PROVE  IInv'
    BY <1>1, FindNoneStep, FindActiveStep
  <1>2. ASSUME NEW r \in Requests, UpdateAttempts(r) \/ CreateLock(r) \/ Fail(r)
        PROVE  IInv'
    BY <1>2, UpdateAttemptsStep, CreateLockStep, FailStep
  <1>3. ASSUME NEW k \in DOMAIN lock, SendEmail(k) \/ MarkNotified(k) \/ Expire(k)
        PROVE  IInv'
    BY <1>3, SendEmailStep, MarkNotifiedStep, ExpireStep
  <1>4. ASSUME NEW m \in Members, UnlockMember(m)
        PROVE  IInv'
    BY <1>4, UnlockMemberStep
  <1>5. CASE Crash
    BY <1>5, CrashStep
  <1>6. CASE UNCHANGED vars
    <2>1. TypeOK /\ lock' = lock /\ mails' \subseteq mails /\ req' = req
      BY <1>6 DEF vars, IInv
    <2> QED BY <2>1, SameTable, SameCalls, FewerMails, ForwardStep
  <1> QED BY <1>1, <1>2, <1>3, <1>4, <1>5, <1>6 DEF Next

LEMMA Inductive == Spec => []IInv
  BY InitIInv, NextIInv, PTL DEF Spec

\* Every reachable state is well typed: calls and goroutines in flight always
\* name a row that exists.
THEOREM TypeCorrect == Spec => []TypeOK
  <1>1. IInv => TypeOK
    BY DEF IInv
  <1> QED BY <1>1, Inductive, PTL

\* However many refused logins overlap, crash or fail half-way, a member never
\* has more active rows than requests are handled at once.
THEOREM DuplicatesBounded == Spec => []BoundedDuplicates
  <1>1. IInv => BoundedDuplicates
    BY DEF IInv
  <1> QED BY <1>1, Inductive, PTL

\* notified_at never claims an email that did not go out.
THEOREM NotifiedIsSent == Spec => []NotifiedMeansSent
  <1>1. IInv => NotifiedMeansSent
    BY DEF IInv
  <1> QED BY <1>1, Inductive, PTL
=============================================================================
