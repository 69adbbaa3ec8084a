------------------------- MODULE LoginLockoutProofs -------------------------
(***************************************************************************)
(* Proofs about LoginLockout, for any threshold and any finite number of   *)
(* requests: concurrent attempts overshoot the threshold by at most the    *)
(* other requests in flight, and every refusal is justified.               *)
(***************************************************************************)
EXTENDS LoginLockout, FiniteSetTheorems, TLAPS

LEMMA MostFailuresNat ==
    /\ Threshold \in Nat /\ Threshold >= 1
    /\ Cardinality(Requests) \in Nat /\ Limit \in Nat
    /\ MostFailures \in Nat
    /\ MostFailures = Threshold - 1 + Cardinality(Requests)
  BY LockoutAssumption, FS_CardinalityType DEF MostFailures, Limit

\* A request that saw less than the threshold leaves room for all requests.
LEMMA Room ==
    ASSUME NEW n \in Nat, n < Threshold, NEW P \in SUBSET Requests
    PROVE  n + Cardinality(P) <= MostFailures
  <1>1. Cardinality(P) \in Nat /\ Cardinality(P) <= Cardinality(Requests)
    BY FS_Subset, FS_CardinalityType, LockoutAssumption
  <1> QED BY <1>1, MostFailuresNat

\* The sets that are counted are finite, in every state.
LEMMA MemberFinite ==
    ASSUME NEW m
    PROVE  /\ IsFiniteSet(RowsOfMember(m)) /\ IsFiniteSet(PendingOfMember(m))
           /\ Cardinality(PendingOfMember(m)) \in Nat
           /\ FailuresOfMember(m) \in 0..Limit
  <1>1. RowsOfMember(m) \in SUBSET AuditRows /\ PendingOfMember(m) \in SUBSET Requests
    BY DEF RowsOfMember, PendingOfMember
  <1>2. /\ IsFiniteSet(RowsOfMember(m)) /\ Cardinality(RowsOfMember(m)) \in Nat
        /\ Cardinality(RowsOfMember(m)) <= Cardinality(AuditRows)
    BY <1>1, FS_Subset, FS_CardinalityType, LockoutAssumption
  <1>3. IsFiniteSet(PendingOfMember(m)) /\ Cardinality(PendingOfMember(m)) \in Nat
    BY <1>1, FS_Subset, FS_CardinalityType, LockoutAssumption
  <1> QED BY <1>2, <1>3, MostFailuresNat DEF FailuresOfMember, Limit

LEMMA IPFinite ==
    ASSUME NEW i
    PROVE  /\ IsFiniteSet(RowsOfIP(i)) /\ IsFiniteSet(PendingOfIP(i))
           /\ Cardinality(PendingOfIP(i)) \in Nat
           /\ FailuresOfIP(i) \in 0..Limit
  <1>1. RowsOfIP(i) \in SUBSET AuditRows /\ PendingOfIP(i) \in SUBSET Requests
    BY DEF RowsOfIP, PendingOfIP
  <1>2. /\ IsFiniteSet(RowsOfIP(i)) /\ Cardinality(RowsOfIP(i)) \in Nat
        /\ Cardinality(RowsOfIP(i)) <= Cardinality(AuditRows)
    BY <1>1, FS_Subset, FS_CardinalityType, LockoutAssumption
  <1>3. IsFiniteSet(PendingOfIP(i)) /\ Cardinality(PendingOfIP(i)) \in Nat
    BY <1>1, FS_Subset, FS_CardinalityType, LockoutAssumption
  <1> QED BY <1>2, <1>3, MostFailuresNat DEF FailuresOfIP, Limit

-----------------------------------------------------------------------------
(* Steps under which nothing grows.                                        *)

LEMMA ShrinkStep ==
    ASSUME IInv,
           \A m \in Members : /\ RowsOfMember(m)' \subseteq RowsOfMember(m)
                              /\ PendingOfMember(m)' \subseteq PendingOfMember(m),
           \A i \in IPs : /\ RowsOfIP(i)' \subseteq RowsOfIP(i)
                          /\ PendingOfIP(i)' \subseteq PendingOfIP(i)
    PROVE  Reserved'
  <1>1. ASSUME NEW m \in Members
        PROVE  (FailuresOfMember(m) + Cardinality(PendingOfMember(m)) <= MostFailures)'
    <2>1. Cardinality(RowsOfMember(m)) + Cardinality(PendingOfMember(m)) <= MostFailures
      BY DEF IInv, Reserved, FailuresOfMember
    <2>2. IsFiniteSet(RowsOfMember(m)) /\ IsFiniteSet(PendingOfMember(m))
      BY MemberFinite
    <2>3. /\ RowsOfMember(m)' \in SUBSET RowsOfMember(m)
          /\ PendingOfMember(m)' \in SUBSET PendingOfMember(m)
      OBVIOUS
    <2>4. Cardinality(RowsOfMember(m)') + Cardinality(PendingOfMember(m)') <= MostFailures
      BY <2>1, <2>2, <2>3, FS_Subset, FS_CardinalityType, MostFailuresNat
    <2> QED BY <2>4 DEF FailuresOfMember, MostFailures
  <1>2. ASSUME NEW i \in IPs
        PROVE  (FailuresOfIP(i) + Cardinality(PendingOfIP(i)) <= MostFailures)'
    <2>1. Cardinality(RowsOfIP(i)) + Cardinality(PendingOfIP(i)) <= MostFailures
      BY DEF IInv, Reserved, FailuresOfIP
    <2>2. IsFiniteSet(RowsOfIP(i)) /\ IsFiniteSet(PendingOfIP(i))
      BY IPFinite
    <2>3. /\ RowsOfIP(i)' \in SUBSET RowsOfIP(i)
          /\ PendingOfIP(i)' \in SUBSET PendingOfIP(i)
      OBVIOUS
    <2>4. Cardinality(RowsOfIP(i)') + Cardinality(PendingOfIP(i)') <= MostFailures
      BY <2>1, <2>2, <2>3, FS_Subset, FS_CardinalityType, MostFailuresNat
    <2> QED BY <2>4 DEF FailuresOfIP, MostFailures
  <1> QED BY <1>1, <1>2 DEF Reserved

\* Requests that end, their origin and count forgotten.
LEMMA FinishShape ==
    ASSUME TypeOK, NEW r \in Requests, Finish(r)
    PROVE  /\ req'[r] = Idle
           /\ \A q \in Requests : q # r => req'[q] = req[q]
           /\ req' \in [Requests -> [stage : Stages, from : Attempts \cup {None},
                                     seen : 0..Limit]]
  BY MostFailuresNat DEF TypeOK, Finish, Idle, Stages

LEMMA FinishStep ==
    ASSUME IInv, NEW r \in Requests, Finish(r), UNCHANGED log
    PROVE  IInv'
  <1>1. TypeOK'
    BY FinishShape DEF IInv, TypeOK
  <1>2. \A q \in Requests : InFlight(q)'
    BY FinishShape, MostFailuresNat DEF IInv, InFlight, At, Idle, MostFailures
  <1>3. \A m \in Members : /\ RowsOfMember(m)' \subseteq RowsOfMember(m)
                           /\ PendingOfMember(m)' \subseteq PendingOfMember(m)
    BY FinishShape DEF IInv, RowsOfMember, PendingOfMember, At, Idle
  <1>4. \A i \in IPs : /\ RowsOfIP(i)' \subseteq RowsOfIP(i)
                       /\ PendingOfIP(i)' \subseteq PendingOfIP(i)
    BY FinishShape DEF IInv, RowsOfIP, PendingOfIP, At, Idle
  <1> QED BY <1>1, <1>2, <1>3, <1>4, ShrinkStep DEF IInv

-----------------------------------------------------------------------------
(* The two counting statements and the gate.                               *)

LEMMA CountMemberStep ==
    ASSUME IInv, NEW r \in Requests, NEW a \in Attempts, CountMember(r, a)
    PROVE  IInv'
  <1>1. a \in [member : Members, ip : IPs] /\ a # None
    BY LockoutAssumption
  <1>2. PICK n : n = FailuresOfMember(a.member)
    OBVIOUS
  <1>3. n \in 0..Limit /\ n \in Nat
    BY <1>2, MemberFinite, MostFailuresNat
  <1>4. /\ req' = [req EXCEPT ![r] = [stage |-> "counting", from |-> a, seen |-> n]]
        /\ log' = log /\ req[r].stage = "idle"
    BY <1>2 DEF CountMember, At
  <1>5. /\ req'[r] = [stage |-> "counting", from |-> a, seen |-> n]
        /\ \A q \in Requests : q # r => req'[q] = req[q]
    BY <1>4 DEF IInv, TypeOK
  <1>6. TypeOK'
    BY <1>3, <1>4 DEF IInv, TypeOK, Stages
  <1>7. n <= MostFailures
    <2>1. /\ n + Cardinality(PendingOfMember(a.member)) <= MostFailures
          /\ Cardinality(PendingOfMember(a.member)) \in Nat
      BY <1>1, <1>2, MemberFinite DEF IInv, Reserved
    <2> QED BY <1>3, <2>1, MostFailuresNat
  <1>8. \A q \in Requests : InFlight(q)'
    BY <1>1, <1>5, <1>7 DEF IInv, InFlight, At, MostFailures
  <1>9. ASSUME NEW m \in Members
        PROVE  (FailuresOfMember(m) + Cardinality(PendingOfMember(m)) <= MostFailures)'
    <2>1. RowsOfMember(m)' = RowsOfMember(m)
      BY <1>4 DEF RowsOfMember
    <2>2. CASE m = a.member /\ n < Threshold
      <3>1. PendingOfMember(m)' \in SUBSET Requests
        BY DEF PendingOfMember
      <3>2. n + Cardinality(PendingOfMember(m)') <= MostFailures
        BY <1>3, <2>2, <3>1, Room
      <3> QED BY <1>2, <2>1, <2>2, <3>2 DEF FailuresOfMember, MostFailures
    <2>3. CASE ~(m = a.member /\ n < Threshold)
      <3>1. PendingOfMember(m)' = PendingOfMember(m)
        BY <1>4, <1>5, <2>3 DEF PendingOfMember, At
      <3> QED BY <2>1, <3>1 DEF IInv, Reserved, FailuresOfMember, MostFailures
    <2> QED BY <2>2, <2>3
  <1>10. ASSUME NEW i \in IPs
         PROVE  (FailuresOfIP(i) + Cardinality(PendingOfIP(i)) <= MostFailures)'
    <2>1. RowsOfIP(i)' = RowsOfIP(i) /\ PendingOfIP(i)' = PendingOfIP(i)
      BY <1>4, <1>5 DEF RowsOfIP, PendingOfIP, At
    <2> QED BY <2>1 DEF IInv, Reserved, FailuresOfIP, MostFailures
  <1> QED BY <1>6, <1>8, <1>9, <1>10 DEF IInv, Reserved

\* The gate admits a request only below the threshold, and what a tripped one
\* reports is the larger of two counts, one of which reached it.
LEMMA GateShape ==
    ASSUME NEW n \in Nat, NEW k \in Nat
    PROVE  /\ Admits(n, k) \in BOOLEAN
           /\ Admits(n, k) => n < Threshold /\ k < Threshold
           /\ Reported(n, k) \in {n, k}
           /\ ~Admits(n, k) => Reported(n, k) >= Threshold
  BY MostFailuresNat DEF Admits, Reported

LEMMA CountIPAndGateStep ==
    ASSUME IInv, NEW r \in Requests, CountIPAndGate(r)
    PROVE  IInv'
  <1>1. req[r].stage = "counting" /\ log' = log
    BY DEF CountIPAndGate, At
  <1>2. PICK a : a = req[r].from
    OBVIOUS
  <1>3. PICK n : n = req[r].seen
    OBVIOUS
  <1>4. PICK k : k = FailuresOfIP(a.ip)
    OBVIOUS
  <1>5. a \in Attempts /\ a # None /\ a.ip \in IPs /\ a.member \in Members
    BY <1>1, <1>2, LockoutAssumption DEF IInv, TypeOK, InFlight, At
  <1>6. n \in 0..Limit /\ n \in Nat /\ n <= MostFailures
    BY <1>3, MostFailuresNat DEF IInv, TypeOK, InFlight
  <1>7. k \in 0..Limit /\ k \in Nat
    BY <1>4, IPFinite, MostFailuresNat
  <1>8. k <= MostFailures
    <2>1. k + Cardinality(PendingOfIP(a.ip)) <= MostFailures
      BY <1>4, <1>5 DEF IInv, Reserved
    <2> QED BY <1>7, <2>1, IPFinite, MostFailuresNat
  <1>9. PICK s : s = (IF Admits(n, k) THEN "admitted" ELSE "tripped")
    OBVIOUS
  <1>10. PICK v : v = Reported(n, k)
    OBVIOUS
  <1>11. req' = [req EXCEPT ![r] = [stage |-> s, from |-> a, seen |-> v]]
    BY <1>2, <1>3, <1>4, <1>9, <1>10 DEF CountIPAndGate
  <1>12. /\ v \in 0..Limit /\ v <= MostFailures
         /\ s \in {"admitted", "tripped"}
         /\ s = "admitted" => n < Threshold /\ k < Threshold
         /\ s = "tripped" => v >= Threshold
    BY <1>6, <1>7, <1>8, <1>9, <1>10, GateShape
  <1>13. /\ req'[r] = [stage |-> s, from |-> a, seen |-> v]
         /\ \A q \in Requests : q # r => req'[q] = req[q]
    BY <1>11 DEF IInv, TypeOK
  <1>14. TypeOK'
    BY <1>1, <1>5, <1>11, <1>12 DEF IInv, TypeOK, Stages
  <1>15. \A q \in Requests : InFlight(q)'
    BY <1>5, <1>12, <1>13 DEF IInv, InFlight, At, MostFailures
  <1>16. ASSUME NEW m \in Members
         PROVE  (FailuresOfMember(m) + Cardinality(PendingOfMember(m)) <= MostFailures)'
    <2>1. RowsOfMember(m)' \in SUBSET RowsOfMember(m)
      BY <1>1 DEF RowsOfMember
    <2>2. PendingOfMember(m)' \in SUBSET PendingOfMember(m)
      BY <1>1, <1>2, <1>3, <1>12, <1>13 DEF PendingOfMember, At
    <2>3. Cardinality(RowsOfMember(m)) + Cardinality(PendingOfMember(m)) <= MostFailures
      BY DEF IInv, Reserved, FailuresOfMember
    <2>4. IsFiniteSet(RowsOfMember(m)) /\ IsFiniteSet(PendingOfMember(m))
      BY MemberFinite
    <2>5. Cardinality(RowsOfMember(m)') + Cardinality(PendingOfMember(m)') <= MostFailures
      BY <2>1, <2>2, <2>3, <2>4, FS_Subset, FS_CardinalityType, MostFailuresNat
    <2> QED BY <2>5 DEF FailuresOfMember, MostFailures
  <1>17. ASSUME NEW i \in IPs
         PROVE  (FailuresOfIP(i) + Cardinality(PendingOfIP(i)) <= MostFailures)'
    <2>1. RowsOfIP(i)' = RowsOfIP(i)
      BY <1>1 DEF RowsOfIP
    <2>2. CASE i = a.ip /\ s = "admitted"
      <3>1. PendingOfIP(i)' \in SUBSET Requests
        BY DEF PendingOfIP
      <3>2. k + Cardinality(PendingOfIP(i)') <= MostFailures
        BY <1>7, <1>12, <2>2, <3>1, Room
      <3> QED BY <1>4, <2>1, <2>2, <3>2 DEF FailuresOfIP, MostFailures
    <2>3. CASE ~(i = a.ip /\ s = "admitted")
      <3>1. PendingOfIP(i)' = PendingOfIP(i)
        BY <1>1, <1>13, <2>3 DEF PendingOfIP, At
      <3> QED BY <2>1, <3>1 DEF IInv, Reserved, FailuresOfIP, MostFailures
    <2> QED BY <2>2, <2>3
  <1> QED BY <1>14, <1>15, <1>16, <1>17 DEF IInv, Reserved

-----------------------------------------------------------------------------
(* Logging a failure: the request's reservation becomes a row.             *)

LEMMA RecordLoginAttemptStep ==
    ASSUME IInv, NEW r \in Requests, RecordLoginAttempt(r)
    PROVE  IInv'
  <1>1. req[r].stage = "admitted" /\ Finish(r)
    BY DEF RecordLoginAttempt, At
  <1>2. PICK a : a = req[r].from
    OBVIOUS
  <1>3. a \in Attempts /\ a # None /\ a.ip \in IPs /\ a.member \in Members
    BY <1>1, <1>2, LockoutAssumption DEF IInv, TypeOK, InFlight, At
  <1>4. PICK s \in AuditRows : log[s] = None /\ log' = [log EXCEPT ![s] = a]
    BY <1>2 DEF RecordLoginAttempt, LogFailure
  <1>5. /\ log'[s] = a
        /\ \A t \in AuditRows : t # s => log'[t] = log[t]
        /\ log' \in [AuditRows -> Attempts \cup {None}]
    BY <1>3, <1>4 DEF IInv, TypeOK
  <1>6. /\ req'[r] = Idle
        /\ \A q \in Requests : q # r => req'[q] = req[q]
        /\ TypeOK'
    BY <1>1, <1>5, FinishShape DEF IInv, TypeOK
  <1>7. \A q \in Requests : InFlight(q)'
    BY <1>6, MostFailuresNat DEF IInv, InFlight, At, Idle, MostFailures
  <1>8. ASSUME NEW m \in Members
        PROVE  (FailuresOfMember(m) + Cardinality(PendingOfMember(m)) <= MostFailures)'
    <2>1. CASE m = a.member
      <3>1. /\ RowsOfMember(m)' = RowsOfMember(m) \cup {s}
            /\ s \notin RowsOfMember(m)
        BY <1>3, <1>4, <1>5, <2>1 DEF RowsOfMember
      <3>2. /\ PendingOfMember(m)' = PendingOfMember(m) \ {r}
            /\ r \in PendingOfMember(m)
        BY <1>1, <1>2, <1>3, <1>6, <2>1 DEF PendingOfMember, At, Idle
      <3>3. IsFiniteSet(RowsOfMember(m)) /\ IsFiniteSet(PendingOfMember(m))
        BY MemberFinite
      <3>4. Cardinality(RowsOfMember(m)') + Cardinality(PendingOfMember(m)')
               = Cardinality(RowsOfMember(m)) + Cardinality(PendingOfMember(m))
        <4>1. /\ Cardinality(RowsOfMember(m)') = Cardinality(RowsOfMember(m)) + 1
              /\ Cardinality(RowsOfMember(m)) \in Nat
          BY <3>1, <3>3, FS_AddElement, FS_CardinalityType
        <4>2. /\ Cardinality(PendingOfMember(m)') = Cardinality(PendingOfMember(m)) - 1
              /\ Cardinality(PendingOfMember(m)) \in Nat
          BY <3>2, <3>3, FS_RemoveElement, FS_CardinalityType
        <4> QED BY <4>1, <4>2
      <3> QED BY <3>4 DEF IInv, Reserved, FailuresOfMember, MostFailures
    <2>2. CASE m # a.member
      <3>1. RowsOfMember(m)' = RowsOfMember(m)
        BY <1>3, <1>4, <1>5, <2>2 DEF RowsOfMember
      <3>2. PendingOfMember(m)' = PendingOfMember(m)
        BY <1>1, <1>2, <1>6, <2>2 DEF PendingOfMember, At, Idle
      <3> QED BY <3>1, <3>2 DEF IInv, Reserved, FailuresOfMember, MostFailures
    <2> QED BY <2>1, <2>2
  <1>9. ASSUME NEW i \in IPs
        PROVE  (FailuresOfIP(i) + Cardinality(PendingOfIP(i)) <= MostFailures)'
    <2>1. CASE i = a.ip
      <3>1. /\ RowsOfIP(i)' = RowsOfIP(i) \cup {s}
            /\ s \notin RowsOfIP(i)
        BY <1>3, <1>4, <1>5, <2>1 DEF RowsOfIP
      <3>2. /\ PendingOfIP(i)' = PendingOfIP(i) \ {r}
            /\ r \in PendingOfIP(i)
        BY <1>1, <1>2, <1>3, <1>6, <2>1 DEF PendingOfIP, At, Idle
      <3>3. IsFiniteSet(RowsOfIP(i)) /\ IsFiniteSet(PendingOfIP(i))
        BY IPFinite
      <3>4. Cardinality(RowsOfIP(i)') + Cardinality(PendingOfIP(i)')
               = Cardinality(RowsOfIP(i)) + Cardinality(PendingOfIP(i))
        <4>1. /\ Cardinality(RowsOfIP(i)') = Cardinality(RowsOfIP(i)) + 1
              /\ Cardinality(RowsOfIP(i)) \in Nat
          BY <3>1, <3>3, FS_AddElement, FS_CardinalityType
        <4>2. /\ Cardinality(PendingOfIP(i)') = Cardinality(PendingOfIP(i)) - 1
              /\ Cardinality(PendingOfIP(i)) \in Nat
          BY <3>2, <3>3, FS_RemoveElement, FS_CardinalityType
        <4> QED BY <4>1, <4>2
      <3> QED BY <3>4 DEF IInv, Reserved, FailuresOfIP, MostFailures
    <2>2. CASE i # a.ip
      <3>1. RowsOfIP(i)' = RowsOfIP(i)
        BY <1>3, <1>4, <1>5, <2>2 DEF RowsOfIP
      <3>2. PendingOfIP(i)' = PendingOfIP(i)
        BY <1>1, <1>2, <1>6, <2>2 DEF PendingOfIP, At, Idle
      <3> QED BY <3>1, <3>2 DEF IInv, Reserved, FailuresOfIP, MostFailures
    <2> QED BY <2>1, <2>2
  <1> QED BY <1>6, <1>7, <1>8, <1>9 DEF IInv, Reserved

-----------------------------------------------------------------------------
(* Rows that leave the window, and the crash.                              *)

\* Rows only disappear and requests stay as they are.
LEMMA RowsLeaveStep ==
    ASSUME IInv, UNCHANGED req,
           log' \in [AuditRows -> Attempts \cup {None}],
           \A s \in AuditRows : log'[s] \in {None, log[s]}
    PROVE  IInv'
  <1>1. TypeOK'
    BY DEF IInv, TypeOK
  <1>2. \A q \in Requests : InFlight(q)'
    BY DEF IInv, InFlight, At, MostFailures
  <1>3. \A m \in Members : /\ RowsOfMember(m)' \subseteq RowsOfMember(m)
                           /\ PendingOfMember(m)' \subseteq PendingOfMember(m)
    BY DEF RowsOfMember, PendingOfMember, At
  <1>4. \A i \in IPs : /\ RowsOfIP(i)' \subseteq RowsOfIP(i)
                       /\ PendingOfIP(i)' \subseteq PendingOfIP(i)
    BY DEF RowsOfIP, PendingOfIP, At
  <1> QED BY <1>1, <1>2, <1>3, <1>4, ShrinkStep DEF IInv

LEMMA CrashStep ==
    ASSUME IInv, Crash
    PROVE  IInv'
  <1>1. log' = log /\ req' = [q \in Requests |-> Idle]
    BY DEF Crash
  <1>2. TypeOK'
    BY <1>1, MostFailuresNat DEF IInv, TypeOK, Idle, Stages
  <1>3. \A q \in Requests : InFlight(q)'
    BY <1>1, MostFailuresNat DEF InFlight, At, Idle, MostFailures
  <1>4. \A m \in Members : /\ RowsOfMember(m)' \subseteq RowsOfMember(m)
                           /\ PendingOfMember(m)' \subseteq PendingOfMember(m)
    BY <1>1 DEF RowsOfMember, PendingOfMember, At, Idle
  <1>5. \A i \in IPs : /\ RowsOfIP(i)' \subseteq RowsOfIP(i)
                       /\ PendingOfIP(i)' \subseteq PendingOfIP(i)
    BY <1>1 DEF RowsOfIP, PendingOfIP, At, Idle
  <1> QED BY <1>2, <1>3, <1>4, <1>5, ShrinkStep DEF IInv

-----------------------------------------------------------------------------
(* The invariant, and what follows from it.                                *)

LEMMA Initially == Init => IInv
  <1> SUFFICES ASSUME Init PROVE IInv
    OBVIOUS
  <1>1. TypeOK
    BY MostFailuresNat DEF Init, TypeOK, Idle, Stages
  <1>2. \A q \in Requests : InFlight(q)
    BY MostFailuresNat DEF Init, InFlight, At, Idle
  <1>3. ASSUME NEW m \in Members
        PROVE  FailuresOfMember(m) + Cardinality(PendingOfMember(m)) <= MostFailures
    <2>1. RowsOfMember(m) = {} /\ PendingOfMember(m) = {}
      BY DEF Init, RowsOfMember, PendingOfMember, At, Idle
    <2> QED BY <2>1, FS_EmptySet, MostFailuresNat DEF FailuresOfMember
  <1>4. ASSUME NEW i \in IPs
        PROVE  FailuresOfIP(i) + Cardinality(PendingOfIP(i)) <= MostFailures
    <2>1. RowsOfIP(i) = {} /\ PendingOfIP(i) = {}
      BY DEF Init, RowsOfIP, PendingOfIP, At, Idle
    <2> QED BY <2>1, FS_EmptySet, MostFailuresNat DEF FailuresOfIP
  <1> QED BY <1>1, <1>2, <1>3, <1>4 DEF IInv, Reserved

LEMMA Inductive == IInv /\ [Next]_vars => IInv'
  <1> SUFFICES ASSUME IInv, [Next]_vars PROVE IInv'
    OBVIOUS
  <1>1. ASSUME NEW r \in Requests, NEW a \in Attempts, CountMember(r, a)
        PROVE  IInv'
    BY <1>1, CountMemberStep
  <1>2. ASSUME NEW r \in Requests, CountIPAndGate(r) PROVE IInv'
    BY <1>2, CountIPAndGateStep
  <1>3. ASSUME NEW r \in Requests, RecordLoginAttempt(r) PROVE IInv'
    BY <1>3, RecordLoginAttemptStep
  <1>4. ASSUME NEW r \in Requests, LeaveUnrecorded(r) \/ Refuse(r) PROVE IInv'
    BY <1>4, FinishStep DEF LeaveUnrecorded, Refuse
  <1>5. ASSUME NEW s \in AuditRows, LeaveWindow(s) PROVE IInv'
    BY <1>5, RowsLeaveStep DEF LeaveWindow, IInv, TypeOK
  <1>6. ASSUME NEW m \in Members, NEW i \in IPs, DeleteRecentFailedLogins(m, i)
        PROVE  IInv'
    BY <1>6, RowsLeaveStep DEF DeleteRecentFailedLogins, IInv, TypeOK
  <1>7. ASSUME Crash PROVE IInv'
    BY <1>7, CrashStep
  <1>8. CASE UNCHANGED vars
    BY <1>8, RowsLeaveStep DEF vars, IInv, TypeOK
  <1> QED BY <1>1, <1>2, <1>3, <1>4, <1>5, <1>6, <1>7, <1>8 DEF Next

LEMMA Invariance == Spec => []IInv
  BY Initially, Inductive, PTL DEF Spec

LEMMA ReservedBounds == IInv => BoundedOvershoot
  <1> SUFFICES ASSUME IInv PROVE BoundedOvershoot
    OBVIOUS
  <1>1. ASSUME NEW m \in Members PROVE FailuresOfMember(m) <= MostFailures
    <2>1. FailuresOfMember(m) + Cardinality(PendingOfMember(m)) <= MostFailures
      BY DEF IInv, Reserved
    <2> QED BY <2>1, MemberFinite, MostFailuresNat
  <1>2. ASSUME NEW i \in IPs PROVE FailuresOfIP(i) <= MostFailures
    <2>1. FailuresOfIP(i) + Cardinality(PendingOfIP(i)) <= MostFailures
      BY DEF IInv, Reserved
    <2> QED BY <2>1, IPFinite, MostFailuresNat
  <1> QED BY <1>1, <1>2 DEF BoundedOvershoot

\* The state stays well typed; a request in flight knows where it came from.
THEOREM TypeCorrect == Spec => []TypeOK
  <1>1. IInv => TypeOK
    BY DEF IInv
  <1> QED BY <1>1, Invariance, PTL

\* "Bounded" (LoginService): for any number of concurrent requests no member id
\* and no IP gets more failures into the window than the threshold allows plus
\* one for every other request.
THEOREM OvershootBounded == Spec => []BoundedOvershoot
  BY Invariance, ReservedBounds, PTL

\* Every refusal of enforceLoginLockout reports a count between the threshold
\* and that bound.
THEOREM RefusalsJustified == Spec => []TripIsJustified
  <1>1. IInv => TripIsJustified
    BY MostFailuresNat DEF IInv, TypeOK, InFlight, TripIsJustified
  <1> QED BY <1>1, Invariance, PTL
=============================================================================
