------------------------- MODULE MemberLedgerProofs -------------------------
(***************************************************************************)
(* Proofs about the ledger reports, for any schedule of installments, any  *)
(* windows and any postings: statements that are listed can be opened, and *)
(* the reports that sum the same postings in different ways agree.         *)
(***************************************************************************)
EXTENDS MemberLedger, FiniteSetTheorems, WellFoundedInduction, TLAPS

-----------------------------------------------------------------------------
(* Induction, on sets: the theorems of the library are about operators.    *)

LEMMA CountingUp ==
    ASSUME NEW T, 0 \in T, \A n \in Nat : n \in T => n + 1 \in T
    PROVE  \A n \in Nat : n \in T
  <1> DEFINE Missing == {n \in Nat : n \notin T}
             Less == OpToRel(<, Nat)
  <1>1. IsWellFoundedOn(Less, Nat)
    BY NatLessThanWellFounded
  <1>2. \A x, y \in Nat : y < x => <<y, x>> \in Less
    BY DEF OpToRel
  <1>3. Missing \subseteq Nat
    OBVIOUS
  <1>4. ASSUME Missing # {}
        PROVE  FALSE
    <2> HIDE DEF Missing, Less
    <2>1. PICK x \in Missing : \A y \in Missing : <<y, x>> \notin Less
      BY <1>1, <1>3, <1>4, WFMin
    <2>2. x \in Nat /\ x \notin T /\ x # 0
      BY <2>1 DEF Missing
    <2>3. x - 1 \in Nat /\ x - 1 < x /\ (x - 1) + 1 = x
      BY <2>2
    <2>4. x - 1 \notin Missing
      BY <1>2, <2>1, <2>2, <2>3
    <2>5. x - 1 \in T
      BY <2>3, <2>4 DEF Missing
    <2> QED BY <2>2, <2>3, <2>5
  <1> QED BY <1>4

\* What holds of a set whenever it holds of the set less any one element holds
\* of every finite set.
LEMMA TakingAway ==
    ASSUME NEW S, IsFiniteSet(S), NEW C,
           \A T \in SUBSET S : (\A x \in T : T \ {x} \in C) => T \in C
    PROVE  S \in C
  <1> DEFINE Sizes == {n \in Nat : \A T \in SUBSET S : Cardinality(T) = n => T \in C}
  <1>1. \A T \in SUBSET S : IsFiniteSet(T) /\ Cardinality(T) \in Nat
    BY FS_Subset, FS_CardinalityType
  <1>2. 0 \in Sizes
    <2>1. \A T \in SUBSET S : Cardinality(T) = 0 => T = {}
      BY <1>1, FS_EmptySet
    <2> QED BY <2>1
  <1>3. ASSUME NEW n \in Nat, n \in Sizes
        PROVE  n + 1 \in Sizes
    <2>1. SUFFICES ASSUME NEW T \in SUBSET S, Cardinality(T) = n + 1
                   PROVE  T \in C
      OBVIOUS
    <2>2. ASSUME NEW x \in T
          PROVE  T \ {x} \in C
      <3>1. Cardinality(T \ {x}) = n
        BY <1>1, <2>1, FS_RemoveElement
      <3> QED BY <1>3, <3>1
    <2> QED BY <2>2
  <1> HIDE DEF Sizes
  <1>4. \A n \in Nat : n \in Sizes
    BY <1>2, <1>3, CountingUp
  <1> QED BY <1>1, <1>4 DEF Sizes

-----------------------------------------------------------------------------
(* Sums.  SumFunctionOnSet is a recursion that picks the elements in some  *)
(* order; it exists, and the order does not matter.                        *)

SumsTo(g, f, S) ==
    g = [s \in SUBSET S |->
           IF s = {} THEN 0
           ELSE LET x == CHOOSE x \in s : TRUE IN f[x] + g[s \ {x}]]

First(s) == CHOOSE x \in s : TRUE

LEMMA SumDefined ==
    ASSUME NEW f, NEW S, NEW g, SumsTo(g, f, S)
    PROVE  \E h : SumsTo(h, f, S) /\ SumFunctionOnSet(f, S) = h[S]
  BY Zenon DEF SumFunctionOnSet, FoldFunctionOnSet, MapThenFoldSet, SumsTo

\* The recursion, set by set.
LEMMA SumsToSteps ==
    ASSUME NEW f, NEW S, NEW g, SumsTo(g, f, S)
    PROVE  /\ g[{}] = 0
           /\ \A s \in SUBSET S :
                 s # {} => First(s) \in s /\ g[s] = f[First(s)] + g[s \ {First(s)}]
  BY DEF SumsTo, First

\* It is defined level by level of the sizes of sets.
LEMMA SumExists ==
    ASSUME NEW f, NEW S, IsFiniteSet(S)
    PROVE  \E g : SumsTo(g, f, S)
  <1> DEFINE Level(n) == {s \in SUBSET S : Cardinality(s) <= n}
             After(g, s) == IF s = {} THEN 0 ELSE f[First(s)] + g[s \ {First(s)}]
             Good(g, n) == g = [s \in Level(n) |-> After(g, s)]
             Levels == {n \in Nat : \E g : Good(g, n)}
  <1>1. \A s \in SUBSET S : IsFiniteSet(s) /\ Cardinality(s) \in Nat
    BY FS_Subset, FS_CardinalityType
  <1>2. 0 \in Levels
    <2>1. \A s \in Level(0) : s = {}
      BY <1>1, FS_EmptySet
    <2> DEFINE g == [s \in Level(0) |-> 0]
    <2>2. g = [s \in Level(0) |-> After(g, s)]
      BY <2>1
    <2>3. \E h : Good(h, 0)
      BY <2>2
    <2> QED BY <2>3
  <1>3. ASSUME NEW n \in Nat, n \in Levels
        PROVE  n + 1 \in Levels
    <2>1. PICK g : Good(g, n)
      BY <1>3
    <2> DEFINE h == [s \in Level(n + 1) |-> After(g, s)]
    <2>2. ASSUME NEW s \in Level(n + 1)
          PROVE  h[s] = After(h, s)
      <3>1. CASE s = {}
        BY <3>1
      <3>2. CASE s # {}
        <4>1. First(s) \in s
          BY <3>2 DEF First
        <4> DEFINE t == s \ {First(s)}
        <4>2. Cardinality(t) = Cardinality(s) - 1 /\ Cardinality(s) \in Nat
          BY <1>1, <4>1, FS_RemoveElement
        <4>3. t \in Level(n) /\ t \in Level(n + 1)
          BY <4>2
        <4>4. g[t] = After(g, t)
          BY <2>1, <4>3
        <4>5. h[t] = After(g, t)
          BY <4>3
        <4>6. h[s] = f[First(s)] + g[t]
          BY <3>2
        <4> QED BY <3>2, <4>4, <4>5, <4>6
      <3> QED BY <3>1, <3>2
    <2>3. h = [s \in Level(n + 1) |-> After(h, s)]
      BY <2>2
    <2>4. \E k : Good(k, n + 1)
      BY <2>3
    <2>5. n + 1 \in Nat
      OBVIOUS
    <2> HIDE DEF Good
    <2> QED BY <2>4, <2>5
  <1>4. \A n \in Nat : n \in Levels
    <2> HIDE DEF Levels
    <2> QED BY <1>2, <1>3, CountingUp
  <1>5. Cardinality(S) \in Nat
    BY FS_CardinalityType
  <1>6. PICK g : Good(g, Cardinality(S))
    BY <1>4, <1>5
  <1>7. Level(Cardinality(S)) = SUBSET S
    BY FS_Subset
  <1> QED BY <1>6, <1>7 DEF SumsTo, First

LEMMA SumsAgree ==
    ASSUME NEW f, NEW S, IsFiniteSet(S), NEW T \in SUBSET S, NEW g, NEW h,
           SumsTo(g, f, S), SumsTo(h, f, T)
    PROVE  g[T] = h[T]
  <1> DEFINE C == {t \in SUBSET T : g[t] = h[t]}
  <1>1. ASSUME NEW t \in SUBSET T, \A x \in t : t \ {x} \in C
        PROVE  t \in C
    <2>1. CASE t = {}
      BY <2>1, SumsToSteps
    <2>2. CASE t # {}
      <3>1. t \in SUBSET S /\ t \in SUBSET T
        OBVIOUS
      <3>2. First(t) \in t /\ g[t] = f[First(t)] + g[t \ {First(t)}]
        BY <2>2, <3>1, SumsToSteps
      <3>3. \A s \in SUBSET T :
               s # {} => First(s) \in s /\ h[s] = f[First(s)] + h[s \ {First(s)}]
        BY SumsToSteps
      <3> QED BY <1>1, <2>2, <3>2, <3>3
    <2> QED BY <2>1, <2>2
  <1>2. IsFiniteSet(T)
    BY FS_Subset
  <1> HIDE DEF C
  <1>3. T \in C
    BY <1>1, <1>2, TakingAway
  <1> QED BY <1>3 DEF C

LEMMA SumSteps ==
    ASSUME NEW f, NEW S, IsFiniteSet(S)
    PROVE  /\ S = {} => SumFunctionOnSet(f, S) = 0
           /\ S # {} => /\ First(S) \in S
                        /\ SumFunctionOnSet(f, S)
                             = f[First(S)] + SumFunctionOnSet(f, S \ {First(S)})
  <1>1. PICK g : SumsTo(g, f, S) /\ SumFunctionOnSet(f, S) = g[S]
    BY SumExists, SumDefined
  <1>2. CASE S = {}
    BY <1>1, <1>2, SumsToSteps
  <1>3. CASE S # {}
    <2> DEFINE T == S \ {First(S)}
    <2> S \in SUBSET S
      OBVIOUS
    <2>7. \A s \in SUBSET S :
             s # {} => First(s) \in s /\ g[s] = f[First(s)] + g[s \ {First(s)}]
      BY <1>1, SumsToSteps
    <2>1. First(S) \in S /\ g[S] = f[First(S)] + g[T]
      BY <1>3, <2>7
    <2>2. T \in SUBSET S /\ IsFiniteSet(T)
      BY FS_Subset
    <2> HIDE DEF T
    <2>3. PICK h : SumsTo(h, f, T) /\ SumFunctionOnSet(f, T) = h[T]
      BY <2>2, SumExists, SumDefined
    <2>4. g[T] = h[T]
      BY <1>1, <2>2, <2>3, SumsAgree
    <2> QED BY <1>1, <1>3, <2>1, <2>3, <2>4 DEF T
  <1> QED BY <1>2, <1>3

LEMMA SumTyped ==
    ASSUME NEW f, NEW S, IsFiniteSet(S), \A x \in S : f[x] \in Int
    PROVE  SumFunctionOnSet(f, S) \in Int
  <1> DEFINE C == {t \in SUBSET S : SumFunctionOnSet(f, t) \in Int}
  <1>1. ASSUME NEW t \in SUBSET S, \A x \in t : t \ {x} \in C
        PROVE  t \in C
    <2>1. IsFiniteSet(t)
      BY FS_Subset
    <2>2. CASE t = {}
      <3>1. SumFunctionOnSet(f, t) = 0
        BY <2>1, <2>2, SumSteps
      <3> QED BY <3>1
    <2>3. CASE t # {}
      <3>1. /\ First(t) \in t
            /\ SumFunctionOnSet(f, t) = f[First(t)] + SumFunctionOnSet(f, t \ {First(t)})
        BY <2>1, <2>3, SumSteps
      <3>2. /\ SumFunctionOnSet(f, t \ {First(t)}) \in Int
            /\ f[First(t)] \in Int
        BY <1>1, <3>1
      <3> QED BY <3>1, <3>2
    <2> QED BY <2>2, <2>3
  <1> HIDE DEF C
  <1>2. S \in C
    BY <1>1, TakingAway
  <1> QED BY <1>2 DEF C

\* Equal terms have equal sums.
LEMMA SumSame ==
    ASSUME NEW f, NEW g, NEW S, IsFiniteSet(S), \A x \in S : f[x] = g[x]
    PROVE  SumFunctionOnSet(f, S) = SumFunctionOnSet(g, S)
  <1> DEFINE C == {t \in SUBSET S : SumFunctionOnSet(f, t) = SumFunctionOnSet(g, t)}
  <1>1. ASSUME NEW t \in SUBSET S, \A x \in t : t \ {x} \in C
        PROVE  t \in C
    <2>1. IsFiniteSet(t)
      BY FS_Subset
    <2>2. CASE t = {}
      BY <2>1, <2>2, SumSteps
    <2>3. CASE t # {}
      <3>1. /\ First(t) \in t
            /\ SumFunctionOnSet(f, t) = f[First(t)] + SumFunctionOnSet(f, t \ {First(t)})
            /\ SumFunctionOnSet(g, t) = g[First(t)] + SumFunctionOnSet(g, t \ {First(t)})
        BY <2>1, <2>3, SumSteps
      <3> QED BY <1>1, <3>1
    <2> QED BY <2>2, <2>3
  <1> HIDE DEF C
  <1>2. S \in C
    BY <1>1, TakingAway
  <1> QED BY <1>2 DEF C

\* Any term may be split off, not only the first.
LEMMA SumSplit ==
    ASSUME NEW f, NEW S, IsFiniteSet(S), \A x \in S : f[x] \in Int
    PROVE  \A x \in S : SumFunctionOnSet(f, S) = f[x] + SumFunctionOnSet(f, S \ {x})
  <1> DEFINE Splits(t) ==
               \A x \in t : SumFunctionOnSet(f, t) = f[x] + SumFunctionOnSet(f, t \ {x})
             C == {t \in SUBSET S : Splits(t)}
  <1>1. ASSUME NEW t \in SUBSET S, \A x \in t : t \ {x} \in C
        PROVE  t \in C
    <2>1. SUFFICES ASSUME NEW x \in t
                   PROVE  SumFunctionOnSet(f, t) = f[x] + SumFunctionOnSet(f, t \ {x})
      OBVIOUS
    <2> DEFINE c == First(t)
               r == SumFunctionOnSet(f, (t \ {x}) \ {c})
    <2>2. IsFiniteSet(t) /\ IsFiniteSet((t \ {x}) \ {c})
      BY FS_Subset
    <2>3. c \in t /\ SumFunctionOnSet(f, t) = f[c] + SumFunctionOnSet(f, t \ {c})
      BY <2>2, SumSteps
    <2>4. CASE x = c
      BY <2>3, <2>4
    <2>5. CASE x # c
      <3>1. (t \ {c}) \ {x} = (t \ {x}) \ {c}
        OBVIOUS
      <3>2. SumFunctionOnSet(f, t \ {c}) = f[x] + r
        BY <1>1, <2>3, <2>5, <3>1
      <3>3. SumFunctionOnSet(f, t \ {x}) = f[c] + r
        BY <1>1, <2>3, <2>5
      <3>4. r \in Int
        BY <2>2, SumTyped
      <3>5. f[x] \in Int /\ f[c] \in Int
        BY <2>3
      <3> HIDE DEF r, c
      <3> QED BY <2>3, <3>2, <3>3, <3>4, <3>5
    <2> QED BY <2>4, <2>5
  <1> HIDE DEF C
  <1>2. S \in C
    BY <1>1, TakingAway
  <1> QED BY <1>2 DEF C

LEMMA SumAdded ==
    ASSUME NEW f, NEW S, IsFiniteSet(S), \A y \in S : f[y] \in Int,
           NEW x, x \notin S, f[x] \in Int
    PROVE  SumFunctionOnSet(f, S \cup {x}) = f[x] + SumFunctionOnSet(f, S)
  <1>1. IsFiniteSet(S \cup {x})
    BY FS_AddElement
  <1>2. (S \cup {x}) \ {x} = S
    OBVIOUS
  <1> QED BY <1>1, <1>2, SumSplit

LEMMA SumOfUnion ==
    ASSUME NEW f, NEW A, NEW B, IsFiniteSet(A), IsFiniteSet(B), A \cap B = {},
           \A x \in A \cup B : f[x] \in Int
    PROVE  SumFunctionOnSet(f, A \cup B) = SumFunctionOnSet(f, A) + SumFunctionOnSet(f, B)
  <1> DEFINE C == {t \in SUBSET B :
                     SumFunctionOnSet(f, A \cup t)
                       = SumFunctionOnSet(f, A) + SumFunctionOnSet(f, t)}
  <1>1. SumFunctionOnSet(f, A) \in Int
    BY SumTyped
  <1>2. ASSUME NEW t \in SUBSET B, \A x \in t : t \ {x} \in C
        PROVE  t \in C
    <2>1. IsFiniteSet(t)
      BY FS_Subset
    <2>2. CASE t = {}
      <3>1. SumFunctionOnSet(f, t) = 0
        BY <2>1, <2>2, SumSteps
      <3>2. A \cup t = A
        BY <2>2
      <3>3. SumFunctionOnSet(f, A \cup t) = SumFunctionOnSet(f, A)
        BY <3>2
      <3> QED BY <1>1, <3>1, <3>3
    <2>3. CASE t # {}
      <3>1. PICK x \in t : TRUE
        BY <2>3
      <3> DEFINE rest == t \ {x}
      <3>2. rest \in SUBSET B /\ IsFiniteSet(rest) /\ IsFiniteSet(A \cup rest)
        BY <2>1, FS_Subset, FS_Union
      <3>3. x \notin rest /\ x \notin A /\ f[x] \in Int /\ rest \cup {x} = t
        BY <3>1
      <3>4. (A \cup rest) \cup {x} = A \cup t
        BY <3>3
      <3>5. SumFunctionOnSet(f, A \cup rest)
              = SumFunctionOnSet(f, A) + SumFunctionOnSet(f, rest)
        BY <1>2, <3>1
      <3> HIDE DEF rest
      <3>6. SumFunctionOnSet(f, A \cup t) = f[x] + SumFunctionOnSet(f, A \cup rest)
        BY <3>2, <3>3, <3>4, SumAdded
      <3>7. SumFunctionOnSet(f, t) = f[x] + SumFunctionOnSet(f, rest)
        BY <3>2, <3>3, SumAdded
      <3>8. SumFunctionOnSet(f, rest) \in Int
        BY <3>2, SumTyped
      <3> QED BY <1>1, <3>3, <3>5, <3>6, <3>7, <3>8
    <2> QED BY <2>2, <2>3
  <1> HIDE DEF C
  <1>3. B \in C
    BY <1>2, TakingAway
  <1> QED BY <1>3 DEF C

LEMMA SumOfNats ==
    ASSUME NEW f, NEW S, IsFiniteSet(S), \A x \in S : f[x] \in Nat
    PROVE  SumFunctionOnSet(f, S) \in Nat
  <1> DEFINE C == {t \in SUBSET S : SumFunctionOnSet(f, t) \in Nat}
  <1>1. ASSUME NEW t \in SUBSET S, \A x \in t : t \ {x} \in C
        PROVE  t \in C
    <2>1. IsFiniteSet(t)
      BY FS_Subset
    <2>2. CASE t = {}
      <3>1. SumFunctionOnSet(f, t) = 0
        BY <2>1, <2>2, SumSteps
      <3> QED BY <3>1
    <2>3. CASE t # {}
      <3>1. /\ First(t) \in t
            /\ SumFunctionOnSet(f, t) = f[First(t)] + SumFunctionOnSet(f, t \ {First(t)})
        BY <2>1, <2>3, SumSteps
      <3>2. /\ SumFunctionOnSet(f, t \ {First(t)}) \in Nat
            /\ f[First(t)] \in Nat
        BY <1>1, <3>1
      <3> QED BY <3>1, <3>2
    <2> QED BY <2>2, <2>3
  <1> HIDE DEF C
  <1>2. S \in C
    BY <1>1, TakingAway
  <1> QED BY <1>2 DEF C

\* A sum of natural numbers grows with the set, by at least any element added.
LEMMA SumGrows ==
    ASSUME NEW f, NEW S, IsFiniteSet(S), \A x \in S : f[x] \in Nat, NEW T \in SUBSET S
    PROVE  /\ SumFunctionOnSet(f, S) \in Nat /\ SumFunctionOnSet(f, T) \in Nat
           /\ SumFunctionOnSet(f, T) <= SumFunctionOnSet(f, S)
           /\ \A x \in S \ T : SumFunctionOnSet(f, T) + f[x] <= SumFunctionOnSet(f, S)
  <1> DEFINE rest == S \ T
  <1>1. IsFiniteSet(T) /\ IsFiniteSet(rest) /\ T \cup rest = S /\ T \cap rest = {}
    BY FS_Subset
  <1>2. \A x \in T \cup rest : f[x] \in Nat /\ f[x] \in Int
    BY <1>1
  <1>3. \A x \in rest : rest \ {x} \subseteq rest
    OBVIOUS
  <1> HIDE DEF rest
  <1>4. SumFunctionOnSet(f, S) = SumFunctionOnSet(f, T) + SumFunctionOnSet(f, rest)
    BY <1>1, <1>2, SumOfUnion
  <1>5. SumFunctionOnSet(f, T) \in Nat /\ SumFunctionOnSet(f, rest) \in Nat
    BY <1>1, <1>2, SumOfNats
  <1>6. ASSUME NEW x \in rest
        PROVE  f[x] <= SumFunctionOnSet(f, rest)
    <2>1. SumFunctionOnSet(f, rest) = f[x] + SumFunctionOnSet(f, rest \ {x})
      BY <1>1, <1>2, SumSplit
    <2>2. IsFiniteSet(rest \ {x})
      BY <1>1, <1>3, FS_Subset
    <2>3. SumFunctionOnSet(f, rest \ {x}) \in Nat
      BY <1>2, <2>2, SumOfNats
    <2> QED BY <1>2, <2>1, <2>3
  <1>7. \A x \in rest : f[x] \in Nat
    BY <1>2
  <1> QED BY <1>4, <1>5, <1>6, <1>7 DEF rest

\* The sums of the parts of a set add up to the sum of the set.
LEMMA SumOfSums ==
    ASSUME NEW f, NEW S, IsFiniteSet(S), \A x \in S : f[x] \in Int,
           NEW M, IsFiniteSet(M), NEW P \in [M -> SUBSET S],
           \A m, k \in M : m # k => P[m] \cap P[k] = {}
    PROVE  SumFunction([m \in M |-> SumFunctionOnSet(f, P[m])])
             = SumFunctionOnSet(f, UNION {P[m] : m \in M})
  <1> DEFINE g == [m \in M |-> SumFunctionOnSet(f, P[m])]
             Parts(T) == UNION {P[m] : m \in T}
             C == {T \in SUBSET M : SumFunctionOnSet(g, T) = SumFunctionOnSet(f, Parts(T))}
  <1>1. \A T \in SUBSET M : Parts(T) \in SUBSET S /\ IsFiniteSet(Parts(T)) /\ IsFiniteSet(T)
    BY FS_Subset
  <1>2. \A m \in M : IsFiniteSet(P[m]) /\ \A x \in P[m] : f[x] \in Int
    BY FS_Subset
  <1>3. \A m \in M : g[m] = SumFunctionOnSet(f, P[m]) /\ g[m] \in Int
    BY <1>2, SumTyped
  <1>4. ASSUME NEW T \in SUBSET M, \A x \in T : T \ {x} \in C
        PROVE  T \in C
    <2>1. CASE T = {}
      <3>1. Parts(T) = {}
        BY <2>1
      <3> HIDE DEF g, Parts
      <3>2. SumFunctionOnSet(g, T) = 0 /\ SumFunctionOnSet(f, Parts(T)) = 0
        BY <1>1, <2>1, <3>1, SumSteps
      <3> QED BY <3>2
    <2>2. CASE T # {}
      <3>1. PICK x \in T : TRUE
        BY <2>2
      <3> DEFINE R == T \ {x}
      <3>2. /\ Parts(T) = P[x] \cup Parts(R) /\ P[x] \cap Parts(R) = {}
            /\ P[x] \in SUBSET S /\ R \in SUBSET M /\ x \in M
        BY <3>1
      <3>3. R \in C
        BY <1>4, <3>1
      <3> HIDE DEF g, Parts, R
      <3>4. SumFunctionOnSet(g, T) = g[x] + SumFunctionOnSet(g, R)
        BY <1>1, <1>3, <3>1, SumSplit DEF R
      <3>5. \A y \in P[x] \cup Parts(R) : f[y] \in Int
        BY <1>1, <3>2
      <3>6. IsFiniteSet(P[x]) /\ IsFiniteSet(Parts(R))
        BY <1>1, <1>2, <3>2
      <3>7. SumFunctionOnSet(f, Parts(T))
              = SumFunctionOnSet(f, P[x]) + SumFunctionOnSet(f, Parts(R))
        BY <3>2, <3>5, <3>6, SumOfUnion
      <3> QED BY <1>3, <3>2, <3>3, <3>4, <3>7
    <2> QED BY <2>1, <2>2
  <1> HIDE DEF C
  <1>5. M \in C
    BY <1>4, TakingAway
  <1> QED BY <1>5 DEF C, SumFunction

-----------------------------------------------------------------------------
(* Statements of account.                                                  *)

StatementInv == StatementTypeOK /\ ReaderInv

\* Neither a day nor a step of another report disturbs them.
LEMMA StatementsLast ==
    ASSUME StatementInv, today \in Nat, today' \in {today, today + 1}, today' <= MaxDay,
           UNCHANGED statementVars
    PROVE  StatementInv'
  <1>1. StatementTypeOK'
    BY DEF StatementInv, StatementTypeOK, statementVars
  <1>2. \A m : PastOf(m) \subseteq PastOf(m)'
    BY CalendarAssumption
    DEF StatementInv, StatementTypeOK, statementVars, PastOf, AllStatements
  <1>3. ReaderInv'
    BY <1>2 DEF StatementInv, ReaderInv, statementVars
  <1> QED BY <1>1, <1>3 DEF StatementInv

LEMMA Listing ==
    ASSUME StatementInv, reader.stage \in {"authorized", "window_empty"},
           NEW found, found \subseteq PastOf(reader.member), List(found),
           UNCHANGED <<today, statements, linked>>
    PROVE  StatementInv'
  <1>1. reader.member \in Accounts
    BY DEF StatementInv, StatementTypeOK, History
  <1>2. found \subseteq AllStatements
    BY DEF PastOf, StatementInv, StatementTypeOK
  <1>3. reader' \in History
    BY <1>1, <1>2 DEF List, History
  <1>4. StatementTypeOK'
    BY <1>3 DEF StatementInv, StatementTypeOK
  <1>5. /\ reader'.stage = "listed" /\ reader'.member = reader.member
        /\ reader'.entries = found
    BY DEF List
  <1>6. reader.member \in {linked, NoAccount}
    BY DEF StatementInv, ReaderInv
  <1>7. found \subseteq {t \in statements' : t.owner = reader'.member /\ t.cutoff <= today'}
    BY <1>5 DEF PastOf
  <1>8. ReaderInv'
    BY <1>5, <1>6, <1>7 DEF ReaderInv, PastOf
  <1> QED BY <1>4, <1>8 DEF StatementInv

LEMMA StatementsStep ==
    ASSUME StatementInv, StatementNext
    PROVE  StatementInv'
  <1> USE DEF StatementInv
  <1>1. CASE Generate
    <2>1. statements \subseteq statements' /\ statements' \subseteq AllStatements
      BY <1>1 DEF Generate, StatementTypeOK
    <2>2. UNCHANGED <<today, linked, reader>>
      BY <1>1 DEF Generate
    <2>3. StatementTypeOK'
      BY <2>1, <2>2 DEF StatementTypeOK
    <2>4. \A m : PastOf(m) \subseteq PastOf(m)'
      BY <2>1, <2>2 DEF PastOf
    <2>5. ReaderInv'
      BY <2>2, <2>4 DEF ReaderInv
    <2> QED BY <2>3, <2>5
  <1>2. CASE LinkAccount
    <2>1. UNCHANGED <<today, statements, reader>> /\ linked = NoAccount /\ linked' \in Members
      BY <1>2 DEF LinkAccount
    <2>2. StatementTypeOK'
      BY <2>1 DEF StatementTypeOK, Accounts
    <2>3. ReaderInv'
      BY <2>1 DEF ReaderInv, PastOf
    <2> QED BY <2>2, <2>3
  <1>3. CASE RequireMemberAuth
    <2>1. /\ reader' = [stage |-> "authorized", member |-> linked]
          /\ UNCHANGED <<today, statements, linked>>
      BY <1>3 DEF RequireMemberAuth, FindClientAccountByUserID
    <2>2. StatementTypeOK'
      BY <2>1 DEF StatementTypeOK
    <2>3. ReaderInv'
      BY <2>1 DEF ReaderInv
    <2> QED BY <2>2, <2>3
  <1>4. CASE QueryWindow
    <2>1. reader.stage = "authorized" /\ UNCHANGED <<today, statements, linked>>
      BY <1>4 DEF QueryWindow
    <2>2. CASE reader.member = NoAccount
      <3>1. List({})
        BY <1>4, <2>2 DEF QueryWindow
      <3> QED BY <2>1, <3>1, Listing
    <2>3. CASE reader.member # NoAccount /\ InWindow(reader.member) # {}
      <3>1. List(InWindow(reader.member))
        BY <1>4, <2>3 DEF QueryWindow
      <3>2. InWindow(reader.member) \subseteq PastOf(reader.member)
        BY DEF InWindow
      <3> QED BY <2>1, <3>1, <3>2, Listing
    <2>4. CASE reader.member # NoAccount /\ InWindow(reader.member) = {}
      <3>1. reader' = [stage |-> "window_empty", member |-> reader.member]
        BY <1>4, <2>4 DEF QueryWindow
      <3>2. reader.member \in Accounts /\ reader.member \in {linked, NoAccount}
        BY <2>1 DEF StatementTypeOK, ReaderInv, History
      <3>3. StatementTypeOK'
        BY <2>1, <3>1, <3>2 DEF StatementTypeOK
      <3>4. ReaderInv'
        BY <2>1, <2>4, <3>1, <3>2 DEF ReaderInv, Accounts
      <3> QED BY <3>3, <3>4
    <2> QED BY <2>2, <2>3, <2>4
  <1>5. CASE QueryFallback
    <2>1. /\ reader.stage = "window_empty" /\ UNCHANGED <<today, statements, linked>>
          /\ List(Latest(PastOf(reader.member)))
      BY <1>5 DEF QueryFallback
    <2>2. Latest(PastOf(reader.member)) \subseteq PastOf(reader.member)
      BY DEF Latest
    <2> QED BY <2>1, <2>2, Listing
  <1> QED BY <1>1, <1>2, <1>3, <1>4, <1>5 DEF StatementNext

LEMMA ListedCanBeOpened ==
    ASSUME StatementInv
    PROVE  ListedOpens
  <1> SUFFICES ASSUME reader.stage = "listed", NEW s \in reader.entries
               PROVE  Opens(linked, s.ctrl)
    BY DEF ListedOpens
  <1>1. s \in statements /\ s.owner = reader.member /\ s.cutoff <= today
    BY DEF StatementInv, ReaderInv, PastOf
  <1>2. s.owner \in Members
    BY <1>1 DEF StatementInv, StatementTypeOK, AllStatements
  <1>3. reader.member = linked
    BY <1>1, <1>2, StatementAssumption DEF StatementInv, ReaderInv
  <1> QED BY <1>1, <1>3 DEF Opens

\* What orders the statements of the window orders all of them.
LEMMA NewestInWindow ==
    ASSUME NEW m, StatementTypeOK, today \in Nat, InWindow(m) # {}
    PROVE  Latest(InWindow(m)) = Latest(PastOf(m))
  <1> DEFINE from == MonthsBack(today, WindowMonths)
  <1>1. from \in Int
    BY CalendarAssumption, StatementAssumption DEF MonthsBack
  <1>2. \A s \in PastOf(m) : s.cutoff \in Nat
    BY CalendarAssumption DEF PastOf, StatementTypeOK, AllStatements
  <1>3. \A s \in PastOf(m) : s \in InWindow(m) <=> s.cutoff >= from
    BY DEF InWindow
  <1>4. InWindow(m) \subseteq PastOf(m)
    BY DEF InWindow
  <1> HIDE DEF from
  <1>5. ASSUME NEW s \in InWindow(m), NEW t \in PastOf(m), t \notin InWindow(m)
        PROVE  s.cutoff > t.cutoff
    BY <1>1, <1>2, <1>3, <1>4, <1>5
  <1>6. ASSUME NEW s \in Latest(InWindow(m))
        PROVE  s \in Latest(PastOf(m))
    BY <1>4, <1>5 DEF Latest, Newer
  <1>7. ASSUME NEW s \in Latest(PastOf(m))
        PROVE  s \in Latest(InWindow(m))
    <2>1. PICK w \in InWindow(m) : TRUE
      OBVIOUS
    <2>2. s \in PastOf(m) /\ w \in PastOf(m) /\ Newer(s, w)
      BY <1>4, <1>7 DEF Latest
    <2>3. s.cutoff >= from
      BY <1>1, <1>2, <1>3, <2>1, <2>2 DEF Newer
    <2>4. s \in InWindow(m)
      BY <1>3, <2>2, <2>3
    <2> QED BY <1>4, <1>7, <2>4 DEF Latest
  <1> QED BY <1>6, <1>7

LEMMA NewestFirst ==
    ASSUME StatementInv, today \in Nat, StatementNext, reader' # reader,
           reader'.stage = "listed"
    PROVE  Latest(reader'.entries) = Latest(PastOf(reader'.member))
  <1> USE DEF StatementInv
  <1>1. QueryWindow \/ QueryFallback
    BY DEF StatementNext, Generate, LinkAccount, RequireMemberAuth
  <1>2. CASE QueryWindow
    <2>1. CASE reader.member = NoAccount
      <3>1. reader' = [stage |-> "listed", member |-> NoAccount, entries |-> {}]
        BY <1>2, <2>1 DEF QueryWindow, List
      <3>2. PastOf(NoAccount) = {}
        BY StatementAssumption DEF PastOf, StatementTypeOK, AllStatements
      <3> QED BY <3>1, <3>2
    <2>2. CASE reader.member # NoAccount
      <3>1. InWindow(reader.member) # {} /\ List(InWindow(reader.member))
        BY <1>2, <2>2 DEF QueryWindow
      <3>2. reader'.entries = InWindow(reader.member) /\ reader'.member = reader.member
        BY <3>1 DEF List
      <3> QED BY <3>1, <3>2, NewestInWindow
    <2> QED BY <2>1, <2>2
  <1>3. CASE QueryFallback
    <2>1. /\ reader'.entries = Latest(PastOf(reader.member))
          /\ reader'.member = reader.member
      BY <1>3 DEF QueryFallback, List
    <2>2. \A ss : Latest(Latest(ss)) = Latest(ss)
      BY DEF Latest
    <2> QED BY <2>1, <2>2
  <1> QED BY <1>1, <1>2, <1>3

-----------------------------------------------------------------------------
(* Deposits.                                                               *)

AllPostings == [date : Nat, slc : Products, amt : Int]

InflowIn(ps) == [i \in DOMAIN ps |-> -ps[i].amt]

RowsIn(ps, products, dates) ==
    {i \in DOMAIN ps : ps[i].slc \in products /\ ps[i].date \in dates}

NetIn(ps, products, dates) == SumFunctionOnSet(InflowIn(ps), RowsIn(ps, products, dates))

LEMMA InflowTyped ==
    ASSUME NEW ps \in Seq(AllPostings), NEW rows \in SUBSET DOMAIN ps
    PROVE  /\ IsFiniteSet(rows)
           /\ \A i \in rows : InflowIn(ps)[i] \in Int
           /\ SumFunctionOnSet(InflowIn(ps), rows) \in Int
  <1>1. DOMAIN ps = 1..Len(ps) /\ Len(ps) \in Nat
    OBVIOUS
  <1>2. IsFiniteSet(1..Len(ps))
    BY <1>1, FS_Interval
  <1>3. IsFiniteSet(rows)
    BY <1>1, <1>2, FS_Subset
  <1>4. \A i \in rows : InflowIn(ps)[i] \in Int
    <2>1. \A i \in DOMAIN ps : ps[i] \in AllPostings
      OBVIOUS
    <2> QED BY <2>1 DEF InflowIn, AllPostings
  <1> QED BY <1>3, <1>4, SumTyped

\* A posting changes the sums of its product and date, by its amount.
LEMMA PostingAdds ==
    ASSUME NEW ps \in Seq(AllPostings), NEW e \in AllPostings, NEW products, NEW dates
    PROVE  /\ e.slc \in products /\ e.date \in dates =>
                 NetIn(Append(ps, e), products, dates) = NetIn(ps, products, dates) - e.amt
           /\ ~(e.slc \in products /\ e.date \in dates) =>
                 NetIn(Append(ps, e), products, dates) = NetIn(ps, products, dates)
  <1> DEFINE qs == Append(ps, e)
             n == Len(ps) + 1
             old == RowsIn(ps, products, dates)
  <1>1. /\ qs \in Seq(AllPostings)
        /\ DOMAIN qs = DOMAIN ps \cup {n}
        /\ n \notin DOMAIN ps /\ qs[n] = e
        /\ \A i \in DOMAIN ps : qs[i] = ps[i]
    OBVIOUS
  <1>2. old \in SUBSET DOMAIN ps /\ old \in SUBSET DOMAIN qs /\ n \notin old
    BY <1>1 DEF RowsIn
  <1>3. /\ e.slc \in products /\ e.date \in dates => RowsIn(qs, products, dates) = old \cup {n}
        /\ ~(e.slc \in products /\ e.date \in dates) => RowsIn(qs, products, dates) = old
    BY <1>1 DEF RowsIn
  <1>4. InflowIn(qs)[n] = -e.amt /\ e.amt \in Int
    BY <1>1 DEF InflowIn, AllPostings
  <1>5. \A i \in old : InflowIn(qs)[i] = InflowIn(ps)[i]
    BY <1>1, <1>2 DEF InflowIn
  <1> HIDE DEF qs, n, old
  <1>6. IsFiniteSet(old) /\ SumFunctionOnSet(InflowIn(ps), old) \in Int
    BY <1>2, InflowTyped
  <1>7. SumFunctionOnSet(InflowIn(qs), old) = SumFunctionOnSet(InflowIn(ps), old)
    BY <1>5, <1>6, SumSame
  <1>8. \A i \in old : InflowIn(qs)[i] \in Int
    BY <1>1, <1>2, InflowTyped
  <1>9. InflowIn(qs)[n] \in Int
    BY <1>4
  <1>10. SumFunctionOnSet(InflowIn(qs), old \cup {n})
           = InflowIn(qs)[n] + SumFunctionOnSet(InflowIn(qs), old)
    BY <1>2, <1>6, <1>8, <1>9, SumAdded
  <1>11. /\ NetIn(ps, products, dates) = SumFunctionOnSet(InflowIn(ps), old)
         /\ NetIn(qs, products, dates)
              = SumFunctionOnSet(InflowIn(qs), RowsIn(qs, products, dates))
    BY DEF NetIn, old
  <1>12. CASE e.slc \in products /\ e.date \in dates
    <2>1. NetIn(qs, products, dates) = -e.amt + NetIn(ps, products, dates)
      BY <1>3, <1>4, <1>7, <1>10, <1>11, <1>12
    <2> QED BY <1>4, <1>6, <1>11, <1>12, <2>1 DEF qs
  <1>13. CASE ~(e.slc \in products /\ e.date \in dates)
    <2>1. NetIn(qs, products, dates) = NetIn(ps, products, dates)
      BY <1>3, <1>7, <1>11, <1>13
    <2> QED BY <1>13, <2>1 DEF qs
  <1> QED BY <1>12, <1>13

LEMMA DepositsTyped ==
    ASSUME DepositTypeOK, today \in Nat
    PROVE  /\ postings \in Seq(AllPostings)
           /\ \A i \in DOMAIN postings :
                 /\ postings[i].date \in 0..today
                 /\ postings[i].amt \in Int /\ postings[i].amt # 0
  <1> DEFINE row == [date : 0..today, slc : Products, amt : Amounts \cup {-n : n \in Amounts}]
  <1>1. \A n \in Amounts : n \in Int /\ n > 0 /\ -n \in Int /\ -n < 0
    BY DepositAssumption
  <1>2. \A r \in row : r \in AllPostings /\ r.date \in 0..today /\ r.amt \in Int /\ r.amt # 0
    BY <1>1 DEF AllPostings
  <1>3. postings \in Seq(row)
    BY DEF DepositTypeOK
  <1> HIDE DEF row
  <1>4. \A i \in DOMAIN postings : postings[i] \in row
    BY <1>3
  <1>5. postings \in Seq(AllPostings)
    BY <1>2, <1>3
  <1> QED BY <1>2, <1>4, <1>5

LEMMA DepositsLast ==
    ASSUME DepositTypeOK, today \in Nat, today' \in {today, today + 1}, UNCHANGED depositVars
    PROVE  DepositTypeOK'
  <1> DEFINE row(d) ==
               [date : 0..d, slc : Products, amt : Amounts \cup {-n : n \in Amounts}]
  <1>1. postings' = postings /\ member' = member
    BY DEF depositVars
  <1>2. row(today) \subseteq row(today')
    OBVIOUS
  <1>3. postings \in Seq(row(today))
    BY DEF DepositTypeOK
  <1>4. postings' \in Seq(row(today'))
    <2> HIDE DEF row
    <2> QED BY <1>1, <1>2, <1>3
  <1>5. \A i \in DOMAIN postings : postings[i].date \in 0..today
    BY DepositsTyped
  <1>6. ASSUME NEW product \in Products
        PROVE  RowsIn(postings, {product}, 0..today) = RowsIn(postings, {product}, 0..today')
    BY <1>5 DEF RowsIn
  <1>7. \A product \in Products : NetIn(postings, {product}, 0..today) >= 0
    BY DEF DepositTypeOK, NetIn, Net, InflowIn, RowsIn, Of
  <1>8. \A product \in Products : NetIn(postings, {product}, 0..today') >= 0
    BY <1>6, <1>7 DEF NetIn
  <1>9. \A product \in Products : (Net(Of({product}, 0..today)) >= 0)'
    BY <1>1, <1>8 DEF NetIn, Net, InflowIn, RowsIn, Of
  <1> QED BY <1>1, <1>4, <1>9 DEF DepositTypeOK

LEMMA DepositsStep ==
    ASSUME DepositTypeOK, today \in Nat, DepositNext
    PROVE  DepositTypeOK'
  <1>1. PICK product \in Products, n \in Amounts : Deposit(product, n) \/ Withdraw(product, n)
    BY DEF DepositNext
  <1> DEFINE net(ps, pr) == NetIn(ps, {pr}, 0..today)
  <1>2. n \in Int /\ n > 0
    BY DepositAssumption
  <1>3. \A pr \in Products : net(postings, pr) >= 0
    BY DEF DepositTypeOK, NetIn, Net, InflowIn, RowsIn, Of
  <1>4. PICK amt \in {-n, n} :
          PostDeposit(product, amt) /\ (amt = n => n <= net(postings, product))
    <2>1. CASE Deposit(product, n)
      <3>1. PostDeposit(product, -n) /\ -n # n
        BY <1>2, <2>1 DEF Deposit
      <3> QED BY <3>1
    <2>2. CASE Withdraw(product, n)
      <3>1. PostDeposit(product, n) /\ n <= Net(Of({product}, 0..today))
        BY <2>2 DEF Withdraw
      <3>2. n <= net(postings, product)
        BY <3>1 DEF NetIn, Net, InflowIn, RowsIn, Of
      <3> QED BY <3>1, <3>2
    <2> QED BY <1>1, <2>1, <2>2
  <1> DEFINE e == [date |-> today, slc |-> product, amt |-> amt]
  <1>5. postings' = Append(postings, e) /\ today' = today /\ member' = member
    BY <1>4 DEF PostDeposit
  <1>6. e \in AllPostings /\ e.slc = product /\ e.date \in 0..today /\ e.amt = amt
    BY <1>2, <1>4 DEF AllPostings
  <1>7. postings \in Seq(AllPostings)
    BY DepositsTyped
  <1>8. amt \in Amounts \cup {-k : k \in Amounts}
    BY <1>4
  <1>9. (postings \in Seq([date : 0..today, slc : Products,
                           amt : Amounts \cup {-k : k \in Amounts}]))'
    <2> DEFINE row == [date : 0..today, slc : Products, amt : Amounts \cup {-k : k \in Amounts}]
    <2>1. e \in row
      BY <1>8
    <2>2. postings \in Seq(row)
      BY DEF DepositTypeOK
    <2> HIDE DEF row, e
    <2>3. postings' \in Seq(row)
      BY <1>5, <2>1, <2>2
    <2> QED BY <1>5, <2>3 DEF row
  <1> HIDE DEF e
  <1>10. ASSUME NEW pr \in Products
         PROVE  net(postings', pr) >= 0
    <2>1. net(postings, pr) \in Int
      <3>1. RowsIn(postings, {pr}, 0..today) \in SUBSET DOMAIN postings
        BY DEF RowsIn
      <3> QED BY <1>7, <3>1, InflowTyped DEF NetIn
    <2>2. CASE pr = product
      <3>1. net(postings', pr) = net(postings, pr) - amt
        BY <1>5, <1>6, <1>7, <2>2, PostingAdds
      <3> HIDE DEF net
      <3> QED BY <1>2, <1>3, <1>4, <2>1, <2>2, <3>1
    <2>3. CASE pr # product
      <3>1. net(postings', pr) = net(postings, pr)
        BY <1>5, <1>6, <1>7, <2>3, PostingAdds
      <3> QED BY <1>3, <3>1
    <2> QED BY <2>2, <2>3
  <1>11. \A pr \in Products : (Net(Of({pr}, 0..today)) >= 0)'
    BY <1>5, <1>10 DEF NetIn, Net, InflowIn, RowsIn, Of
  <1> QED BY <1>5, <1>9, <1>11 DEF DepositTypeOK

(* Months.  A month starts at a multiple of its length.                    *)

LEMMA Multiples ==
    ASSUME NEW D \in Nat \ {0}, NEW a \in Int, NEW b \in Int
    PROVE  /\ a * D \in Int /\ b * D \in Int
           /\ (a - b) * D = a * D - b * D
           /\ a * D < b * D + D => a <= b
           /\ a <= b => a * D <= b * D
  <1>1. a * D \in Int /\ b * D \in Int
    OBVIOUS
  <1>2. (a - b) * D = a * D - b * D
    OBVIOUS
  <1>3. ASSUME NEW x \in Nat
        PROVE  x * D \in Nat /\ (x # 0 => x * D >= D)
    <2>1. x * D \in Nat
      OBVIOUS
    <2>2. CASE x # 0
      <3>1. (x - 1) * D \in Nat
        BY <2>2
      <3>2. (x - 1) * D = x * D - D
        OBVIOUS
      <3> QED BY <2>1, <3>1, <3>2
    <2> QED BY <2>1, <2>2
  <1>4. ASSUME a * D < b * D + D
        PROVE  a <= b
    <2>1. SUFFICES ASSUME a > b
                   PROVE  FALSE
      OBVIOUS
    <2>2. a - b \in Nat /\ a - b # 0
      BY <2>1
    <2>3. (a - b) * D >= D
      BY <1>3, <2>2
    <2> QED BY <1>1, <1>2, <1>4, <2>3
  <1>5. ASSUME a <= b
        PROVE  a * D <= b * D
    <2>1. b - a \in Nat
      BY <1>5
    <2>2. (b - a) * D \in Nat
      BY <1>3, <2>1
    <2>3. (b - a) * D = b * D - a * D
      OBVIOUS
    <2> QED BY <1>1, <2>2, <2>3
  <1> QED BY <1>1, <1>2, <1>4, <1>5

LEMMA MonthOf ==
    ASSUME NEW d \in Nat
    PROVE  \E q \in Int : /\ MonthStart(d) = q * DaysPerMonth
                          /\ MonthStart(d) <= d /\ d < MonthStart(d) + DaysPerMonth
  <1>1. DaysPerMonth \in Nat \ {0}
    BY CalendarAssumption
  <1>2. /\ d \div DaysPerMonth \in Int /\ d % DaysPerMonth \in 0..(DaysPerMonth - 1)
        /\ d = DaysPerMonth * (d \div DaysPerMonth) + (d % DaysPerMonth)
    BY <1>1
  <1>3. \A x, y \in Int : x * y = y * x /\ x * y \in Int
    OBVIOUS
  <1>4. /\ DaysPerMonth * (d \div DaysPerMonth) \in Int
        /\ (d \div DaysPerMonth) * DaysPerMonth = DaysPerMonth * (d \div DaysPerMonth)
    <2>1. DaysPerMonth \in Int
      BY <1>1
    <2> QED BY <1>2, <1>3, <2>1
  <1>5. MonthStart(d) = (d \div DaysPerMonth) * DaysPerMonth
    BY <1>1, <1>2, <1>4 DEF MonthStart
  <1>6. MonthStart(d) <= d /\ d < MonthStart(d) + DaysPerMonth
    BY <1>1, <1>2 DEF MonthStart
  <1> QED BY <1>2, <1>5, <1>6

\* The months of a report, from the one of today backwards.
LEMMA MonthsAre ==
    ASSUME today \in Nat, NEW n \in Nat,
           NEW q \in Int, MonthStart(today) = q * DaysPerMonth
    PROVE  /\ Months(n) = {(q - k) * DaysPerMonth : k \in 0..(n - 1)}
           /\ \A m \in Months(n) : m \in Int
           /\ IsFiniteSet(Months(n))
  <1>1. DaysPerMonth \in Nat \ {0}
    BY CalendarAssumption
  <1>2. \A k \in 0..(n - 1) : (q - k) * DaysPerMonth = q * DaysPerMonth - k * DaysPerMonth
    BY <1>1, Multiples
  <1>3. Months(n) = {(q - k) * DaysPerMonth : k \in 0..(n - 1)}
    BY <1>2 DEF Months, MonthsBack
  <1>4. \A m \in Months(n) : m \in Int
    BY <1>1, <1>3
  <1> DEFINE start == [k \in 0..(n - 1) |-> (q - k) * DaysPerMonth]
  <1>5. IsFiniteSet(0..(n - 1))
    BY FS_Interval
  <1>6. start \in Surjection(0..(n - 1), Months(n))
    BY <1>3 DEF Surjection
  <1>7. IsFiniteSet(Months(n))
    BY <1>5, <1>6, FS_Surjection
  <1> QED BY <1>3, <1>4, <1>7

\* No gap: a day since the start of one of the months is a day of one.
LEMMA MonthsCover ==
    ASSUME today \in Nat, NEW n \in Nat, NEW m \in Months(n), NEW d \in m..today, d \in Nat
    PROVE  \E k \in Months(n) : d \in InMonth(k)
  <1> DEFINE D == DaysPerMonth
  <1>1. D \in Nat \ {0}
    BY CalendarAssumption
  <1>2. PICK q \in Int : /\ MonthStart(today) = q * D
                         /\ today < MonthStart(today) + D
    BY MonthOf
  <1>3. PICK p \in Int : /\ MonthStart(d) = p * D
                         /\ MonthStart(d) <= d /\ d < MonthStart(d) + D
    BY MonthOf
  <1>4. PICK j \in 0..(n - 1) : m = (q - j) * D
    BY <1>2, MonthsAre
  <1>5. p * D \in Int /\ q * D \in Int /\ m \in Int
    BY <1>1, <1>4
  <1>6. p <= q
    <2>1. p * D < q * D + D
      BY <1>1, <1>2, <1>3, <1>5
    <2> QED BY <1>1, <2>1, Multiples
  <1>7. q - j <= p
    <2>1. (q - j) * D < p * D + D
      BY <1>1, <1>3, <1>4, <1>5
    <2>2. q - j \in Int
      OBVIOUS
    <2> QED BY <1>1, <2>1, <2>2, Multiples
  <1>8. q - p \in 0..(n - 1) /\ q - (q - p) = p
    BY <1>4, <1>6, <1>7
  <1>9. p * D \in Months(n)
    <2>1. Months(n) = {(q - k) * D : k \in 0..(n - 1)}
      BY <1>2, MonthsAre
    <2>2. \E k \in 0..(n - 1) : q - k = p
      BY <1>8
    <2> QED BY <2>1, <2>2
  <1>10. d \in InMonth(p * D)
    BY <1>1, <1>3, <1>5 DEF InMonth
  <1> QED BY <1>9, <1>10

\* No overlap.
LEMMA MonthsApart ==
    ASSUME today \in Nat, NEW n \in Nat, NEW m \in Months(n), NEW k \in Months(n), m # k
    PROVE  InMonth(m) \cap InMonth(k) = {}
  <1> DEFINE D == DaysPerMonth
  <1>1. D \in Nat \ {0}
    BY CalendarAssumption
  <1>2. PICK q \in Int : MonthStart(today) = q * D
    BY MonthOf
  <1>3. PICK a \in 0..(n - 1), b \in 0..(n - 1) : m = (q - a) * D /\ k = (q - b) * D
    BY <1>2, MonthsAre
  <1>4. q - a \in Int /\ q - b \in Int /\ m \in Int /\ k \in Int
    BY <1>1, <1>3
  <1>5. m >= k + D \/ k >= m + D
    <2>1. SUFFICES ASSUME m < k + D, k < m + D
                   PROVE  FALSE
      BY <1>1, <1>4
    <2>2. q - a <= q - b /\ q - b <= q - a
      BY <1>1, <1>3, <1>4, <2>1, Multiples
    <2> QED BY <1>3, <1>4, <2>2
  <1> QED BY <1>1, <1>4, <1>5 DEF InMonth

LEMMA RecentInChart ==
    ASSUME DepositTypeOK, today \in Nat
    PROVE  RecentIsCharted
  <1> SUFFICES ASSUME NEW i \in LastTransactions
               PROVE  \E m \in Months(ActivityMonths) : postings[i].date \in InMonth(m)
    BY DEF RecentIsCharted
  <1> DEFINE d == postings[i].date
             m == MonthsBack(MonthStart(today), RecentMonths)
  <1>1. DaysPerMonth \in Nat \ {0} /\ ActivityMonths \in Nat
    BY CalendarAssumption, DepositAssumption
  <1>2. i \in DOMAIN postings /\ d \in MonthsBack(today, RecentMonths)..today
    BY DEF LastTransactions, Of
  <1>3. d \in 0..today
    BY <1>2, DepositsTyped
  <1>4. RecentMonths \in 0..(ActivityMonths - 1)
    BY DepositAssumption
  <1>5. m \in Months(ActivityMonths)
    BY <1>4 DEF Months
  <1>6. RecentMonths * DaysPerMonth \in Int
    BY <1>1, <1>4
  <1>7. MonthStart(today) \in Int /\ MonthStart(today) <= today
    BY <1>1, MonthOf
  <1>8. d \in m..today
    BY <1>2, <1>3, <1>6, <1>7 DEF MonthsBack
  <1> HIDE DEF d, m
  <1> QED BY <1>1, <1>3, <1>5, <1>8, MonthsCover DEF d

(* The chart.                                                              *)

\* Coming in less going out is the net of the month.
LEMMA MonthNet ==
    ASSUME DepositTypeOK, today \in Nat, NEW m
    PROVE  NetAmt(m) = NetIn(postings, Charted, InMonth(m))
  <1> DEFINE all == RowsIn(postings, Charted, InMonth(m))
             in  == {i \in all : postings[i].amt < 0}
             out == {i \in all : postings[i].amt > 0}
             f   == InflowIn(postings)
  <1>1. /\ postings \in Seq(AllPostings)
        /\ \A i \in DOMAIN postings : postings[i].amt \in Int /\ postings[i].amt # 0
    BY DepositsTyped
  <1>2. all \in SUBSET DOMAIN postings /\ in \in SUBSET DOMAIN postings
        /\ out \in SUBSET DOMAIN postings
    BY DEF RowsIn
  <1>3. in \cup out = all /\ in \cap out = {}
    BY <1>1, <1>2
  <1>4. /\ DepositAmt(m) = SumFunctionOnSet(f, in)
        /\ WithdrawalAmt(m) = -SumFunctionOnSet(f, out)
    BY DEF DepositAmt, WithdrawalAmt, Net, Of, RowsIn, InflowIn
  <1> HIDE DEF in, out, f, all
  <1>5. /\ IsFiniteSet(in) /\ SumFunctionOnSet(f, in) \in Int
        /\ IsFiniteSet(out) /\ SumFunctionOnSet(f, out) \in Int
        /\ \A i \in in \cup out : f[i] \in Int
    BY <1>1, <1>2, InflowTyped DEF f
  <1>6. SumFunctionOnSet(f, all) = SumFunctionOnSet(f, in) + SumFunctionOnSet(f, out)
    BY <1>3, <1>5, SumOfUnion
  <1>7. NetAmt(m) = SumFunctionOnSet(f, in) - (-SumFunctionOnSet(f, out))
    BY <1>4 DEF NetAmt
  <1> QED BY <1>5, <1>6, <1>7 DEF NetIn, f, all

LEMMA ChartStarts ==
    ASSUME today \in Nat
    PROVE  /\ ChartStart \in Months(ActivityMonths)
           /\ \A k \in Months(ActivityMonths) : ChartStart <= k
  <1> DEFINE D == DaysPerMonth
             n == ActivityMonths - 1
  <1>1. D \in Nat \ {0} /\ ActivityMonths \in Nat /\ n \in Nat
    BY CalendarAssumption, DepositAssumption
  <1>2. PICK q \in Int : MonthStart(today) = q * D
    BY MonthOf
  <1>3. Months(ActivityMonths) = {(q - k) * D : k \in 0..n}
    BY <1>1, <1>2, MonthsAre
  <1>4. (q - n) * D \in Months(ActivityMonths)
    BY <1>1, <1>3
  <1>5. ASSUME NEW k \in Months(ActivityMonths)
        PROVE  (q - n) * D <= k
    <2>1. PICK j \in 0..n : k = (q - j) * D
      BY <1>3
    <2>2. q - n \in Int /\ q - j \in Int /\ q - n <= q - j
      BY <1>1, <2>1
    <2> QED BY <1>1, <2>1, <2>2, Multiples
  <1>6. \E m \in Months(ActivityMonths) : \A k \in Months(ActivityMonths) : m <= k
    BY <1>4, <1>5
  <1> QED BY <1>6 DEF ChartStart

LEMMA ChartExplainsBalance ==
    ASSUME DepositTypeOK, today \in Nat
    PROVE  ActivityReconciles
  <1> DEFINE M == Months(ActivityMonths)
             P == [m \in M |-> RowsIn(postings, Charted, InMonth(m))]
             f == InflowIn(postings)
             all == RowsIn(postings, Charted, 0..today)
             old == RowsIn(postings, Charted, 0..(ChartStart - 1))
             recent == RowsIn(postings, Charted, ChartStart..today)
  <1>1. /\ postings \in Seq(AllPostings)
        /\ \A i \in DOMAIN postings : postings[i].date \in 0..today
    BY DepositsTyped
  <1>2. DaysPerMonth \in Nat \ {0} /\ ActivityMonths \in Nat
    BY CalendarAssumption, DepositAssumption
  <1>3. IsFiniteSet(M) /\ \A m \in M : m \in Int
    BY <1>2, MonthOf, MonthsAre
  <1>4. ChartStart \in M /\ ChartStart \in Int /\ \A m \in M : ChartStart <= m
    BY <1>3, ChartStarts
  <1>5. P \in [M -> SUBSET DOMAIN postings]
    BY DEF RowsIn
  <1>6. \A m, k \in M : m # k => P[m] \cap P[k] = {}
    BY <1>2, MonthsApart DEF RowsIn
  <1>7. UNION {P[m] : m \in M} = recent
    <2>1. ASSUME NEW m \in M, NEW i \in P[m]
          PROVE  i \in recent
      <3>1. i \in DOMAIN postings /\ postings[i].slc \in Charted /\ postings[i].date \in InMonth(m)
        BY <2>1 DEF RowsIn
      <3>2. postings[i].date \in ChartStart..today
        <4>1. postings[i].date \in 0..today /\ postings[i].date >= m
          BY <1>1, <3>1 DEF InMonth
        <4>2. m \in Int /\ ChartStart <= m
          BY <1>3, <1>4
        <4> QED BY <1>4, <4>1, <4>2
      <3> QED BY <3>1, <3>2 DEF RowsIn
    <2>2. ASSUME NEW i \in recent
          PROVE  \E m \in M : i \in P[m]
      <3>1. /\ i \in DOMAIN postings /\ postings[i].slc \in Charted
            /\ postings[i].date \in ChartStart..today /\ postings[i].date \in Nat
        BY <1>1, <2>2 DEF RowsIn
      <3>2. \E m \in M : postings[i].date \in InMonth(m)
        BY <1>2, <1>4, <3>1, MonthsCover
      <3> QED BY <3>1, <3>2 DEF RowsIn
    <2> HIDE DEF P, recent, M
    <2> QED BY <2>1, <2>2
  <1>8. all = old \cup recent /\ old \cap recent = {}
    BY <1>1, <1>4 DEF RowsIn
  <1>9. /\ old \in SUBSET DOMAIN postings /\ recent \in SUBSET DOMAIN postings
        /\ DOMAIN postings \in SUBSET DOMAIN postings
    BY DEF RowsIn
  <1>10. \A m \in M : NetAmt(m) = SumFunctionOnSet(f, P[m])
    BY MonthNet DEF NetIn
  <1> HIDE DEF M, P, f, all, old, recent
  <1>11. /\ IsFiniteSet(old) /\ IsFiniteSet(recent) /\ IsFiniteSet(DOMAIN postings)
         /\ \A i \in DOMAIN postings : f[i] \in Int
         /\ \A i \in old \cup recent : f[i] \in Int
    BY <1>1, <1>9, InflowTyped DEF f
  <1>12. SumFunction([m \in M |-> SumFunctionOnSet(f, P[m])]) = SumFunctionOnSet(f, recent)
    BY <1>3, <1>5, <1>6, <1>7, <1>11, SumOfSums
  <1>13. [m \in M |-> NetAmt(m)] = [m \in M |-> SumFunctionOnSet(f, P[m])]
    BY <1>10
  <1>14. SumFunctionOnSet(f, all) = SumFunctionOnSet(f, old) + SumFunctionOnSet(f, recent)
    BY <1>8, <1>11, SumOfUnion
  <1>15. Eligible => DepositBalance(Charted) = SumFunctionOnSet(f, all)
    BY DEF DepositBalance, Net, Of, f, all, RowsIn, InflowIn
  <1>16. Net(Of(Charted, 0..(ChartStart - 1))) = SumFunctionOnSet(f, old)
    BY DEF Net, Of, f, old, RowsIn, InflowIn
  <1> QED BY <1>12, <1>13, <1>14, <1>15, <1>16 DEF ActivityReconciles, M

(* The health score, as a function of the postings.                        *)

PositiveIn(ps, product, months) ==
    {m \in months : NetIn(ps, {product}, InMonth(m)) > 0}

PctIn(ps, product, months) ==
    Rounded(100 * Cardinality(PositiveIn(ps, product, months)), Cardinality(months))

ScoreIn(ps, months) ==
    Rounded(PctIn(ps, "share_capital", months) + PctIn(ps, "savings", months) + LoanPct, 3)

\* Rounding keeps the order.
LEMMA RoundedGrows ==
    ASSUME NEW n \in Nat \ {0}, NEW a \in Int, NEW b \in Int, a <= b
    PROVE  Rounded(a, n) \in Int /\ Rounded(b, n) \in Int /\ Rounded(a, n) <= Rounded(b, n)
  <1> DEFINE N == 2 * n
             x == 2 * a + n
             y == 2 * b + n
             p == x \div N
             q == y \div N
  <1>1. N \in Nat \ {0} /\ x \in Int /\ y \in Int /\ x <= y
    OBVIOUS
  <1>2. Rounded(a, n) = p /\ Rounded(b, n) = q
    BY DEF Rounded
  <1> HIDE DEF N, x, y
  <1>3. \A z \in Int : /\ z \div N \in Int /\ z % N \in 0..(N - 1)
                       /\ z = N * (z \div N) + (z % N)
    BY <1>1
  <1>4. p \in Int /\ x % N \in 0..(N - 1) /\ x = N * p + (x % N)
    BY <1>1, <1>3
  <1>5. q \in Int /\ y % N \in 0..(N - 1) /\ y = N * q + (y % N)
    BY <1>1, <1>3
  <1> HIDE DEF p, q
  <1>6. \A z \in Int : N * z \in Int /\ N * z = z * N
    BY <1>1
  <1>7. p * N < q * N + N
    BY <1>1, <1>4, <1>5, <1>6
  <1>8. p <= q
    BY <1>1, <1>4, <1>5, <1>7, Multiples
  <1> QED BY <1>2, <1>4, <1>5, <1>8

\* No month counts less, so no score is lower.
LEMMA ScoreGrows ==
    ASSUME NEW ps \in Seq(AllPostings), NEW qs \in Seq(AllPostings),
           NEW months, IsFiniteSet(months), months # {},
           \A product \in Products : \A m \in months :
              NetIn(ps, {product}, InMonth(m)) <= NetIn(qs, {product}, InMonth(m))
    PROVE  /\ ScoreIn(ps, months) \in Int /\ ScoreIn(qs, months) \in Int
           /\ ScoreIn(ps, months) <= ScoreIn(qs, months)
  <1>1. \A ss \in Seq(AllPostings) : \A product, m :
           NetIn(ss, {product}, InMonth(m)) \in Int
    <2>1. SUFFICES ASSUME NEW ss \in Seq(AllPostings), NEW product, NEW m
                   PROVE  NetIn(ss, {product}, InMonth(m)) \in Int
      OBVIOUS
    <2>2. RowsIn(ss, {product}, InMonth(m)) \in SUBSET DOMAIN ss
      BY DEF RowsIn
    <2> QED BY <2>2, InflowTyped DEF NetIn
  <1>2. Cardinality(months) \in Nat \ {0}
    BY FS_CardinalityType, FS_EmptySet
  <1>3. ASSUME NEW product \in Products
        PROVE  /\ PctIn(ps, product, months) \in Int /\ PctIn(qs, product, months) \in Int
               /\ PctIn(ps, product, months) <= PctIn(qs, product, months)
    <2> DEFINE A == PositiveIn(ps, product, months)
               B == PositiveIn(qs, product, months)
    <2>1. A \in SUBSET B /\ B \in SUBSET months
      <3>1. ASSUME NEW m \in months, NetIn(ps, {product}, InMonth(m)) > 0
            PROVE  NetIn(qs, {product}, InMonth(m)) > 0
        <4>1. /\ NetIn(ps, {product}, InMonth(m)) \in Int
              /\ NetIn(qs, {product}, InMonth(m)) \in Int
              /\ NetIn(ps, {product}, InMonth(m)) <= NetIn(qs, {product}, InMonth(m))
          BY <1>1, <1>3
        <4> QED BY <3>1, <4>1
      <3> QED BY <3>1 DEF PositiveIn
    <2> HIDE DEF A, B
    <2>2. IsFiniteSet(B) /\ IsFiniteSet(A) /\ Cardinality(A) <= Cardinality(B)
      BY <2>1, FS_Subset
    <2>3. Cardinality(A) \in Nat /\ Cardinality(B) \in Nat
      BY <2>2, FS_CardinalityType
    <2> DEFINE a == 100 * Cardinality(A)
               b == 100 * Cardinality(B)
    <2>4. a \in Int /\ b \in Int /\ a <= b
      BY <2>2, <2>3
    <2> HIDE DEF a, b
    <2>5. /\ Rounded(a, Cardinality(months)) \in Int /\ Rounded(b, Cardinality(months)) \in Int
          /\ Rounded(a, Cardinality(months)) <= Rounded(b, Cardinality(months))
      BY <1>2, <2>4, RoundedGrows
    <2> QED BY <2>5 DEF PctIn, A, B, a, b
  <1> DEFINE sum(ss) == PctIn(ss, "share_capital", months) + PctIn(ss, "savings", months)
                          + LoanPct
  <1>4. sum(ps) \in Int /\ sum(qs) \in Int /\ sum(ps) <= sum(qs)
    <2>1. "share_capital" \in Products /\ "savings" \in Products /\ LoanPct \in Int
      BY DepositAssumption DEF Products
    <2> QED BY <1>3, <2>1
  <1> HIDE DEF sum
  <1>5. /\ Rounded(sum(ps), 3) \in Int /\ Rounded(sum(qs), 3) \in Int
        /\ Rounded(sum(ps), 3) <= Rounded(sum(qs), 3)
    <2>1. 3 \in Nat \ {0}
      OBVIOUS
    <2> QED BY <1>4, <2>1, RoundedGrows
  <1> QED BY <1>5 DEF ScoreIn, sum

LEMMA SavingHelps ==
    ASSUME DepositTypeOK, today \in Nat, DepositNext
    PROVE  IF postings'[Len(postings')].amt < 0 THEN HealthScore' >= HealthScore
           ELSE HealthScore' <= HealthScore
  <1> DEFINE months == Months(HealthMonths)
  <1>1. PICK product \in Products, amt \in Int : PostDeposit(product, amt)
    <2>1. \A n \in Amounts : n \in Int /\ -n \in Int
      BY DepositAssumption
    <2> QED BY <2>1 DEF DepositNext, Deposit, Withdraw
  <1> DEFINE e == [date |-> today, slc |-> product, amt |-> amt]
  <1>2. postings' = Append(postings, e) /\ today' = today
    BY <1>1 DEF PostDeposit
  <1>3. e \in AllPostings /\ e.amt = amt /\ e.slc = product
    BY DEF AllPostings
  <1> HIDE DEF e
  <1>4. postings \in Seq(AllPostings)
    BY DepositsTyped
  <1>5. postings' \in Seq(AllPostings) /\ postings'[Len(postings')].amt = amt
    BY <1>2, <1>3, <1>4
  <1>6. IsFiniteSet(months) /\ months # {}
    <2>1. HealthMonths \in Nat /\ 0 \in 0..(HealthMonths - 1)
      BY DepositAssumption
    <2>2. IsFiniteSet(months)
      BY <2>1, MonthOf, MonthsAre
    <2>3. MonthsBack(MonthStart(today), 0) \in months
      BY <2>1 DEF Months
    <2> QED BY <2>2, <2>3
  <1>7. HealthScore = ScoreIn(postings, months)
    BY DEF HealthScore, MonthsPct, Positive, Net, Of,
           ScoreIn, PctIn, PositiveIn, NetIn, RowsIn, InflowIn
  <1>8. HealthScore' = ScoreIn(postings', months)
    BY <1>2 DEF HealthScore, MonthsPct, Positive, Net, Of, Months,
                ScoreIn, PctIn, PositiveIn, NetIn, RowsIn, InflowIn
  <1>9. \A ps \in {postings, postings'} : \A pr, m : NetIn(ps, {pr}, InMonth(m)) \in Int
    <2>1. SUFFICES ASSUME NEW ps \in Seq(AllPostings), NEW pr, NEW m
                   PROVE  NetIn(ps, {pr}, InMonth(m)) \in Int
      BY <1>4, <1>5
    <2>2. RowsIn(ps, {pr}, InMonth(m)) \in SUBSET DOMAIN ps
      BY DEF RowsIn
    <2> QED BY <2>2, InflowTyped DEF NetIn
  <1> HIDE DEF months
  <1>10. CASE amt < 0
    <2>1. \A pr \in Products : \A m \in months :
             NetIn(postings, {pr}, InMonth(m)) <= NetIn(postings', {pr}, InMonth(m))
      <3>1. SUFFICES ASSUME NEW pr \in Products, NEW m \in months
                     PROVE  NetIn(postings, {pr}, InMonth(m)) <= NetIn(postings', {pr}, InMonth(m))
        OBVIOUS
      <3>2. \/ NetIn(postings', {pr}, InMonth(m)) = NetIn(postings, {pr}, InMonth(m)) - amt
            \/ NetIn(postings', {pr}, InMonth(m)) = NetIn(postings, {pr}, InMonth(m))
        BY <1>2, <1>3, <1>4, PostingAdds
      <3>3. NetIn(postings, {pr}, InMonth(m)) \in Int
        BY <1>9
      <3> QED BY <1>10, <3>2, <3>3
    <2>2. /\ ScoreIn(postings, months) \in Int /\ ScoreIn(postings', months) \in Int
          /\ ScoreIn(postings, months) <= ScoreIn(postings', months)
      BY <1>4, <1>5, <1>6, <2>1, ScoreGrows
    <2> QED BY <1>5, <1>7, <1>8, <1>10, <2>2
  <1>11. CASE ~(amt < 0)
    <2>1. \A pr \in Products : \A m \in months :
             NetIn(postings', {pr}, InMonth(m)) <= NetIn(postings, {pr}, InMonth(m))
      <3>1. SUFFICES ASSUME NEW pr \in Products, NEW m \in months
                     PROVE  NetIn(postings', {pr}, InMonth(m)) <= NetIn(postings, {pr}, InMonth(m))
        OBVIOUS
      <3>2. \/ NetIn(postings', {pr}, InMonth(m)) = NetIn(postings, {pr}, InMonth(m)) - amt
            \/ NetIn(postings', {pr}, InMonth(m)) = NetIn(postings, {pr}, InMonth(m))
        BY <1>2, <1>3, <1>4, PostingAdds
      <3>3. NetIn(postings, {pr}, InMonth(m)) \in Int
        BY <1>9
      <3> QED BY <1>11, <3>2, <3>3
    <2>2. /\ ScoreIn(postings, months) \in Int /\ ScoreIn(postings', months) \in Int
          /\ ScoreIn(postings', months) <= ScoreIn(postings, months)
      BY <1>4, <1>5, <1>6, <2>1, ScoreGrows
    <2> QED BY <1>5, <1>7, <1>8, <1>11, <2>2
  <1> QED BY <1>10, <1>11

-----------------------------------------------------------------------------
(* Loans and receivables.                                                  *)

AllEntries == [date : Nat, sle : {"principal", "penalty"}, amount : Nat]

AmountIn(es) == [i \in DOMAIN es |-> es[i].amount]

PaymentsIn(es, dates) == {i \in DOMAIN es : es[i].sle = "principal" /\ es[i].date \in dates}

PaidIn(es, dates) == SumFunctionOnSet(AmountIn(es), PaymentsIn(es, dates))

LEMMA PaidTyped ==
    ASSUME NEW es \in Seq(AllEntries), NEW dates
    PROVE  /\ PaymentsIn(es, dates) \in SUBSET DOMAIN es
           /\ IsFiniteSet(PaymentsIn(es, dates))
           /\ \A i \in DOMAIN es : AmountIn(es)[i] \in Nat
           /\ PaidIn(es, dates) \in Nat
  <1>1. DOMAIN es = 1..Len(es) /\ Len(es) \in Nat
    OBVIOUS
  <1>2. IsFiniteSet(1..Len(es))
    BY <1>1, FS_Interval
  <1>3. PaymentsIn(es, dates) \in SUBSET DOMAIN es
    BY DEF PaymentsIn
  <1>4. IsFiniteSet(PaymentsIn(es, dates))
    BY <1>1, <1>2, <1>3, FS_Subset
  <1>5. \A i \in DOMAIN es : AmountIn(es)[i] \in Nat
    <2>1. \A i \in DOMAIN es : es[i] \in AllEntries
      OBVIOUS
    <2> QED BY <2>1 DEF AmountIn, AllEntries
  <1>6. PaidIn(es, dates) \in Nat
    <2>1. \A i \in PaymentsIn(es, dates) : AmountIn(es)[i] \in Nat
      BY <1>3, <1>5
    <2> QED BY <1>4, <2>1, SumOfNats DEF PaidIn
  <1> QED BY <1>3, <1>4, <1>5, <1>6

\* A payment adds its amount to what was paid by then, a settlement nothing.
LEMMA PaymentAdds ==
    ASSUME NEW es \in Seq(AllEntries), NEW e \in AllEntries, NEW dates, e.date \in dates
    PROVE  /\ e.sle = "principal" =>
                 PaidIn(Append(es, e), dates) = PaidIn(es, dates) + e.amount
           /\ e.sle = "penalty" => PaidIn(Append(es, e), dates) = PaidIn(es, dates)
  <1> DEFINE fs == Append(es, e)
             n == Len(es) + 1
             old == PaymentsIn(es, dates)
  <1>1. /\ fs \in Seq(AllEntries)
        /\ DOMAIN fs = DOMAIN es \cup {n}
        /\ n \notin DOMAIN es /\ fs[n] = e
        /\ \A i \in DOMAIN es : fs[i] = es[i]
    OBVIOUS
  <1>2. old \in SUBSET DOMAIN es /\ n \notin old
    BY <1>1 DEF PaymentsIn
  <1>3. /\ e.sle = "principal" => PaymentsIn(fs, dates) = old \cup {n}
        /\ e.sle = "penalty" => PaymentsIn(fs, dates) = old
    BY <1>1 DEF PaymentsIn
  <1>4. AmountIn(fs)[n] = e.amount /\ e.amount \in Nat
    BY <1>1 DEF AmountIn, AllEntries
  <1>5. \A i \in old : AmountIn(fs)[i] = AmountIn(es)[i]
    BY <1>1, <1>2 DEF AmountIn
  <1> HIDE DEF fs, n, old
  <1>6. IsFiniteSet(old) /\ SumFunctionOnSet(AmountIn(es), old) \in Nat
    BY PaidTyped DEF PaidIn, old
  <1>7. SumFunctionOnSet(AmountIn(fs), old) = SumFunctionOnSet(AmountIn(es), old)
    BY <1>5, <1>6, SumSame
  <1>8. \A i \in DOMAIN fs : AmountIn(fs)[i] \in Nat
    BY <1>1, PaidTyped
  <1>9. AmountIn(fs)[n] \in Int /\ \A i \in old : AmountIn(fs)[i] \in Int
    BY <1>1, <1>2, <1>8
  <1>10. SumFunctionOnSet(AmountIn(fs), old \cup {n})
           = AmountIn(fs)[n] + SumFunctionOnSet(AmountIn(fs), old)
    BY <1>2, <1>6, <1>9, SumAdded
  <1>11. /\ PaidIn(es, dates) = SumFunctionOnSet(AmountIn(es), old)
         /\ PaidIn(fs, dates) = SumFunctionOnSet(AmountIn(fs), PaymentsIn(fs, dates))
    BY DEF PaidIn, old
  <1>12. ASSUME e.sle = "principal"
         PROVE  PaidIn(fs, dates) = PaidIn(es, dates) + e.amount
    <2>1. PaidIn(fs, dates) = e.amount + PaidIn(es, dates)
      BY <1>3, <1>4, <1>7, <1>10, <1>11, <1>12
    <2>2. PaidIn(es, dates) \in Nat
      BY <1>6, <1>11
    <2> QED BY <1>4, <2>1, <2>2
  <1>13. e.sle = "penalty" => PaidIn(fs, dates) = PaidIn(es, dates)
    BY <1>3, <1>7, <1>11
  <1> QED BY <1>12, <1>13 DEF fs

LEMMA InstallmentsTyped ==
    /\ Installments = 1..Len(Principal) /\ Len(Principal) \in Nat
    /\ IsFiniteSet(Installments)
    /\ \A k \in Installments : Principal[k] \in Nat
  <1>1. Installments = 1..Len(Principal) /\ Len(Principal) \in Nat
    BY LoanAssumption DEF Installments
  <1>2. IsFiniteSet(1..Len(Principal))
    BY <1>1, FS_Interval
  <1>3. \A k \in Installments : Principal[k] \in Nat
    BY LoanAssumption DEF Installments
  <1> QED BY <1>1, <1>2, <1>3

\* More installments, more principal; the rest of them is the rest of it.
LEMMA Totals ==
    ASSUME NEW ks \in SUBSET Installments
    PROVE  /\ Total(ks) \in Nat /\ Amount \in Nat /\ Total(ks) <= Amount
           /\ \A js \in SUBSET ks : Total(js) \in Nat /\ Total(js) <= Total(ks)
           /\ Total(Installments \ ks) = Amount - Total(ks)
  <1>1. IsFiniteSet(ks) /\ \A k \in ks : Principal[k] \in Nat
    BY InstallmentsTyped, FS_Subset
  <1>2. /\ Total(ks) \in Nat /\ Amount \in Nat /\ Total(ks) <= Amount
    BY InstallmentsTyped, SumGrows DEF Total, Amount
  <1>3. \A js \in SUBSET ks : Total(js) \in Nat /\ Total(js) <= Total(ks)
    BY <1>1, SumGrows DEF Total
  <1> DEFINE rest == Installments \ ks
  <1>4. /\ rest \in SUBSET Installments /\ rest \cup ks = Installments
        /\ rest \cap ks = {}
    OBVIOUS
  <1> HIDE DEF rest
  <1>8. IsFiniteSet(rest) /\ \A k \in rest \cup ks : Principal[k] \in Int
    BY <1>4, InstallmentsTyped, FS_Subset
  <1>5. Total(Installments) = Total(rest) + Total(ks)
    BY <1>1, <1>4, <1>8, SumOfUnion DEF Total
  <1>6. Total(rest) \in Nat
    BY <1>4, InstallmentsTyped, SumGrows DEF Total
  <1>7. Total(rest) = Amount - Total(ks)
    BY <1>2, <1>5, <1>6 DEF Amount
  <1> QED BY <1>2, <1>3, <1>7 DEF rest

LEMMA LoanTyped ==
    ASSUME LoanTypeOK, today \in Nat
    PROVE  /\ entries \in Seq(AllEntries)
           /\ \A i \in DOMAIN entries : entries[i].date \in 0..today
           /\ Balance = Amount - PaidIn(entries, 0..today)
           /\ Balance \in 0..Amount /\ Amount \in Nat
           /\ \A d \in Int : BalanceBefore(d) \in Int
           /\ Settlements \subseteq 0..today
  <1> DEFINE row == [date : 0..today, sle : {"principal", "penalty"}, amount : 0..Amount]
  <1>1. Amount \in Nat
    BY Totals
  <1>2. \A r \in row : r \in AllEntries /\ r.date \in 0..today
    BY <1>1 DEF AllEntries
  <1>3. entries \in Seq(row)
    BY DEF LoanTypeOK
  <1> HIDE DEF row
  <1>4. \A i \in DOMAIN entries : entries[i] \in row
    BY <1>3
  <1>5. entries \in Seq(AllEntries)
    BY <1>2, <1>3
  <1>6. Balance = Amount - PaidIn(entries, 0..today)
    BY DEF Balance, Paid, PaidIn, AmountIn, PaymentsIn
  <1>7. ASSUME NEW d \in Int
        PROVE  BalanceBefore(d) \in Int
    <2>1. BalanceBefore(d) = Amount - PaidIn(entries, 0..(d - 1))
      BY DEF BalanceBefore, Paid, PaidIn, AmountIn, PaymentsIn
    <2>2. PaidIn(entries, 0..(d - 1)) \in Nat
      BY <1>5, PaidTyped
    <2> QED BY <1>1, <2>1, <2>2
  <1>8. Settlements \subseteq 0..today
    BY <1>2, <1>4 DEF Settlements
  <1> QED BY <1>1, <1>2, <1>4, <1>5, <1>6, <1>7, <1>8 DEF LoanTypeOK

LEMMA LoansLast ==
    ASSUME LoanTypeOK, today \in Nat, today' \in {today, today + 1}, UNCHANGED loanVars
    PROVE  LoanTypeOK'
  <1> DEFINE row(d) == [date : 0..d, sle : {"principal", "penalty"}, amount : 0..Amount]
  <1>1. entries' = entries /\ loanKind' = loanKind
    BY DEF loanVars
  <1>2. row(today) \subseteq row(today')
    OBVIOUS
  <1>3. entries \in Seq(row(today))
    BY DEF LoanTypeOK
  <1>4. entries' \in Seq(row(today'))
    <2> HIDE DEF row
    <2> QED BY <1>1, <1>2, <1>3
  <1>5. PaymentsIn(entries, 0..today) = PaymentsIn(entries, 0..today')
    <2>1. \A i \in DOMAIN entries : entries[i].date \in 0..today
      BY LoanTyped
    <2>2. \A d \in 0..today : d \in 0..today'
      OBVIOUS
    <2> QED BY <2>1, <2>2 DEF PaymentsIn
  <1>6. Amount - PaidIn(entries, 0..today') \in 0..Amount
    BY <1>5, LoanTyped DEF PaidIn
  <1>7. (Balance \in 0..Amount)'
    BY <1>1, <1>6 DEF Balance, Paid, PaidIn, AmountIn, PaymentsIn
  <1> QED BY <1>1, <1>4, <1>7 DEF LoanTypeOK

LEMMA LoansStep ==
    ASSUME LoanTypeOK, today \in Nat, LoanNext
    PROVE  LoanTypeOK'
  <1>1. PICK sle \in {"principal", "penalty"}, amount \in 0..Balance :
          Post(sle, amount) /\ (sle = "penalty" => amount = 0)
    <2>1. Balance \in Nat
      BY LoanTyped
    <2>2. CASE Pay
      <3>1. PICK n \in 1..Balance : Post("principal", n)
        BY <2>2 DEF Pay
      <3>2. n \in 0..Balance
        BY <2>1
      <3> QED BY <3>1, <3>2
    <2>3. CASE SettlePenalty
      <3>1. Post("penalty", 0) /\ 0 \in 0..Balance
        BY <2>1, <2>3 DEF SettlePenalty
      <3> QED BY <3>1
    <2> QED BY <2>2, <2>3 DEF LoanNext
  <1> DEFINE e == [date |-> today, sle |-> sle, amount |-> amount]
             row == [date : 0..today, sle : {"principal", "penalty"}, amount : 0..Amount]
  <1>2. entries' = Append(entries, e) /\ today' = today /\ loanKind' = loanKind
    BY <1>1 DEF Post
  <1>3. amount \in Nat /\ amount \in 0..Amount
    BY LoanTyped
  <1>4. e \in row /\ e \in AllEntries
    BY <1>3 DEF AllEntries
  <1>5. e.date \in 0..today /\ e.sle = sle /\ e.amount = amount
    OBVIOUS
  <1>6. entries \in Seq(row)
    BY DEF LoanTypeOK
  <1> HIDE DEF e, row
  <1>7. entries' \in Seq(row)
    BY <1>2, <1>4, <1>6
  <1>8. PaidIn(entries', 0..today) = PaidIn(entries, 0..today) + amount
    <2>1. entries \in Seq(AllEntries)
      BY LoanTyped
    <2>2. PaidIn(entries, 0..today) \in Nat
      BY <2>1, PaidTyped
    <2>3. CASE sle = "principal"
      BY <1>2, <1>4, <1>5, <2>1, <2>3, PaymentAdds
    <2>4. CASE sle = "penalty"
      <3>1. PaidIn(entries', 0..today) = PaidIn(entries, 0..today)
        BY <1>2, <1>4, <1>5, <2>1, <2>4, PaymentAdds
      <3> QED BY <1>1, <2>2, <2>4, <3>1
    <2> QED BY <2>3, <2>4
  <1>9. Amount - PaidIn(entries', 0..today) \in 0..Amount
    <2>1. Amount \in Nat /\ PaidIn(entries, 0..today) \in Nat
      BY LoanTyped, PaidTyped
    <2>2. amount <= Amount - PaidIn(entries, 0..today)
      BY LoanTyped
    <2> QED BY <1>3, <1>8, <2>1, <2>2
  <1>10. (Balance \in 0..Amount)'
    BY <1>2, <1>9 DEF Balance, Paid, PaidIn, AmountIn, PaymentsIn
  <1> QED BY <1>2, <1>7, <1>10 DEF LoanTypeOK, row

LEMMA DueTyped ==
    \A k \in Int : Due(k) = k * DaysPerMonth /\ Due(k) \in Int
  BY CalendarAssumption DEF Due

LEMMA SettledOnce ==
    ASSUME LoanTypeOK, today \in Nat
    PROVE  LoanPenaltyOnce
  <1> SUFFICES ASSUME NEW s \in Settlements, NEW d \in (s + 1)..today,
                      NEW k \in Charged(s) \cap Charged(d)
               PROVE  Grace = 0 /\ Due(k) = s - 1
    BY DEF LoanPenaltyOnce
  <1>1. s \in 0..today
    BY LoanTyped
  <1>2. s < d
    BY <1>1
  <1>3. Due(k) >= s - 1
    BY <1>2 DEF Charged
  <1>4. s - Due(k) > Grace
    BY DEF Charged, PastGrace
  <1>5. k \in Int /\ Due(k) \in Int
    <2>1. k \in Installments
      BY LoanAssumption DEF Charged, Installments
    <2> QED BY <2>1, InstallmentsTyped, DueTyped
  <1> QED BY <1>1, <1>3, <1>4, <1>5, LoanAssumption

\* Installments fall due in their order.
LEMMA DueInOrder ==
    ASSUME NEW j \in Int, NEW k \in Int
    PROVE  Due(j) <= Due(k) <=> j <= k
  <1>1. DaysPerMonth \in Nat \ {0}
    BY CalendarAssumption
  <1>2. Due(j) = j * DaysPerMonth /\ Due(k) = k * DaysPerMonth
    BY DEF Due
  <1>3. j * DaysPerMonth \in Int /\ k * DaysPerMonth \in Int
    BY <1>1
  <1>4. j <= k => j * DaysPerMonth <= k * DaysPerMonth
    BY <1>1, Multiples
  <1>5. j * DaysPerMonth < k * DaysPerMonth + DaysPerMonth => j <= k
    BY <1>1, Multiples
  <1> QED BY <1>1, <1>2, <1>3, <1>4, <1>5

\* The installments up to k are all that is not left to pay after k.
LEMMA PaidUpTo ==
    ASSUME NEW k \in Int
    PROVE  /\ {j \in Installments : j <= k} \in SUBSET Installments
           /\ Total({j \in Installments : j <= k}) = Amount - PrinBal(k)
           /\ PrinBal(k) \in Nat
  <1> DEFINE later == {j \in Installments : j > k}
             upto == {j \in Installments : j <= k}
  <1>1. Installments \ later = upto /\ later \in SUBSET Installments
    BY InstallmentsTyped
  <1> HIDE DEF later, upto
  <1>2. Total(upto) = Amount - Total(later) /\ Total(later) \in Nat
    BY <1>1, Totals
  <1> QED BY <1>1, <1>2 DEF PrinBal, later, upto

LEMMA PenaltyIfBehind ==
    ASSUME LoanTypeOK, today \in Nat
    PROVE  PenaltyOnlyWhenBehind
  <1>1. Balance \in Nat /\ Amount \in Nat /\ BalanceBefore(today) \in Int
    BY LoanTyped
  <1>2. ASSUME NEW ar \in FindActiveAR, ar.penaltyDue # {}
        PROVE  ar.principalDue > 0
    <2> DEFINE due == {k \in Installments : Due(k) <= today}
    <2>1. ar.principalDue = PrincipalDue /\ ar.penaltyDue = ARPenalty
      BY DEF FindActiveAR
    <2> DEFINE late == LongDue(today)
    <2>2. Total(late) - Amount + Balance > 0
      BY <1>2, <2>1 DEF ARPenalty, Unpaid
    <2>3. late \subseteq due /\ due \in SUBSET Installments
      <3>1. \A k \in late : k \in Installments /\ Due(k) \in Int /\ Due(k) < today - ARGrace
        BY LoanAssumption, InstallmentsTyped, DueTyped DEF LongDue, Installments
      <3> QED BY <3>1, LoanAssumption
    <2> HIDE DEF due, late
    <2>4. Total(late) <= Total(due) /\ Total(late) \in Nat /\ Total(due) \in Nat
      BY <2>3, Totals
    <2>5. Total(due) - Amount + Balance > 0
      BY <1>1, <2>2, <2>4
    <2> QED BY <2>1, <2>5 DEF PrincipalDue, AtLeastZero, due
  <1>3. ASSUME NEW loan \in FindActiveLoans, loan.penaltyDue # {}
        PROVE  Total({k \in Installments : Due(k) < today}) > Amount - BalanceBefore(today)
    <2> DEFINE due == {k \in Installments : Due(k) < today}
    <2>1. PICK k \in Charged(today) : TRUE
      BY <1>3 DEF FindActiveLoans, LoanPenalty
    <2>2. k \in Installments /\ k \in Int /\ Due(k) \in Int
      BY LoanAssumption, InstallmentsTyped, DueTyped DEF Charged, Installments
    <2>3. Due(k) < today /\ PrinBal(k) < BalanceBefore(today)
      BY <2>1, <2>2, LoanAssumption DEF Charged, PastGrace, StillOwed
    <2> DEFINE upto == {j \in Installments : j <= k}
    <2>4. upto \subseteq due /\ due \in SUBSET Installments
      <3>1. ASSUME NEW j \in upto
            PROVE  j \in due
        <4>1. j \in Installments /\ j \in Int /\ j <= k
          BY InstallmentsTyped
        <4>2. Due(j) \in Int /\ Due(j) <= Due(k)
          BY <2>2, <4>1, DueTyped, DueInOrder
        <4> QED BY <2>2, <2>3, <4>1, <4>2
      <3> QED BY <3>1
    <2>5. Total(upto) = Amount - PrinBal(k) /\ PrinBal(k) \in Nat
      BY <2>2, PaidUpTo
    <2> HIDE DEF due, upto
    <2>6. Total(upto) <= Total(due) /\ Total(due) \in Nat /\ Total(upto) \in Nat
      BY <2>4, Totals
    <2>7. Total(due) > Amount - BalanceBefore(today)
      BY <1>1, <2>3, <2>5, <2>6
    <2> QED BY <2>7 DEF due
  <1> QED BY <1>2, <1>3 DEF PenaltyOnlyWhenBehind

LEMMA TotalOfNone == Total({}) = 0
  BY FS_EmptySet, SumSteps DEF Total

\* With something left to pay there is one next installment.
LEMMA NextExists ==
    ASSUME Balance \in 0..Amount, Balance > 0
    PROVE  \E k \in Unsettled : NextInstallment = {k} /\ \A j \in Unsettled : k <= j
  <1>1. Len(Principal) \in Installments
    <2>1. CASE Len(Principal) = 0
      <3>1. Installments = {}
        BY <2>1, InstallmentsTyped
      <3>2. Amount = 0
        BY <3>1, TotalOfNone DEF Amount
      <3> QED BY <3>2
    <2> QED BY <2>1, InstallmentsTyped
  <1>2. PrinBal(Len(Principal)) = 0
    <2>1. {j \in Installments : j > Len(Principal)} = {}
      BY InstallmentsTyped
    <2> QED BY <2>1, TotalOfNone DEF PrinBal
  <1>3. Len(Principal) \in Unsettled
    BY <1>1, <1>2, Totals DEF Unsettled
  <1>4. Unsettled \subseteq Nat
    BY InstallmentsTyped DEF Unsettled
  <1> DEFINE Less == OpToRel(<, Nat)
  <1>5. IsWellFoundedOn(Less, Nat)
    BY NatLessThanWellFounded
  <1>6. \A x, y \in Nat : y < x => <<y, x>> \in Less
    BY DEF OpToRel
  <1> HIDE DEF Less
  <1>7. PICK k \in Unsettled : \A j \in Unsettled : <<j, k>> \notin Less
    BY <1>3, <1>4, <1>5, WFMin
  <1>8. \A j \in Unsettled : k <= j
    <2>1. \A x, y \in Nat : ~(y < x) => x <= y
      OBVIOUS
    <2> QED BY <1>4, <1>6, <1>7, <2>1
  <1>9. NextInstallment = {k}
    <2>1. \A x, y \in Nat : x <= y /\ y <= x => x = y
      OBVIOUS
    <2> QED BY <1>4, <1>7, <1>8, <2>1 DEF NextInstallment
  <1> QED BY <1>8, <1>9

LEMMA NextIsWhatIsDue ==
    ASSUME LoanTypeOK, today \in Nat
    PROVE  NextDueAgrees
  <1> SUFFICES ASSUME NEW answer \in FindActiveLoans \cup FindActiveAR
               PROVE  \E k \in Installments :
                         /\ NextInstallment = {k}
                         /\ Due(k) <= today <=> answer.principalDue > 0
                         /\ answer.principalDue <= answer.balance
    BY DEF NextDueAgrees
  <1>1. Balance > 0 /\ answer.principalDue = PrincipalDue /\ answer.balance = Balance
    BY DEF FindActiveLoans, FindActiveAR, Active
  <1>2. Balance \in 0..Amount /\ Balance \in Nat /\ Amount \in Nat
    BY LoanTyped
  <1>3. PICK k \in Unsettled : NextInstallment = {k} /\ \A j \in Unsettled : k <= j
    BY <1>1, <1>2, NextExists
  <1>4. k \in Installments /\ k \in Int /\ PrinBal(k) < Balance
    BY <1>3, InstallmentsTyped DEF Unsettled
  <1> DEFINE due == {j \in Installments : Due(j) <= today}
             upto(n) == {j \in Installments : j <= n}
             part == Total(due) - Amount + Balance
  <1>5. due \in SUBSET Installments
    OBVIOUS
  <1>6. Total(due) \in Nat /\ Total(due) <= Amount
    BY <1>5, Totals
  <1>7. PrincipalDue = IF part > 0 THEN part ELSE 0
    BY DEF PrincipalDue, AtLeastZero
  <1>8. CASE Due(k) <= today
    <2>1. ASSUME NEW j \in upto(k)
          PROVE  j \in due
      <3>1. j \in Installments /\ j \in Int /\ j <= k
        BY InstallmentsTyped
      <3>2. Due(j) \in Int /\ Due(k) \in Int /\ Due(j) <= Due(k)
        BY <1>4, <3>1, DueTyped, DueInOrder
      <3> QED BY <1>8, <3>1, <3>2
    <2>2. Total(upto(k)) = Amount - PrinBal(k) /\ PrinBal(k) \in Nat
      BY <1>4, PaidUpTo
    <2>3. upto(k) \in SUBSET due
      BY <2>1
    <2> HIDE DEF due, upto
    <2>4. Total(upto(k)) <= Total(due) /\ Total(upto(k)) \in Nat
      BY <1>5, <2>3, Totals
    <2>5. part > 0 /\ part <= Balance
      BY <1>2, <1>4, <1>6, <2>2, <2>4
    <2> QED BY <1>1, <1>3, <1>4, <1>7, <1>8, <2>5
  <1>9. CASE ~(Due(k) <= today)
    <2>1. ASSUME NEW j \in due
          PROVE  j \in upto(k - 1)
      <3>1. j \in Installments /\ j \in Int /\ Due(j) <= today
        BY InstallmentsTyped
      <3>2. ~(Due(k) <= Due(j))
        BY <1>4, <1>9, <3>1, DueTyped
      <3>3. ~(k <= j)
        BY <1>4, <3>1, <3>2, DueInOrder
      <3> QED BY <1>4, <3>1, <3>3
    <2>2. Total(upto(k - 1)) = Amount - PrinBal(k - 1) /\ PrinBal(k - 1) \in Nat
      <3>1. k - 1 \in Int
        BY <1>4
      <3> QED BY <3>1, PaidUpTo
    <2>3. due \in SUBSET upto(k - 1) /\ upto(k - 1) \in SUBSET Installments
      BY <2>1
    <2>4. Total(upto(k - 1)) <= Amount - Balance
      <3>1. CASE k = 1
        <4>1. upto(k - 1) = {}
          BY <3>1, InstallmentsTyped
        <4> HIDE DEF upto
        <4>2. Total(upto(k - 1)) = 0
          BY <4>1, TotalOfNone
        <4> QED BY <1>2, <4>2
      <3>2. CASE k # 1
        <4>1. k - 1 \in Installments /\ ~(k <= k - 1)
          BY <1>4, <3>2, InstallmentsTyped
        <4>2. k - 1 \notin Unsettled
          BY <1>3, <4>1
        <4>3. ~(PrinBal(k - 1) < Balance)
          BY <4>1, <4>2 DEF Unsettled
        <4> HIDE DEF upto
        <4> QED BY <1>2, <2>2, <4>3
      <3> QED BY <3>1, <3>2
    <2> HIDE DEF due, upto
    <2>5. Total(due) <= Total(upto(k - 1)) /\ Total(upto(k - 1)) \in Nat
      BY <2>3, Totals
    <2>6. ~(part > 0)
      BY <1>2, <1>6, <2>4, <2>5
    <2> QED BY <1>1, <1>2, <1>3, <1>4, <1>7, <1>9, <2>6
  <1> QED BY <1>8, <1>9

-----------------------------------------------------------------------------
(* The reports together.                                                   *)

LEMMA Initially == Init => IInv
  <1> SUFFICES ASSUME Init
               PROVE  IInv
    OBVIOUS
  <1>1. today = 0 /\ today \in 0..MaxDay
    BY CalendarAssumption DEF Init
  <1>2. LoanTypeOK
    <2>1. entries = <<>> /\ loanKind \in {"loan", "ar"}
      BY DEF Init, LoanInit
    <2>2. entries \in Seq([date : 0..today, sle : {"principal", "penalty"}, amount : 0..Amount])
      BY <2>1
    <2>3. PaymentsIn(entries, 0..today) = {}
      BY <2>1 DEF PaymentsIn
    <2>4. PaidIn(entries, 0..today) = 0
      BY <2>3, FS_EmptySet, SumSteps DEF PaidIn
    <2>5. Amount - PaidIn(entries, 0..today) \in 0..Amount
      <3>1. Amount \in Nat
        BY Totals
      <3> QED BY <2>4, <3>1
    <2>6. Balance \in 0..Amount
      BY <2>5 DEF Balance, Paid, PaidIn, AmountIn, PaymentsIn
    <2> QED BY <2>1, <2>2, <2>6 DEF LoanTypeOK
  <1>3. DepositTypeOK
    <2>1. postings = <<>> /\ member \in {"adult", "kiddie"}
      BY DEF Init, DepositInit
    <2>2. \A is : is = {} => Net(is) = 0
      BY FS_EmptySet, SumSteps DEF Net
    <2>3. \A product \in Products : Of({product}, 0..today) = {}
      BY <2>1 DEF Of
    <2>4. \A product \in Products : Net(Of({product}, 0..today)) >= 0
      BY <2>2, <2>3
    <2>5. postings \in Seq([date : 0..today, slc : Products,
                            amt : Amounts \cup {-n : n \in Amounts}])
      BY <2>1
    <2> QED BY <2>1, <2>4, <2>5 DEF DepositTypeOK
  <1>4. StatementTypeOK /\ ReaderInv
    BY DEF Init, StatementInit, StatementTypeOK, ReaderInv
  <1> QED BY <1>1, <1>2, <1>3, <1>4 DEF Init, IInv, TypeOK

LEMMA Today ==
    ASSUME IInv, [Next]_vars
    PROVE  today \in Nat /\ today' \in {today, today + 1} /\ today' \in 0..MaxDay
  <1>1. today \in 0..MaxDay /\ MaxDay \in Nat
    BY CalendarAssumption DEF IInv, TypeOK
  <1>2. CASE ADayPasses
    BY <1>1, <1>2 DEF ADayPasses, NextDay
  <1>3. CASE LoanStep
    <2>1. today' = today
      BY <1>3 DEF LoanStep, LoanNext, Pay, SettlePenalty, Post
    <2> QED BY <1>1, <2>1
  <1>4. CASE DepositStep
    BY <1>1, <1>4 DEF DepositStep, DepositNext, Deposit, Withdraw, PostDeposit
  <1>5. CASE StatementStep
    BY <1>1, <1>5 DEF StatementStep, StatementNext, Generate, LinkAccount,
                      RequireMemberAuth, QueryWindow, QueryFallback
  <1>6. CASE UNCHANGED vars
    BY <1>1, <1>6 DEF vars
  <1> QED BY <1>2, <1>3, <1>4, <1>5, <1>6 DEF Next

\* Each family of reports keeps its part, and the day passes for all of them.
LEMMA Inductive == IInv /\ [Next]_vars => IInv'
  <1> SUFFICES ASSUME IInv, [Next]_vars
               PROVE  IInv'
    OBVIOUS
  <1>1. today \in Nat /\ today' \in {today, today + 1} /\ today' \in 0..MaxDay
    BY Today
  <1>2. LoanTypeOK /\ DepositTypeOK /\ StatementInv
    BY DEF IInv, TypeOK, StatementInv
  <1>3. today' <= MaxDay
    BY <1>1
  <1>4. LoanTypeOK'
    <2>1. CASE LoanStep
      BY <1>1, <1>2, <2>1, LoansStep DEF LoanStep
    <2>2. CASE ~LoanStep
      <3>1. UNCHANGED loanVars
        BY <2>2 DEF Next, vars, ADayPasses, DepositStep, StatementStep
      <3> QED BY <1>1, <1>2, <3>1, LoansLast
    <2> QED BY <2>1, <2>2
  <1>5. DepositTypeOK'
    <2>1. CASE DepositStep
      BY <1>1, <1>2, <2>1, DepositsStep DEF DepositStep
    <2>2. CASE ~DepositStep
      <3>1. UNCHANGED depositVars
        BY <2>2 DEF Next, vars, ADayPasses, LoanStep, StatementStep
      <3> QED BY <1>1, <1>2, <3>1, DepositsLast
    <2> QED BY <2>1, <2>2
  <1>6. StatementInv'
    <2>1. CASE StatementStep
      BY <1>2, <2>1, StatementsStep DEF StatementStep
    <2>2. CASE ~StatementStep
      <3>1. UNCHANGED statementVars
        BY <2>2 DEF Next, vars, ADayPasses, LoanStep, DepositStep
      <3> QED BY <1>1, <1>2, <1>3, <3>1, StatementsLast
    <2> QED BY <2>1, <2>2
  <1>7. family' = family
    BY DEF Next, vars, ADayPasses, LoanStep, DepositStep, StatementStep
  <1> QED BY <1>1, <1>4, <1>5, <1>6, <1>7 DEF IInv, TypeOK, StatementInv

LEMMA Invariance == Spec => []IInv
  BY Initially, Inductive, PTL DEF Spec

LEMMA Consequences ==
    ASSUME IInv
    PROVE  /\ NextDueAgrees /\ LoanPenaltyOnce /\ PenaltyOnlyWhenBehind
           /\ ActivityReconciles /\ RecentIsCharted
           /\ ListedOpens
  <1>1. today \in Nat /\ LoanTypeOK /\ DepositTypeOK /\ StatementInv
    BY CalendarAssumption DEF IInv, TypeOK, StatementInv
  <1> QED BY <1>1, NextIsWhatIsDue, SettledOnce, PenaltyIfBehind, ChartExplainsBalance,
             RecentInChart, ListedCanBeOpened

\* The rows the core system posts keep the form the reports assume: no posting
\* is dated in the future, a balance is never negative nor above the amount lent.
THEOREM TypeCorrect == Spec => []TypeOK
  <1>1. IInv => TypeOK
    BY DEF IInv
  <1> QED BY <1>1, Invariance, PTL

\* /amortization points to an installment due by today exactly when /loans and
\* /ar show something due, for any schedule and any way of paying it.
THEOREM ReportsAgree == Spec => []NextDueAgrees
  BY Invariance, Consequences, PTL

\* /loans does not charge a settled penalty again for the same installment,
\* unless that was due the day before and the loan has no grace days.  Of /ar,
\* which asks for no settlement, this is not so.
THEOREM LoanPenaltiesOnce == Spec => []LoanPenaltyOnce
  BY Invariance, Consequences, PTL

\* A penalty is only shown to a member who was behind with the principal.
THEOREM PenaltiesJustified == Spec => []PenaltyOnlyWhenBehind
  BY Invariance, Consequences, PTL

\* The months of the chart add up to the change of the balance.
THEOREM ChartAddsUp == Spec => []ActivityReconciles
  BY Invariance, Consequences, PTL

\* No savings posting listed by /transactions is missing from the chart.
THEOREM RecentShown == Spec => []RecentIsCharted
  BY Invariance, Consequences, PTL

\* No statement of the history answers 404 to the caller it was listed for.
THEOREM LinksAlive == Spec => []ListedOpens
  BY Invariance, Consequences, PTL

\* The history leads with the newest statement that is not a projection.
THEOREM NewestShown == Spec => NewestIsListed
  <1> DEFINE past == {s \in statements : s.owner = reader'.member /\ s.cutoff <= today}
             newest(ss) == {s \in ss : \A t \in ss : s.cutoff > t.cutoff
                                            \/ (s.cutoff = t.cutoff /\ s.ctrl >= t.ctrl)}
             A == reader'.stage = "listed" => newest(reader'.entries) = newest(past)
  <1>1. ASSUME IInv, [Next]_vars
        PROVE  [A]_reader
    <2>1. SUFFICES ASSUME reader' # reader, reader'.stage = "listed"
                   PROVE  newest(reader'.entries) = newest(past)
      OBVIOUS
    <2>2. StatementNext
      BY <1>1, <2>1 DEF Next, vars, ADayPasses, LoanStep, DepositStep, StatementStep,
                        statementVars
    <2>3. today \in Nat /\ StatementInv
      BY <1>1, CalendarAssumption DEF IInv, TypeOK, StatementInv
    <2>4. Latest(reader'.entries) = Latest(PastOf(reader'.member))
      BY <2>1, <2>2, <2>3, NewestFirst
    <2> QED BY <2>4 DEF Latest, Newer, PastOf
  <1> QED BY <1>1, Invariance, PTL DEF Spec, NewestIsListed

\* A deposit never lowers the health score, a withdrawal never raises it.
THEOREM SavingHelpsHealth == Spec => SavingNeverHurts
  <1> DEFINE A == Len(postings') > Len(postings) =>
                    IF postings'[Len(postings')].amt < 0 THEN HealthScore' >= HealthScore
                    ELSE HealthScore' <= HealthScore
  <1>1. ASSUME IInv, [Next]_vars
        PROVE  [A]_<<postings, today, member>>
    <2>1. today \in Nat /\ DepositTypeOK
      BY <1>1, CalendarAssumption DEF IInv, TypeOK
    <2>2. CASE DepositStep
      <3>1. DepositNext
        BY <2>2 DEF DepositStep
      <3> QED BY <2>1, <3>1, SavingHelps
    <2>3. CASE ~DepositStep
      <3>1. postings' = postings
        BY <1>1, <2>3 DEF Next, vars, depositVars, ADayPasses, LoanStep, StatementStep
      <3>2. Len(postings) \in Nat
        BY <2>1, DepositsTyped
      <3>3. ~(Len(postings') > Len(postings))
        BY <3>1, <3>2
      <3> QED BY <3>3
    <2> QED BY <2>2, <2>3
  <1> QED BY <1>1, Invariance, PTL DEF Spec, SavingNeverHurts
=============================================================================
