--------------------------- MODULE PositionLemmas ---------------------------
(***************************************************************************)
(* Positions in a journal: the last one with a property exists, used       *)
(* wherever the code lets a session's last row decide; an enumeration of a *)
(* finite set meets each of its elements; and a recursion over the first n *)
(* numbers has a solution, of which what each step keeps can be shown up   *)
(* to n.                                                                   *)
(***************************************************************************)
EXTENDS Naturals, Sequences, FiniteSetTheorems, WellFoundedInduction, TLAPS

\* The order of the naturals is well founded.
LEMMA LessThanWellFounded ==
    IsWellFoundedOn({r \in Nat \X Nat : r[1] < r[2]}, Nat)
  BY NatLessThanWellFounded DEF OpToRel

\* A non-empty set of positions in a sequence has a greatest one.
LEMMA GreatestPosition ==
    ASSUME NEW n \in Nat, NEW S \in SUBSET (1..n), S # {}
    PROVE  \E i \in S : \A j \in S : j <= i
<1> DEFINE T == {n - i : i \in S}
           R == {r \in Nat \X Nat : r[1] < r[2]}
<1>1. T \subseteq Nat
  OBVIOUS
<1>2. T # {}
  OBVIOUS
<1>3. PICK m \in T : \A k \in T : <<k, m>> \notin R
  <2> HIDE DEF T, R
  <2>1. IsWellFoundedOn(R, Nat)
    BY LessThanWellFounded DEF R
  <2> QED BY <1>1, <1>2, <2>1, WFMin
<1>4. PICK i \in S : m = n - i
  OBVIOUS
<1>5. ASSUME NEW j \in S PROVE j <= i
  <2>1. ~(n - j < n - i)
    BY <1>1, <1>3, <1>4
  <2> QED BY <2>1
<1> QED BY <1>5

\* A non-empty set of naturals has a least one.
LEMMA LeastNatural ==
    ASSUME NEW S \in SUBSET Nat, S # {}
    PROVE  \E i \in S : \A j \in S : i <= j
<1> DEFINE R == {r \in Nat \X Nat : r[1] < r[2]}
<1>1. PICK i \in S : \A j \in S : <<j, i>> \notin R
  <2> HIDE DEF R
  <2>1. IsWellFoundedOn(R, Nat)
    BY LessThanWellFounded DEF R
  <2> QED BY <2>1, WFMin
<1>2. ASSUME NEW j \in S PROVE i <= j
  <2>1. ~(j < i)
    BY <1>1
  <2> QED BY <2>1
<1> QED BY <1>2

\* What lists a finite set without repeating itself lists all of it.
LEMMA ListingIsWhole ==
    ASSUME NEW S, IsFiniteSet(S), NEW o \in [1..Cardinality(S) -> S],
           \A i, j \in 1..Cardinality(S) : i # j => o[i] # o[j]
    PROVE  /\ o \in Seq(S) /\ Len(o) = Cardinality(S) /\ DOMAIN o = 1..Len(o)
           /\ \A x \in S : \E i \in DOMAIN o : o[i] = x
<1> DEFINE n == Cardinality(S)
<1>1. n \in Nat
  BY FS_CardinalityType
<1>2. o \in Seq(S) /\ Len(o) = n /\ DOMAIN o = 1..n
  BY <1>1
<1>3. o \in Injection(1..n, S)
  BY DEF Injection, IsInjective
<1>4. IsFiniteSet(1..n) /\ Cardinality(1..n) = n
  BY <1>1, FS_Interval
<1>5. o \in Surjection(1..n, S)
  BY <1>3, <1>4, FS_Injection
<1> QED BY <1>2, <1>5 DEF Surjection

\* In a total order of a finite set, where before[x] is what comes before x,
\* an element comes before another when fewer come before it, and each rank is taken.
LEMMA RanksAreTaken ==
    ASSUME NEW S, IsFiniteSet(S), NEW before \in [S -> SUBSET S],
           \A x \in S : x \notin before[x],
           \A x, y \in S : x \in before[y] => before[x] \subseteq before[y],
           \A x, y \in S : x # y => x \in before[y] \/ y \in before[x]
    PROVE  /\ \A x \in S : Cardinality(before[x]) \in 0..Cardinality(S) - 1
           /\ \A x, y \in S : x \in before[y] <=> Cardinality(before[x]) < Cardinality(before[y])
           /\ \A i \in 1..Cardinality(S) : \E x \in S : Cardinality(before[x]) = i - 1
<1> DEFINE n == Cardinality(S)
           Rank == [x \in S |-> Cardinality(before[x]) + 1]
<1>1. n \in Nat
  BY FS_CardinalityType
<1>2. ASSUME NEW x \in S
      PROVE  IsFiniteSet(before[x]) /\ Cardinality(before[x]) \in 0..n - 1
  <2>1. before[x] \in SUBSET (S \ {x})
    OBVIOUS
  <2>2. IsFiniteSet(S \ {x}) /\ Cardinality(S \ {x}) = n - 1
    BY FS_RemoveElement
  <2> HIDE DEF n
  <2>3. IsFiniteSet(before[x]) /\ Cardinality(before[x]) <= n - 1
    BY <2>1, <2>2, FS_Subset
  <2> QED BY <1>1, <2>3, FS_CardinalityType
<1>3. ASSUME NEW x \in S, NEW y \in S, x \in before[y]
      PROVE  Cardinality(before[x]) < Cardinality(before[y])
  <2>1. before[x] \in SUBSET before[y] /\ before[x] # before[y]
    BY <1>3
  <2>2. /\ Cardinality(before[x]) <= Cardinality(before[y])
        /\ Cardinality(before[y]) = Cardinality(before[x]) => before[y] = before[x]
    BY <1>2, <2>1, FS_Subset
  <2>3. Cardinality(before[x]) \in Int /\ Cardinality(before[y]) \in Int
    BY <1>2, FS_CardinalityType
  <2> QED BY <2>1, <2>2, <2>3
<1>4. ASSUME NEW x \in S, NEW y \in S, Cardinality(before[x]) < Cardinality(before[y])
      PROVE  x \in before[y]
  <2>1. Cardinality(before[x]) \in Int /\ Cardinality(before[y]) \in Int
    BY <1>2, FS_CardinalityType
  <2>2. x # y /\ ~(Cardinality(before[y]) < Cardinality(before[x]))
    BY <1>4, <2>1
  <2>3. ~(y \in before[x])
    BY <1>3, <2>2
  <2> QED BY <2>2, <2>3
<1>5. /\ \A x \in S : Rank[x] = Cardinality(before[x]) + 1 /\ Rank[x] \in 1..n
      /\ \A x, y \in S : x # y => Rank[x] # Rank[y]
  <2>1. \A x \in S : Rank[x] = Cardinality(before[x]) + 1 /\ Cardinality(before[x]) \in Int
    BY <1>2, FS_CardinalityType
  <2>2. \A x \in S : Rank[x] \in 1..n
    BY <1>1, <1>2, <2>1
  <2>3. ASSUME NEW x \in S, NEW y \in S, x # y PROVE Rank[x] # Rank[y]
    <3>1. x \in before[y] \/ y \in before[x]
      BY <2>3
    <3>2. Cardinality(before[x]) < Cardinality(before[y]) \/ Cardinality(before[y]) < Cardinality(before[x])
      BY <1>3, <3>1
    <3> QED BY <2>1, <3>2
  <2> QED BY <2>1, <2>2, <2>3
<1>6. \A i \in 1..n : \E x \in S : Rank[x] = i
  <2>1. Rank \in [S -> 1..n]
    BY <1>5
  <2>2. Rank \in Injection(S, 1..n)
    BY <1>5, <2>1 DEF Injection, IsInjective
  <2>3. IsFiniteSet(1..n) /\ Cardinality(1..n) = n
    BY <1>1, FS_Interval
  <2> HIDE DEF Rank
  <2>4. Rank \in Surjection(S, 1..n)
    BY <2>2, <2>3, FS_Injection
  <2> QED BY <2>4 DEF Surjection
<1>7. ASSUME NEW i \in 1..n PROVE \E x \in S : Cardinality(before[x]) = i - 1
  <2>1. PICK x \in S : Rank[x] = i
    BY <1>6
  <2>2. Cardinality(before[x]) = i - 1
    BY <1>2, <1>5, <2>1
  <2> QED BY <2>2
<1> QED BY <1>2, <1>3, <1>4, <1>7

\* A listing by rank is a sequence of the whole set in its order.
LEMMA RankingLists ==
    ASSUME NEW S, IsFiniteSet(S), NEW before \in [S -> SUBSET S],
           \A x \in S : Cardinality(before[x]) \in 0..Cardinality(S) - 1,
           \A x, y \in S : x \in before[y] <=> Cardinality(before[x]) < Cardinality(before[y]),
           \A x, y \in S : x # y => x \in before[y] \/ y \in before[x],
           NEW f \in [1..Cardinality(S) -> S],
           \A i \in 1..Cardinality(S) : Cardinality(before[f[i]]) = i - 1
    PROVE  /\ f \in Seq(S) /\ Len(f) = Cardinality(S) /\ DOMAIN f = 1..Len(f) /\ Len(f) \in Nat
           /\ \A x \in S : \E i \in DOMAIN f : f[i] = x
           /\ \A i, j \in DOMAIN f : i < j => f[i] \in before[f[j]]
<1> DEFINE n == Cardinality(S)
<1>1. n \in Nat
  BY FS_CardinalityType
<1>2. f \in Seq(S) /\ Len(f) = n /\ DOMAIN f = 1..n
  BY <1>1
<1>3. ASSUME NEW x \in S PROVE \E i \in 1..n : f[i] = x
  <2> DEFINE i == Cardinality(before[x]) + 1
  <2>1. i \in 1..n /\ Cardinality(before[x]) \in Int
    BY <1>1
  <2>2. f[i] \in S /\ Cardinality(before[f[i]]) = Cardinality(before[x])
    BY <2>1
  <2>3. f[i] = x
    BY <2>1, <2>2
  <2> QED BY <2>1, <2>3
<1>4. ASSUME NEW i \in 1..n, NEW j \in 1..n, i < j PROVE f[i] \in before[f[j]]
  BY <1>1, <1>4
<1> QED BY <1>1, <1>2, <1>3, <1>4

\* The first elements of a sequence.
LEMMA FrontIsKept ==
    ASSUME NEW S, NEW s \in Seq(S), NEW k \in Nat, k <= Len(s)
    PROVE  LET front == SubSeq(s, 1, k) IN
           /\ front \in Seq(S) /\ DOMAIN front = 1..k /\ Len(front) = k
           /\ \A i \in 1..k : front[i] = s[i] /\ s[i] \in S
  OBVIOUS

\* What holds of 0, and with a number of the next, holds up to n.
LEMMA UpToInduction ==
    ASSUME NEW n \in Nat, NEW S \in SUBSET Nat, 0 \in S,
           \A k \in S : k < n => k + 1 \in S
    PROVE  0..n \subseteq S
<1> DEFINE T == (0..n) \ S
<1> SUFFICES ASSUME T # {} PROVE FALSE
  OBVIOUS
<1>1. T \in SUBSET Nat
  OBVIOUS
<1>2. PICK i \in T : \A j \in T : i <= j
  BY <1>1, LeastNatural
<1>3. i \in Nat /\ i # 0 /\ i <= n /\ i \notin S
  OBVIOUS
<1>4. i - 1 \in S
  BY <1>2, <1>3
<1> QED BY <1>3, <1>4

\* A recursion over the first n numbers has a solution, of the type its
\* steps have.
Recurs(f, n, base, step) == f[0] = base /\ \A k \in 1..n : f[k] = step[<<f[k - 1], k>>]
LEMMA RecursionExists ==
    ASSUME NEW V, NEW base \in V, NEW n \in Nat, NEW step \in [V \X (1..n) -> V]
    PROVE  \E f \in [0..n -> V] : Recurs(f, n, base, step)
<1> DEFINE Upto(k, f) == f[0] = base /\ \A i \in 1..k : f[i] = step[<<f[i - 1], i>>]
           Good == {k \in 0..n : \E f \in [0..k -> V] : Upto(k, f)}
<1>1. 0 \in Good
  <2> DEFINE f == [i \in 0..0 |-> base]
  <2>1. f \in [0..0 -> V] /\ Upto(0, f)
    OBVIOUS
  <2> HIDE DEF f, Upto
  <2> QED BY <2>1
<1>2. ASSUME NEW k \in Good, k < n PROVE k + 1 \in Good
  <2>1. k \in Nat /\ k + 1 \in 0..n /\ k + 1 \in 1..n
    <3>1. k \in 0..n
      BY DEF Good
    <3> HIDE DEF Good
    <3> QED BY <1>2, <3>1
  <2>2. PICK f \in [0..k -> V] : Upto(k, f)
    <3> HIDE DEF Upto
    <3> QED OBVIOUS
  <2> HIDE DEF Good
  <2> DEFINE g == [i \in 0..(k + 1) |-> IF i = k + 1 THEN step[<<f[k], k + 1>>] ELSE f[i]]
  <2>3. g[k + 1] = step[<<f[k], k + 1>>] /\ \A i \in 0..k : g[i] = f[i]
    BY <2>1
  <2>4. step[<<f[k], k + 1>>] \in V
    <3>1. f[k] \in V
      BY <2>1
    <3> QED BY <2>1, <3>1
  <2>5. g \in [0..(k + 1) -> V]
    BY <2>1, <2>4
  <2> HIDE DEF g
  <2>6. g[0] = base
    BY <2>1, <2>2, <2>3
  <2>7. ASSUME NEW i \in 1..(k + 1) PROVE g[i] = step[<<g[i - 1], i>>]
    <3>1. CASE i = k + 1
      BY <2>1, <2>3, <3>1
    <3>2. CASE i # k + 1
      <4>1. i \in 1..k /\ i \in 0..k /\ i - 1 \in 0..k
        BY <2>1, <3>2
      <4> QED BY <2>2, <2>3, <4>1
    <3> QED BY <3>1, <3>2
  <2> QED BY <2>1, <2>5, <2>6, <2>7 DEF Good
<1>3. 0..n \subseteq Good
  <2> HIDE DEF Good
  <2>1. Good \in SUBSET Nat
    BY DEF Good
  <2> QED BY <1>1, <1>2, <2>1, UpToInduction
<1>4. n \in Good
  <2> HIDE DEF Good
  <2> QED BY <1>3
<1> QED BY <1>4 DEF Recurs

=============================================================================
