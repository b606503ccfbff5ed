--------------------------- MODULE NaturalRecursion ---------------------------
(***************************************************************************)
(* Induction over the natural numbers for sets in place of properties, the *)
(* functions that recursion defines, and the ranks of the members of a     *)
(* finite set: what the proofs about recursive functions and sorted lists  *)
(* rest on.                                                                *)
(***************************************************************************)
EXTENDS Integers, FiniteSetTheorems, WellFoundedInduction, TLAPS

\* The least number principle, from the order of the natural numbers being
\* well founded.
LEMMA Smallest ==
  ASSUME NEW S \in SUBSET Nat, S # {}
  PROVE  \E n \in S : \A m \in S : n <= m
<1> DEFINE R == OpToRel(<, Nat)
<1>1. IsWellFoundedOn(R, Nat)
  BY NatLessThanWellFounded
<1>2. \A m, n \in Nat : m < n => <<m, n>> \in R
  BY DEF OpToRel
<1> HIDE DEF R
<1>3. PICK n \in S : \A m \in S : ~(<<m, n>> \in R)
  BY ONLY <1>1, S \in SUBSET Nat, S # {}, WFMin
<1>4. \A m \in S : n <= m
  <2> TAKE m \in S
  <2>1. m \in Nat /\ n \in Nat
    OBVIOUS
  <2>2. ~(m < n)
    BY <1>2, <1>3, <2>1
  <2> QED
    BY <2>1, <2>2
<1> QED
  BY <1>4

\* Induction up to a bound, for a set in place of a property.
LEMMA Induction ==
  ASSUME NEW N \in Nat, NEW S, 0 \in S, \A n \in 0 .. N - 1 : n \in S => n + 1 \in S
  PROVE  0 .. N \subseteq S
<1> DEFINE T == {n \in 0 .. N : n \notin S}
<1> SUFFICES ASSUME T # {} PROVE FALSE
  OBVIOUS
<1>1. T \in SUBSET Nat
  OBVIOUS
<1>2. PICK n \in T : \A m \in T : n <= m
  BY <1>1, Smallest
<1>3. n \in 1 .. N /\ n \notin S
  BY <1>2
<1>4. n - 1 \in 0 .. N - 1 /\ n - 1 \notin T /\ (n - 1) + 1 = n
  BY <1>2, <1>3
<1>5. n - 1 \in S
  BY <1>4
<1> QED
  BY <1>3, <1>4, <1>5

\* There is a function with some value at 0 and some step.
Defines(N, S, b, step) ==
  \E f \in [0 .. N -> S] : f[0] = b /\ \A i \in 1 .. N : f[i] = step[<<i, f[i - 1]>>]

LEMMA Recursion ==
  ASSUME NEW N, NEW S, NEW b, NEW step, N \in Nat, b \in S, step \in [(1 .. N) \X S -> S]
  PROVE  Defines(N, S, b, step)
<1> DEFINE Begins(f, n) == f[0] = b /\ \A i \in 1 .. n : f[i] = step[<<i, f[i - 1]>>]
           T == {n \in 0 .. N : \E f \in [0 .. n -> S] : Begins(f, n)}
<1>1. 0 \in T
  <2> DEFINE f == [i \in 0 .. 0 |-> b]
  <2>1. f \in [0 .. 0 -> S] /\ Begins(f, 0) /\ 0 \in 0 .. N
    OBVIOUS
  <2> HIDE DEF f, Begins
  <2> QED
    BY <2>1
<1>2. ASSUME NEW n \in 0 .. N - 1, n \in T PROVE n + 1 \in T
  <2>1. PICK f \in [0 .. n -> S] : Begins(f, n)
    BY <1>2
  <2> DEFINE g == [i \in 0 .. n + 1 |-> IF i = n + 1 THEN step[<<n + 1, f[n]>>] ELSE f[i]]
  <2>2. n \in Nat /\ n + 1 \in 1 .. N /\ n \in 0 .. n
    OBVIOUS
  <2>3. step[<<n + 1, f[n]>>] \in S
    <3>1. <<n + 1, f[n]>> \in (1 .. N) \X S
      BY <2>2
    <3> QED
      BY <3>1
  <2>4. g \in [0 .. n + 1 -> S]
    BY <2>2, <2>3
  <2>5. g[0] = b
    BY <2>1, <2>2
  <2>6. ASSUME NEW i \in 1 .. n + 1 PROVE g[i] = step[<<i, g[i - 1]>>]
    <3>1. CASE i = n + 1
      <4>1. g[i] = step[<<i, f[n]>>] /\ g[i - 1] = f[n]
        BY <2>2, <3>1
      <4> QED
        BY <4>1
    <3>2. CASE i # n + 1
      <4>1. i \in 1 .. n /\ g[i] = f[i] /\ g[i - 1] = f[i - 1]
        BY <2>2, <3>2
      <4>2. f[i] = step[<<i, f[i - 1]>>]
        BY <2>1, <4>1
      <4> QED
        BY <4>1, <4>2
    <3> QED
      BY <3>1, <3>2
  <2> HIDE DEF g
  <2>7. Begins(g, n + 1)
    BY <2>5, <2>6
  <2> HIDE DEF Begins
  <2> QED
    BY <2>2, <2>4, <2>7
<1>3. 0 .. N \subseteq T
  <2> HIDE DEF T
  <2> QED
    BY <1>1, <1>2, Induction
<1>4. N \in T
  BY <1>3
<1> QED
  BY <1>4 DEF Defines

\* The same if each step has a set of values of its own.
DefinesIn(N, S, b, step) ==
  \E f : /\ DOMAIN f = 0 .. N /\ f = [i \in 0 .. N |-> f[i]] /\ f[0] = b
         /\ \A i \in 1 .. N : f[i] = step[<<i, f[i - 1]>>]
         /\ \A i \in 0 .. N : f[i] \in S[i]

Steps(N, S, step) == \A i \in 1 .. N : \A x \in S[i - 1] : step[<<i, x>>] \in S[i]

LEMMA DependentRecursion ==
  ASSUME NEW N, NEW S, NEW b, NEW step, N \in Nat, b \in S[0], Steps(N, S, step)
  PROVE  DefinesIn(N, S, b, step)
<1> DEFINE U == UNION {S[i] : i \in 0 .. N}
           total == [a \in (1 .. N) \X U |-> IF a[2] \in S[a[1] - 1] THEN step[a] ELSE b]
<1>1. b \in U
  OBVIOUS
<1>2. total \in [(1 .. N) \X U -> U]
  <2> SUFFICES ASSUME NEW a \in (1 .. N) \X U PROVE total[a] \in U
    OBVIOUS
  <2>1. a[1] \in 1 .. N /\ a = <<a[1], a[2]>>
    OBVIOUS
  <2>2. CASE a[2] \in S[a[1] - 1]
    <3>1. step[a] \in S[a[1]]
      BY <2>1, <2>2 DEF Steps
    <3>2. a[1] \in 0 .. N /\ total[a] = step[a]
      BY <2>1, <2>2
    <3> QED
      BY <3>1, <3>2
  <2>3. CASE a[2] \notin S[a[1] - 1]
    BY <1>1, <2>3
  <2> QED
    BY <2>2, <2>3
<1>3. \A i \in 1 .. N : \A x \in S[i - 1] : total[<<i, x>>] = step[<<i, x>>]
  <2> TAKE i \in 1 .. N
  <2> TAKE x \in S[i - 1]
  <2>1. i - 1 \in 0 .. N
    OBVIOUS
  <2>2. <<i, x>> \in (1 .. N) \X U
    BY <2>1
  <2> QED
    BY <2>2
<1> HIDE DEF U, total
<1>4. Defines(N, U, b, total)
  BY ONLY <1>1, <1>2, N \in Nat, Recursion
<1>5. PICK f \in [0 .. N -> U] : f[0] = b /\ \A i \in 1 .. N : f[i] = total[<<i, f[i - 1]>>]
  BY <1>4 DEF Defines
<1> DEFINE T == {n \in 0 .. N : f[n] \in S[n]}
<1>6. 0 \in T
  BY <1>5
<1>7. ASSUME NEW n \in 0 .. N - 1, n \in T PROVE n + 1 \in T
  <2>1. n + 1 \in 1 .. N /\ (n + 1) - 1 = n /\ f[n] \in S[n]
    BY <1>7
  <2>2. f[n + 1] = step[<<n + 1, f[n]>>]
    BY <1>3, <1>5, <2>1
  <2>3. step[<<n + 1, f[n]>>] \in S[n + 1]
    BY <2>1 DEF Steps
  <2> QED
    BY <2>1, <2>2, <2>3
<1>8. 0 .. N \subseteq T
  <2> HIDE DEF T
  <2> QED
    BY <1>6, <1>7, Induction
<1>9. \A i \in 0 .. N : f[i] \in S[i]
  BY <1>8
<1>10. \A i \in 1 .. N : f[i] = step[<<i, f[i - 1]>>]
  <2> TAKE i \in 1 .. N
  <2>1. i - 1 \in 0 .. N
    OBVIOUS
  <2> QED
    BY <1>3, <1>5, <1>9, <2>1
<1>11. DOMAIN f = 0 .. N /\ f = [i \in 0 .. N |-> f[i]] /\ f[0] = b
  BY <1>5
<1> QED
  BY <1>9, <1>10, <1>11 DEF DefinesIn

----------------------------------------------------------------------------
(* Finite sets.                                                            *)

\* Values that are all different are as many as their numbers.
LEMMA Counted ==
  ASSUME NEW n \in Nat, NEW f, \A i, j \in 1 .. n : f[i] = f[j] => i = j,
         NEW S, \A i \in 1 .. n : f[i] \in S, \A s \in S : \E i \in 1 .. n : f[i] = s
  PROVE  IsFiniteSet(S) /\ Cardinality(S) = n
<1> DEFINE g == [i \in 1 .. n |-> f[i]]
<1>1. IsFiniteSet(1 .. n) /\ Cardinality(1 .. n) = n
  <2>1. IsFiniteSet(1 .. n) /\ Cardinality(1 .. n) = IF 1 > n THEN 0 ELSE n - 1 + 1
    BY FS_Interval
  <2> QED
    BY <2>1
<1>2. g \in Surjection(1 .. n, S)
  BY DEF Surjection
<1>3. g \in Injection(1 .. n, S)
  BY DEF Injection, IsInjective
<1> HIDE DEF g
<1>4. IsFiniteSet(S) /\ Cardinality(S) = Cardinality(1 .. n)
  BY <1>1, <1>2, <1>3, FS_Surjection
<1> QED
  BY <1>1, <1>4

\* The number of members before one of a set.
Rank(K, place, k) == Cardinality({l \in K : place[l] < place[k]})

\* In a finite set each rank is that of one member.
LEMMA Ranks ==
  ASSUME NEW K, IsFiniteSet(K), NEW place, \A k \in K : place[k] \in Int,
         \A k, l \in K : place[k] = place[l] => k = l
  PROVE  /\ Cardinality(K) \in Nat
         /\ \A k \in K : Rank(K, place, k) \in 0 .. Cardinality(K) - 1
         /\ \A k, l \in K : Rank(K, place, k) = Rank(K, place, l) => k = l
         /\ \A r \in 0 .. Cardinality(K) - 1 : \E k \in K : Rank(K, place, k) = r
<1> DEFINE Behind(k) == {l \in K : place[l] < place[k]}
           n == Cardinality(K)
           rank == [k \in K |-> Rank(K, place, k)]
<1>1. n \in Nat
  BY FS_CardinalityType
<1>2. ASSUME NEW k \in K
      PROVE  IsFiniteSet(Behind(k)) /\ Rank(K, place, k) \in 0 .. n - 1
  <2>1. Behind(k) \in SUBSET K
    OBVIOUS
  <2>2. k \notin Behind(k)
    OBVIOUS
  <2> DEFINE B == Behind(k)
  <2>3. Rank(K, place, k) = Cardinality(B)
    BY DEF Rank
  <2> HIDE DEF B
  <2>4. B \in SUBSET K /\ B # K
    BY <2>1, <2>2 DEF B
  <2>5. IsFiniteSet(B) /\ Cardinality(B) <= n /\ (n = Cardinality(B) => K = B)
    BY ONLY <2>4, IsFiniteSet(K), FS_Subset
  <2>6. Cardinality(B) \in Nat
    BY <2>5, FS_CardinalityType
  <2>7. Cardinality(B) \in 0 .. n - 1
    <3>1. Cardinality(B) # n
      BY <2>4, <2>5
    <3> HIDE DEF n
    <3> QED
      BY <1>1, <2>5, <2>6, <3>1
  <2> QED
    BY <2>3, <2>5, <2>7 DEF B
<1>3. ASSUME NEW k \in K, NEW l \in K, place[k] < place[l] PROVE Rank(K, place, k) < Rank(K, place, l)
  <2> DEFINE B == Behind(k)
             C == Behind(l)
  <2>1. B \in SUBSET C /\ k \in C /\ k \notin B
    BY <1>3
  <2>2. IsFiniteSet(B) /\ IsFiniteSet(C)
    BY <1>2
  <2>3. Rank(K, place, k) = Cardinality(B) /\ Rank(K, place, l) = Cardinality(C)
    BY DEF Rank
  <2> HIDE DEF B, C
  <2>4. Cardinality(B) <= Cardinality(C) /\ (Cardinality(C) = Cardinality(B) => C = B)
    BY ONLY <2>1, <2>2, FS_Subset
  <2>5. Cardinality(B) \in Nat /\ Cardinality(C) \in Nat
    BY <2>2, FS_CardinalityType
  <2>6. Cardinality(B) # Cardinality(C)
    BY <2>1, <2>4
  <2> QED
    BY <2>3, <2>4, <2>5, <2>6
<1>4. ASSUME NEW k \in K, NEW l \in K, Rank(K, place, k) = Rank(K, place, l) PROVE k = l
  <2> DEFINE m == Rank(K, place, k)
             o == Rank(K, place, l)
  <2>1. m \in Int /\ o \in Int
    <3>1. m \in 0 .. n - 1 /\ o \in 0 .. n - 1
      BY <1>2
    <3> HIDE DEF m, n, o
    <3> QED
      BY <1>1, <3>1
  <2>2. ~(place[k] < place[l]) /\ ~(place[l] < place[k])
    BY <1>3, <1>4, <2>1
  <2>3. place[k] = place[l]
    BY <2>2
  <2> QED
    BY <2>3
<1>5. rank \in Injection(K, 0 .. n - 1)
  <2>1. rank \in [K -> 0 .. n - 1]
    BY <1>2
  <2>2. \A k, l \in K : rank[k] = rank[l] => k = l
    BY <1>4
  <2> HIDE DEF rank
  <2> QED
    BY <2>1, <2>2 DEF Injection, IsInjective
<1>6. IsFiniteSet(0 .. n - 1) /\ Cardinality(0 .. n - 1) = n
  <2> HIDE DEF n
  <2>1. 0 \in Int /\ n - 1 \in Int
    BY <1>1
  <2>2. IsFiniteSet(0 .. n - 1) /\ Cardinality(0 .. n - 1) = IF 0 > n - 1 THEN 0 ELSE (n - 1) - 0 + 1
    BY <2>1, FS_Interval
  <2> QED
    BY <1>1, <2>2
<1>7. rank \in Surjection(K, 0 .. n - 1)
  <2> HIDE DEF rank
  <2> QED
    BY <1>5, <1>6, FS_Injection
<1>8. \A r \in 0 .. n - 1 : \E k \in K : rank[k] = r
  <2> HIDE DEF rank
  <2> QED
    BY <1>7 DEF Surjection
<1> QED
  BY <1>1, <1>2, <1>4, <1>8
=============================================================================
