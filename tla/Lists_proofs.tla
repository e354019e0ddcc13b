---------------------------- MODULE Lists_proofs ----------------------------
(***************************************************************************)
(* Facts about numbers, sums and lists that the proofs of several          *)
(* components rest on.                                                     *)
(***************************************************************************)
EXTENDS Lists, SequencesExt, FiniteSetTheorems, SequenceTheorems, WellFoundedInduction, TLAPS

(* A set of numbers that is not empty has a least one: what induction comes *)
(* down to below.                                                           *)
LEMMA LeastExists ==
  ASSUME NEW S \in SUBSET Nat, S # {}
  PROVE  \E x \in S : \A y \in S : x <= y
<1> DEFINE R == {ss \in Nat \X Nat : ss[1] < ss[2]}
<1>1. IsWellFoundedOn(R, Nat)
  BY NatLessThanWellFounded DEF OpToRel
<1> HIDE DEF R
<1>2. PICK x \in S : \A y \in S : ~ (<<y, x>> \in R)
  BY <1>1, WFMin
<1>3. \A y \in S : ~ (y < x)
  BY <1>2 DEF R
<1> QED
  BY <1>3

(* The library's Min and Max, of sets that have them.                       *)
LEMMA MinIsIn ==
  ASSUME NEW S \in SUBSET Nat, S # {}
  PROVE  Min(S) \in S /\ \A y \in S : Min(S) <= y
<1>1. PICK x \in S : \A y \in S : x <= y
  BY LeastExists
<1> QED
  BY <1>1 DEF Min

LEMMA MaxIsIn ==
  ASSUME NEW n \in Nat, NEW S \in SUBSET (0..n), S # {}
  PROVE  Max(S) \in S /\ \A y \in S : y <= Max(S)
<1> DEFINE T == {m \in Nat : n - m \in S}
<1>1. \A y \in S : y \in Nat /\ n - y \in T
  OBVIOUS
<1>2. T \in SUBSET Nat /\ T # {}
  BY <1>1
<1>3. PICK m \in T : \A k \in T : m <= k
  <2> HIDE DEF T
  <2> QED
    BY <1>2, LeastExists
<1>4. n - m \in S /\ \A y \in S : y <= n - m
  BY <1>1, <1>3
<1>5. \E x \in S : \A y \in S : x >= y
  BY <1>1, <1>4
<1> HIDE DEF T
<1> QED
  BY <1>1, <1>4, <1>5 DEF Max

-----------------------------------------------------------------------------
(* Sums over a set.                                                         *)

(* The recursion that SumFunctionOnSet makes: g is the sum of f over every  *)
(* subset of S.                                                             *)
Some(s) == CHOOSE x \in s : TRUE

Sums(f, S, g) ==
    g = [s \in SUBSET S |-> IF s = {} THEN 0 ELSE f[Some(s)] + g[s \ {Some(s)}]]

TheSums(f, S) == CHOOSE g : Sums(f, S, g)

LEMMA SumIs ==
  ASSUME NEW f, NEW S
  PROVE  SumFunctionOnSet(f, S) = TheSums(f, S)[S]
  BY DEF SumFunctionOnSet, FoldFunctionOnSet, MapThenFoldSet, TheSums, Sums, Some

LEMMA SomeIsIn ==
  ASSUME NEW s, s # {}
  PROVE  Some(s) \in s
  BY DEF Some

(* Sets a part of which has been taken are smaller.                         *)
LEMMA Smaller ==
  ASSUME NEW S, IsFiniteSet(S), NEW s \in SUBSET S
  PROVE  /\ IsFiniteSet(s) /\ Cardinality(s) \in Nat /\ Cardinality(s) <= Cardinality(S)
         /\ \A x \in s : s \ {x} \in SUBSET S /\ Cardinality(s \ {x}) = Cardinality(s) - 1
         /\ Cardinality(s) = 0 <=> s = {}
<1>1. IsFiniteSet(s) /\ Cardinality(s) <= Cardinality(S)
  BY FS_Subset
<1>2. Cardinality(s) \in Nat /\ (Cardinality(s) = 0 <=> s = {})
  BY <1>1, FS_CardinalityType, FS_EmptySet
<1>3. \A x \in s : Cardinality(s \ {x}) = Cardinality(s) - 1
  BY <1>1, FS_RemoveElement
<1> QED
  BY <1>1, <1>2, <1>3

(* There are such sums: those of the sets of up to n members give those of  *)
(* n + 1.                                                                   *)
LEMMA SumsExist ==
  ASSUME NEW f, NEW S, IsFiniteSet(S)
  PROVE  Sums(f, S, TheSums(f, S))
<1> DEFINE Rule(g, s) == g[s] = IF s = {} THEN 0 ELSE f[Some(s)] + g[s \ {Some(s)}]
           Upto(g, n) == \A s \in SUBSET S : Cardinality(s) <= n => Rule(g, s)
           Bad == {n \in Nat : ~ \E g : Upto(g, n)}
<1>1. Bad = {}
  <2> SUFFICES ASSUME Bad # {} PROVE FALSE
    OBVIOUS
  <2>1. PICK n \in Bad : \A m \in Bad : n <= m
    <3>1. Bad \in SUBSET Nat
      OBVIOUS
    <3> HIDE DEF Bad
    <3> QED
      BY <3>1, LeastExists
  <2>2. n # 0
    <3> DEFINE zero == [s \in SUBSET S |-> 0]
    <3>1. Upto(zero, 0)
      BY Smaller
    <3> QED
      BY <3>1
  <2>3. PICK g : Upto(g, n - 1)
    <3>1. n - 1 \in Nat /\ ~(n <= n - 1) /\ n \in Nat
      BY <2>1, <2>2
    <3>2. n - 1 \notin Bad
      <4> HIDE DEF Bad
      <4> QED
        BY <2>1, <3>1
    <3> HIDE DEF Upto
    <3> QED
      BY <3>1, <3>2
  <2> DEFINE h == [s \in SUBSET S |-> IF Cardinality(s) <= n - 1 THEN g[s]
                                      ELSE f[Some(s)] + g[s \ {Some(s)}]]
  <2>4. ASSUME NEW s \in SUBSET S, Cardinality(s) <= n
        PROVE  Rule(h, s)
    <3>1. CASE s = {}
      <4>1. Cardinality(s) <= n - 1
        BY <2>1, <2>2, <3>1, Smaller
      <4> QED
        BY <2>3, <3>1, <4>1
    <3>2. CASE s # {}
      <4> DEFINE r == s \ {Some(s)}
      <4>1. r \in SUBSET S /\ Cardinality(r) = Cardinality(s) - 1 /\ Cardinality(s) \in Nat
        BY <3>2, Smaller, SomeIsIn
      <4>2. Cardinality(r) <= n - 1
        BY <2>1, <2>4, <4>1
      <4>3. h[r] = g[r]
        BY <4>1, <4>2
      <4>4. h[s] = f[Some(s)] + g[r]
        <5>1. CASE Cardinality(s) <= n - 1
          BY <2>3, <3>2, <5>1
        <5>2. CASE ~(Cardinality(s) <= n - 1)
          BY <5>2
        <5> QED
          BY <5>1, <5>2
      <4> QED
        BY <3>2, <4>3, <4>4
    <3> QED
      BY <3>1, <3>2
  <2>5. Upto(h, n)
    BY <2>4
  <2> QED
    BY <2>1, <2>5
<1>2. PICK g : Upto(g, Cardinality(S))
  <2>1. Cardinality(S) \in Nat
    BY FS_CardinalityType
  <2> HIDE DEF Upto
  <2> QED
    BY <1>1, <2>1
<1> DEFINE h == [s \in SUBSET S |-> g[s]]
<1>3. ASSUME NEW s \in SUBSET S PROVE Rule(h, s)
  <2>1. Rule(g, s)
    BY <1>2, Smaller
  <2>2. s # {} => s \ {Some(s)} \in SUBSET S
    OBVIOUS
  <2> QED
    BY <2>1, <2>2
<1>4. Sums(f, S, h)
  BY <1>3 DEF Sums
<1> HIDE DEF h
<1> QED
  BY <1>4 DEF TheSums

Natural(f, S) == \A x \in S : f[x] \in Nat

(* A sum of naturals is one, and what is taken last does not matter: the    *)
(* set with the fewest members for which it would is not empty, and the     *)
(* member that its sum takes first can be taken from both sides.            *)
LEMMA SumsAreNatural ==
  ASSUME NEW f, NEW S, IsFiniteSet(S), Natural(f, S), NEW g, Sums(f, S, g)
  PROVE  \A s \in SUBSET S : g[s] \in Nat
<1> DEFINE Bad == {n \in Nat : \E s \in SUBSET S : Cardinality(s) = n /\ ~(g[s] \in Nat)}
<1> SUFFICES ASSUME NEW t \in SUBSET S, ~(g[t] \in Nat) PROVE FALSE
  OBVIOUS
<1>1. Cardinality(t) \in Bad
  BY Smaller
<1>2. PICK n \in Bad : \A m \in Bad : n <= m
  <2>1. Bad \in SUBSET Nat
    OBVIOUS
  <2> HIDE DEF Bad
  <2> QED
    BY <1>1, <2>1, LeastExists
<1>3. PICK s \in SUBSET S : Cardinality(s) = n /\ ~(g[s] \in Nat)
  BY <1>2
<1>4. g[s] = IF s = {} THEN 0 ELSE f[Some(s)] + g[s \ {Some(s)}]
  BY DEF Sums
<1>5. s # {} /\ Some(s) \in s
  BY <1>3, <1>4, SomeIsIn
<1> DEFINE r == s \ {Some(s)}
<1>6. r \in SUBSET S /\ Cardinality(r) = n - 1 /\ n - 1 \in Nat /\ ~(n <= n - 1)
  BY <1>3, <1>5, Smaller
<1>7. g[r] \in Nat
  BY <1>2, <1>6
<1> QED
  BY <1>3, <1>4, <1>5, <1>7 DEF Natural

LEMMA SumsInsert ==
  ASSUME NEW f, NEW S, IsFiniteSet(S), Natural(f, S), NEW g, Sums(f, S, g)
  PROVE  \A s \in SUBSET S : \A x \in S \ s : g[s \cup {x}] = g[s] + f[x]
<1> DEFINE Wrong(s, x) == ~(g[s \cup {x}] = g[s] + f[x])
           Bad == {n \in Nat : \E s \in SUBSET S : Cardinality(s) = n /\ \E x \in S \ s : Wrong(s, x)}
<1> SUFFICES ASSUME NEW t \in SUBSET S, NEW y \in S \ t, Wrong(t, y) PROVE FALSE
  OBVIOUS
<1>1. Cardinality(t) \in Bad
  BY Smaller
<1>2. PICK n \in Bad : \A m \in Bad : n <= m
  <2>1. Bad \in SUBSET Nat
    OBVIOUS
  <2> HIDE DEF Bad
  <2> QED
    BY <1>1, <2>1, LeastExists
<1>3. PICK s \in SUBSET S : Cardinality(s) = n /\ \E x \in S \ s : Wrong(s, x)
  BY <1>2
<1>4. PICK x \in S \ s : Wrong(s, x)
  BY <1>3
<1> DEFINE u == s \cup {x}
           p == Some(u)
<1>5. p \in u /\ u \in SUBSET S /\ u # {}
  BY SomeIsIn
<1>6. g[u] = f[p] + g[u \ {p}]
  BY <1>5 DEF Sums
<1>7. CASE p = x
  <2>1. u \ {p} = s
    BY <1>7
  <2>2. g[s] \in Nat /\ f[x] \in Nat
    BY SumsAreNatural DEF Natural
  <2> HIDE DEF u, p
  <2>3. g[u] = f[x] + g[s]
    BY <1>6, <1>7, <2>1
  <2>4. f[x] + g[s] = g[s] + f[x]
    BY <2>2
  <2> QED
    BY <1>4, <2>3, <2>4 DEF u
<1>8. CASE p # x
  <2> DEFINE r == s \ {p}
  <2>1. p \in s /\ p \notin r /\ x \notin r /\ p \in S
    BY <1>5, <1>8
  <2>2. r \in SUBSET S /\ Cardinality(r) = n - 1 /\ n - 1 \in Nat /\ ~(n <= n - 1)
    <3> HIDE DEF p
    <3>1. r \in SUBSET S /\ Cardinality(r) = n - 1 /\ Cardinality(r) \in Nat /\ n \in Nat
      BY <1>3, <2>1, Smaller
    <3> QED
      BY <3>1
  <2>3. ~ \E z \in S \ r : Wrong(r, z)
    <3> HIDE DEF Wrong
    <3> QED
      BY <1>2, <2>2
  <2>4. g[r \cup {x}] = g[r] + f[x] /\ g[r \cup {p}] = g[r] + f[p]
    BY <2>1, <2>3
  <2>5. u \ {p} = r \cup {x} /\ r \cup {p} = s
    BY <1>8, <2>1
  <2>6. g[r] \in Nat /\ f[x] \in Nat /\ f[p] \in Nat
    BY <2>1, <2>2, SumsAreNatural DEF Natural
  <2> HIDE DEF u, p, r
  <2>7. g[u] = f[p] + (g[r] + f[x]) /\ g[s] = g[r] + f[p]
    BY <1>6, <2>4, <2>5
  <2>8. f[p] + (g[r] + f[x]) = (g[r] + f[p]) + f[x]
    BY <2>6
  <2> QED
    BY <1>4, <2>7, <2>8 DEF u
<1> QED
  BY <1>7, <1>8

(* The sum over a set does not depend on what surrounds the set, nor on     *)
(* what the function is elsewhere.                                          *)
LEMMA SumsAgree ==
  ASSUME NEW f, NEW S, IsFiniteSet(S), NEW g, Sums(f, S, g),
         NEW e, NEW T \in SUBSET S, NEW h, Sums(e, T, h), \A x \in T : e[x] = f[x]
  PROVE  h[T] = g[T]
<1> DEFINE Bad == {n \in Nat : \E s \in SUBSET T : Cardinality(s) = n /\ h[s] # g[s]}
<1> SUFFICES ASSUME h[T] # g[T] PROVE FALSE
  OBVIOUS
<1>1. Cardinality(T) \in Bad
  BY Smaller
<1>2. PICK n \in Bad : \A m \in Bad : n <= m
  <2>1. Bad \in SUBSET Nat
    OBVIOUS
  <2> HIDE DEF Bad
  <2> QED
    BY <1>1, <2>1, LeastExists
<1>3. PICK s \in SUBSET T : Cardinality(s) = n /\ h[s] # g[s]
  BY <1>2
<1>4. /\ g[s] = IF s = {} THEN 0 ELSE f[Some(s)] + g[s \ {Some(s)}]
      /\ h[s] = IF s = {} THEN 0 ELSE e[Some(s)] + h[s \ {Some(s)}]
  BY DEF Sums
<1>5. s # {} /\ Some(s) \in s
  BY <1>3, <1>4, SomeIsIn
<1> DEFINE r == s \ {Some(s)}
<1>6. r \in SUBSET T /\ Cardinality(r) = n - 1 /\ n - 1 \in Nat /\ ~(n <= n - 1)
  BY <1>3, <1>5, Smaller
<1>7. g[r] = h[r]
  BY <1>2, <1>6
<1> QED
  BY <1>3, <1>4, <1>5, <1>7

(* The operator: equal weights have one sum, and a part weighs no more than *)
(* the whole.                                                               *)
LEMMA SumAgrees ==
  ASSUME NEW S, IsFiniteSet(S), NEW f, NEW e, \A x \in S : e[x] = f[x]
  PROVE  SumFunctionOnSet(e, S) = SumFunctionOnSet(f, S)
<1>1. Sums(f, S, TheSums(f, S)) /\ Sums(e, S, TheSums(e, S))
  BY SumsExist
<1>2. TheSums(e, S)[S] = TheSums(f, S)[S]
  BY <1>1, SumsAgree
<1> QED
  BY <1>2, SumIs

LEMMA SumGrows ==
  ASSUME NEW S, IsFiniteSet(S), NEW f, Natural(f, S), NEW T \in SUBSET S
  PROVE  /\ SumFunctionOnSet(f, S) \in Nat /\ SumFunctionOnSet(f, T) \in Nat
         /\ SumFunctionOnSet(f, T) <= SumFunctionOnSet(f, S)
<1> DEFINE g == TheSums(f, S)
           Wrong(s) == ~(g[T] <= g[s])
           Bad == {n \in Nat : \E s \in SUBSET S : Cardinality(s) = n /\ T \subseteq s /\ Wrong(s)}
<1>1. Sums(f, S, g) /\ IsFiniteSet(T) /\ Sums(f, T, TheSums(f, T))
  BY SumsExist, FS_Subset
<1>2. SumFunctionOnSet(f, S) = g[S] /\ SumFunctionOnSet(f, T) = g[T]
  <2>1. TheSums(f, T)[T] = g[T]
    <3> DEFINE h == TheSums(f, T)
    <3> HIDE DEF g, h
    <3>1. Sums(f, T, h) /\ \A x \in T : f[x] = f[x]
      BY <1>1 DEF h
    <3>2. h[T] = g[T]
      BY <1>1, <3>1, SumsAgree
    <3> QED
      BY <3>2 DEF h
  <2> QED
    BY <2>1, SumIs
<1> HIDE DEF g
<1>3. \A s \in SUBSET S : g[s] \in Nat
  BY <1>1, SumsAreNatural
<1>4. ASSUME Wrong(S) PROVE FALSE
  <2>1. Cardinality(S) \in Bad
    BY <1>4, Smaller
  <2>2. PICK n \in Bad : \A m \in Bad : n <= m
    <3>1. Bad \in SUBSET Nat
      OBVIOUS
    <3> HIDE DEF Bad
    <3> QED
      BY <2>1, <3>1, LeastExists
  <2>3. PICK s \in SUBSET S : Cardinality(s) = n /\ T \subseteq s /\ Wrong(s)
    BY <2>2
  <2>4. PICK x \in s : x \notin T
    <3>1. g[T] <= g[T]
      BY <1>3
    <3>2. s # T
      BY <2>3, <3>1
    <3> QED
      BY <2>3, <3>2
  <2> DEFINE r == s \ {x}
  <2>5. r \in SUBSET S /\ Cardinality(r) = n - 1 /\ n - 1 \in Nat /\ ~(n <= n - 1) /\ T \subseteq r
    BY <2>3, <2>4, Smaller
  <2>6. ~Wrong(r)
    <3> HIDE DEF Wrong
    <3> QED
      BY <2>2, <2>5
  <2>7. g[r \cup {x}] = g[r] + f[x] /\ r \cup {x} = s
    BY <1>1, <2>4, <2>5, SumsInsert
  <2>8. g[r] \in Nat /\ g[T] \in Nat /\ f[x] \in Nat
    BY <1>3, <2>5 DEF Natural
  <2> QED
    BY <2>3, <2>6, <2>7, <2>8
<1> QED
  BY <1>2, <1>3, <1>4

-----------------------------------------------------------------------------
(* What Lists says of places: the k-th of K is in K and has k of them up to *)
(* itself ...                                                               *)
LEMMA NthIsIn ==
  ASSUME NEW n \in Nat, NEW K \in SUBSET (1..n)
  PROVE  /\ Cardinality(K) \in 0..n
         /\ \A k \in 1..Cardinality(K) :
               Nth(K, k) \in K /\ Cardinality({j \in K : j <= Nth(K, k)}) = k
<1> DEFINE Upto(i) == {j \in K : j <= i}
           Count(i) == Cardinality(Upto(i))
<1>0. n \in Nat /\ \A j \in K : j \in Nat /\ j >= 1 /\ j <= n
  OBVIOUS
<1>1. IsFiniteSet(K) /\ Cardinality(K) \in 0..n
  <2>1. IsFiniteSet(1..n) /\ Cardinality(1..n) = n
    BY FS_Interval
  <2>2. IsFiniteSet(K) /\ Cardinality(K) <= n
    BY <2>1, FS_Subset
  <2> QED
    BY <2>2, FS_CardinalityType
<1>2. \A i \in 0..n : IsFiniteSet(Upto(i)) /\ Count(i) \in Nat
  BY <1>1, FS_Subset, FS_CardinalityType
<1>3. ASSUME NEW k \in 1..Cardinality(K)
      PROVE  \E i \in K : Count(i) = k
  <2> DEFINE Big == {i \in 0..n : Count(i) >= k}
  <2>1. n \in Big
    <3>1. Upto(n) = K
      BY <1>0, Zenon
    <3> QED
      BY <1>1, <3>1
  <2>2. PICK i \in Big : \A j \in Big : i <= j
    <3>1. Big \in SUBSET Nat /\ Big # {}
      BY <2>1
    <3> HIDE DEF Big
    <3> QED
      BY <3>1, LeastExists
  <2>3. i # 0
    <3>1. \A j \in K : ~ (j <= 0)
      BY <1>0
    <3>3. Upto(0) = {}
      BY <3>1
    <3>2. Count(0) = 0
      BY <3>3, FS_EmptySet
    <3>4. k >= 1 /\ k \in Nat
      BY <1>1
    <3> HIDE DEF Count
    <3>5. ~ (0 \in Big)
      BY <3>2, <3>4
    <3> QED
      BY <2>2, <3>5
  <2>4. i \in 1..n /\ i - 1 \in 0..n /\ ~ (i - 1 \in Big)
    <3>1. i \in 0..n /\ n \in Nat
      BY <2>2
    <3>2. i \in 1..n /\ i - 1 \in 0..n /\ ~ (i <= i - 1)
      BY <2>3, <3>1
    <3> HIDE DEF Big
    <3> QED
      BY <2>2, <3>2
  <2>5. Count(i - 1) < k /\ Count(i) >= k /\ k \in Nat
    <3>1. Count(i - 1) \in Nat
      BY <1>2, <2>4
    <3>2. k \in Nat
      BY <1>1
    <3> HIDE DEF Count
    <3> QED
      BY <2>2, <2>4, <3>1, <3>2
  <2>6. Upto(i) = IF i \in K THEN Upto(i - 1) \cup {i} ELSE Upto(i - 1)
    <3>1. i \in Nat /\ \A j \in K : j <= i <=> j <= i - 1 \/ j = i
      BY <1>0, <2>4
    <3>2. i \in K => i <= i /\ i \in Upto(i)
      BY <1>0
    <3> QED
      BY <3>1, <3>2
  <2>7. i \in K
    <3>1. ~ (i \in K) => Count(i) = Count(i - 1)
      BY <2>6
    <3>2. Count(i - 1) \in Nat
      BY <1>2, <2>4
    <3> HIDE DEF Count
    <3> QED
      BY <2>5, <3>1, <3>2
  <2>8. Count(i) = Count(i - 1) + 1
    <3>1. ~ (i \in Upto(i - 1)) /\ IsFiniteSet(Upto(i - 1))
      <4>1. ~ (i <= i - 1)
        BY <2>4
      <4> QED
        BY <1>2, <2>4, <4>1
    <3> HIDE DEF Upto
    <3>2. Cardinality(Upto(i - 1) \cup {i}) = Cardinality(Upto(i - 1)) + 1
      BY <3>1, FS_AddElement
    <3> QED
      BY <2>6, <2>7, <3>2
  <2>9. Count(i) = k
    <3>1. Count(i - 1) \in Nat
      BY <1>2, <2>4
    <3> HIDE DEF Count
    <3> QED
      BY <2>5, <2>8, <3>1
  <2> QED
    BY <2>7, <2>9
<1> QED
  BY <1>1, <1>3 DEF Nth

(* ... so that the places are counted in their order, and each of them is.  *)
LEMMA NthOrders ==
  ASSUME NEW n \in Nat, NEW K \in SUBSET (1..n)
  PROVE  /\ \A k, l \in 1..Cardinality(K) : k < l => Nth(K, k) < Nth(K, l)
         /\ \A i \in K : \E k \in 1..Cardinality(K) : Nth(K, k) = i
<1> DEFINE Upto(i) == {j \in K : j <= i}
           Count(i) == Cardinality(Upto(i))
<1>1. \A j \in K : j \in Nat
  OBVIOUS
<1>2. IsFiniteSet(K) /\ Cardinality(K) \in Nat
  <2>1. 1 \in Int /\ n \in Int
    OBVIOUS
  <2>2. IsFiniteSet(1..n)
    BY <2>1, FS_Interval
  <2> QED
    BY <2>2, FS_Subset, FS_CardinalityType
<1>3. \A i \in K : Upto(i) \in SUBSET K /\ IsFiniteSet(Upto(i)) /\ i \in Upto(i)
  BY <1>1, <1>2, FS_Subset
<1>4. \A i \in K : Count(i) \in Nat /\ Count(i) <= Cardinality(K)
  BY <1>2, <1>3, FS_Subset, FS_CardinalityType
<1>5. ASSUME NEW i \in K, NEW j \in K, i < j
      PROVE  Count(i) < Count(j)
  <2>0. i \in Nat /\ j \in Nat /\ ~ (j <= i) /\ \A k \in K : k \in Nat /\ (k <= i => k <= j)
    BY <1>1, <1>5
  <2>1. Upto(i) \in SUBSET Upto(j) /\ j \notin Upto(i)
    BY <2>0
  <2>2. Upto(i) # Upto(j)
    BY <1>3, <2>1
  <2>3. Count(i) <= Count(j) /\ (Count(i) = Count(j) => Upto(i) = Upto(j))
    BY <1>3, <2>1, FS_Subset
  <2>4. Count(i) \in Nat /\ Count(j) \in Nat
    BY <1>4
  <2> HIDE DEF Count
  <2> QED
    BY <2>2, <2>3, <2>4
<1>6. \A k \in 1..Cardinality(K) : Nth(K, k) \in K /\ Count(Nth(K, k)) = k
  BY NthIsIn
<1>7. ASSUME NEW i \in K PROVE Count(i) \in 1..Cardinality(K)
  <2>1. Count(i) # 0
    BY <1>3, FS_EmptySet
  <2> HIDE DEF Count
  <2> QED
    BY <1>2, <1>4, <2>1
<1> HIDE DEF Count
<1>8. ASSUME NEW k \in 1..Cardinality(K), NEW l \in 1..Cardinality(K), k < l
      PROVE  Nth(K, k) < Nth(K, l)
  <2> DEFINE i == Nth(K, k)
             j == Nth(K, l)
  <2>1. i \in K /\ j \in K /\ Count(i) = k /\ Count(j) = l
    BY <1>6
  <2> HIDE DEF i, j
  <2>2. i \in Nat /\ j \in Nat /\ k \in Nat /\ l \in Nat
    BY <1>1, <1>2, <2>1
  <2>3. ~ (j < i) /\ i # j
    BY <1>5, <1>8, <2>1, <2>2
  <2> QED
    BY <2>2, <2>3 DEF i, j
<1>9. ASSUME NEW i \in K PROVE Nth(K, Count(i)) = i
  <2> DEFINE j == Nth(K, Count(i))
  <2>1. j \in K /\ Count(j) = Count(i)
    BY <1>6, <1>7
  <2> HIDE DEF j
  <2>2. i \in Nat /\ j \in Nat /\ Count(i) \in Nat
    BY <1>1, <1>4, <2>1
  <2>3. ~ (j < i) /\ ~ (i < j)
    BY <1>5, <2>1, <2>2
  <2> QED
    BY <2>2, <2>3 DEF j
<1> QED
  BY <1>7, <1>8, <1>9

LEMMA KeptIs ==
  ASSUME NEW S, NEW s \in Seq(S), NEW K \in SUBSET DOMAIN s
  PROVE  /\ Kept(s, K) \in Seq(S)
         /\ Len(Kept(s, K)) <= Len(s)
         /\ DOMAIN Kept(s, K) = 1..Len(Kept(s, K))
         /\ \A k \in DOMAIN Kept(s, K) : Nth(K, k) \in K /\ Kept(s, K)[k] = s[Nth(K, k)]
<1>1. Len(s) \in Nat /\ DOMAIN s = 1..Len(s) /\ \A i \in DOMAIN s : s[i] \in S
  BY LenProperties, ElementOfSeq
<1>2. Cardinality(K) \in 0..Len(s) /\ \A k \in 1..Cardinality(K) : Nth(K, k) \in K
  BY <1>1, NthIsIn
<1>3. \A k \in 1..Cardinality(K) : s[Nth(K, k)] \in S
  BY <1>1, <1>2
<1>4. Kept(s, K) = [k \in 1..Cardinality(K) |-> s[Nth(K, k)]]
  BY DEF Kept
<1>5. Kept(s, K) \in Seq(S) /\ Len(Kept(s, K)) = Cardinality(K)
  BY <1>2, <1>3, <1>4
<1> QED
  BY <1>1, <1>2, <1>4, <1>5

(* What is kept is what stood there, in its order.                          *)
LEMMA KeptOrders ==
  ASSUME NEW S, NEW s \in Seq(S), NEW K \in SUBSET DOMAIN s
  PROVE  /\ ToSet(Kept(s, K)) = {s[i] : i \in K}
         /\ \A k, l \in DOMAIN Kept(s, K) : k < l =>
               \E i, j \in K : i < j /\ Kept(s, K)[k] = s[i] /\ Kept(s, K)[l] = s[j]
<1>1. Len(s) \in Nat /\ DOMAIN s = 1..Len(s)
  BY LenProperties
<1>2. /\ \A k \in 1..Cardinality(K) : Nth(K, k) \in K
      /\ \A k, l \in 1..Cardinality(K) : k < l => Nth(K, k) < Nth(K, l)
      /\ \A i \in K : \E k \in 1..Cardinality(K) : Nth(K, k) = i
  BY <1>1, NthIsIn, NthOrders
<1>3. Kept(s, K) = [k \in 1..Cardinality(K) |-> s[Nth(K, k)]]
  BY DEF Kept
<1>4. ToSet(Kept(s, K)) = {s[i] : i \in K}
  BY <1>2, <1>3 DEF ToSet
<1> QED
  BY <1>2, <1>3, <1>4

-----------------------------------------------------------------------------
(* A list with one place removed.                                           *)
LEMMA RemoveAtProperties ==
  ASSUME NEW S, NEW s \in Seq(S), NEW r \in 1..Len(s)
  PROVE  /\ RemoveAt(s, r) \in Seq(S)
         /\ Len(RemoveAt(s, r)) = Len(s) - 1
         /\ \A i \in 1..(Len(s) - 1) : RemoveAt(s, r)[i] = IF i < r THEN s[i] ELSE s[i + 1]
<1> DEFINE front == SubSeq(s, 1, r - 1)
           back  == SubSeq(s, r + 1, Len(s))
<1>1. Len(s) \in Nat /\ r \in Nat /\ r >= 1 /\ r <= Len(s) /\ \A i \in 1..Len(s) : s[i] \in S
  BY LenProperties, ElementOfSeq
<1>2. /\ front \in Seq(S) /\ Len(front) = r - 1
      /\ \A i \in 1..(r - 1) : front[i] = s[i]
  <2>1. 1 \in Int /\ r - 1 \in Int /\ \A i \in 1..(r - 1) : s[i] \in S
    BY <1>1
  <2>2. /\ front \in Seq(S)
        /\ Len(front) = IF 1 <= r - 1 THEN (r - 1) - 1 + 1 ELSE 0
        /\ \A i \in 1..((r - 1) - 1 + 1) : front[i] = s[1 + i - 1]
    BY <2>1, SubSeqProperties
  <2> HIDE DEF front
  <2>3. Len(front) = r - 1
    BY <1>1, <2>2
  <2>4. \A i \in 1..(r - 1) : i \in 1..((r - 1) - 1 + 1) /\ 1 + i - 1 = i
    BY <1>1
  <2> QED
    BY <2>2, <2>3, <2>4
<1>3. /\ back \in Seq(S) /\ Len(back) = Len(s) - r
      /\ \A i \in 1..(Len(s) - r) : back[i] = s[r + i]
  <2>1. r + 1 \in Int /\ Len(s) \in Int /\ \A i \in (r + 1)..Len(s) : s[i] \in S
    BY <1>1
  <2>2. /\ back \in Seq(S)
        /\ Len(back) = IF r + 1 <= Len(s) THEN Len(s) - (r + 1) + 1 ELSE 0
        /\ \A i \in 1..(Len(s) - (r + 1) + 1) : back[i] = s[(r + 1) + i - 1]
    BY <2>1, SubSeqProperties
  <2> HIDE DEF back
  <2>3. Len(back) = Len(s) - r
    BY <1>1, <2>2
  <2>4. \A i \in 1..(Len(s) - r) : i \in 1..(Len(s) - (r + 1) + 1) /\ (r + 1) + i - 1 = r + i
    BY <1>1
  <2> QED
    BY <2>2, <2>3, <2>4
<1> HIDE DEF front, back
<1>4. /\ front \o back \in Seq(S) /\ Len(front \o back) = Len(s) - 1
      /\ \A i \in 1..(Len(front) + Len(back)) :
             (front \o back)[i] = IF i <= Len(front) THEN front[i] ELSE back[i - Len(front)]
  <2>1. Len(front) + Len(back) = Len(s) - 1
    BY <1>1, <1>2, <1>3
  <2> QED
    BY <1>2, <1>3, <2>1, ConcatProperties
<1>5. ASSUME NEW i \in 1..(Len(s) - 1)
      PROVE  (front \o back)[i] = IF i < r THEN s[i] ELSE s[i + 1]
  <2>1. i \in 1..(Len(front) + Len(back))
    BY <1>1, <1>2, <1>3
  <2>2. CASE i < r
    <3>1. i \in 1..(r - 1) /\ i <= Len(front)
      BY <1>1, <1>2, <2>2
    <3> QED
      BY <1>2, <1>4, <2>1, <2>2, <3>1
  <2>3. CASE ~(i < r)
    <3>1. i - Len(front) = i - r + 1 /\ i - r + 1 \in 1..(Len(s) - r) /\ ~(i <= Len(front))
      BY <1>1, <1>2, <2>3
    <3>2. back[i - r + 1] = s[r + (i - r + 1)]
      BY <1>3, <3>1
    <3>3. r + (i - r + 1) = i + 1
      BY <1>1
    <3> QED
      BY <1>4, <2>1, <2>3, <3>1, <3>2, <3>3
  <2> QED
    BY <2>2, <2>3
<1> QED
  BY <1>4, <1>5 DEF RemoveAt, front, back
=============================================================================
