-------------------------- MODULE SortedMapLemmas --------------------------
(***************************************************************************)
(* A bounded set of integers has one ascending listing, InOrder(T, <).     *)
(*                                                                         *)
(* The induction theorems of the library cannot be used here.  Both proofs *)
(* take a smallest counterexample instead: of the indices at which two     *)
(* listings differ, and of the subsets that have no listing.               *)
(***************************************************************************)
EXTENDS SortedMaps, FiniteSetTheorems, WellFoundedInduction, TLAPS

\* A set of naturals has a smallest element.
LEMMA Smallest ==
    ASSUME NEW T, T \subseteq Nat, T # {}
    PROVE  \E m \in T : \A n \in T : m <= n
<1> DEFINE D == {0..t : t \in T}
<1>1. D # {}
  OBVIOUS
<1>2. D \subseteq FiniteSubsetsOf(Nat)
  <2>1. \A t \in T : IsFiniteSet(0..t) /\ 0..t \subseteq Nat
    BY FS_Interval
  <2> QED
    BY <2>1 DEF FiniteSubsetsOf
<1>3. PICK x \in D : \A y \in D : <<y, x>> \notin StrictSubsetOrdering(Nat)
  <2> HIDE DEF D
  <2> QED
    BY <1>1, <1>2, FS_StrictSubsetOrderingWellFounded, WFMin
<1>4. PICK m \in T : x = 0..m
  OBVIOUS
<1>5. SUFFICES ASSUME NEW n \in T, n < m
               PROVE  FALSE
  OBVIOUS
<1>6. 0..n \in D /\ 0..n \subseteq Nat /\ 0..m \subseteq Nat
  OBVIOUS
<1>7. 0..n \subseteq 0..m /\ 0..n # 0..m
  <2>1. n \in Nat /\ m \in Nat
    OBVIOUS
  <2>2. m \in 0..m /\ m \notin 0..n
    BY <1>5, <2>1
  <2>3. 0..n \subseteq 0..m
    BY <1>5, <2>1
  <2> QED
    BY <2>2, <2>3
<1> QED
  BY <1>3, <1>4, <1>6, <1>7 DEF StrictSubsetOrdering

\* A bounded set of integers has a greatest element.
LEMMA Greatest ==
    ASSUME NEW low \in Int, NEW high \in Int, NEW T, T \subseteq low..high, T # {}
    PROVE  \E m \in T : \A n \in T : n <= m
<1> DEFINE D == {high - t : t \in T}
<1>1. \A t \in T : t \in Int /\ t <= high
  OBVIOUS
<1>2. D \subseteq Nat
  BY <1>1
<1> D # {}
  OBVIOUS
<1>3. PICK d \in D : \A e \in D : d <= e
  <2> HIDE DEF D
  <2> QED
    BY <1>2, Smallest
<1>4. PICK m \in T : d = high - m
  OBVIOUS
<1>5. ASSUME NEW n \in T
      PROVE  n <= m
  <2>1. high - m <= high - n
    BY <1>3, <1>4
  <2> QED
    BY <1>1, <2>1
<1> QED
  BY <1>5

\* Lists(s, T, <), of which the proofs below speak without an operator.
Ascends(s, T) ==
    /\ \A x \in T : \E i \in 1..Cardinality(T) : s[i] = x
    /\ \A i, j \in 1..Cardinality(T) : i < j => s[i] < s[j]

\* Two ascending listings of a set are the same.
LEMMA OneListing ==
    ASSUME NEW T, T \subseteq Int, Cardinality(T) \in Nat,
           NEW r \in [1..Cardinality(T) -> T], Ascends(r, T),
           NEW s \in [1..Cardinality(T) -> T], Ascends(s, T)
    PROVE  r = s
<1> DEFINE N == Cardinality(T)
           Differ == {i \in 1..N : r[i] # s[i]}
<1>1. \A x \in T : (\E i \in 1..N : r[i] = x) /\ (\E i \in 1..N : s[i] = x)
  BY DEF Ascends
<1>2. \A i, j \in 1..N : i < j => r[i] < r[j] /\ s[i] < s[j]
  BY DEF Ascends
<1>3. N \in Nat
  OBVIOUS
<1>4. \A i \in 1..N : r[i] \in T /\ s[i] \in T /\ r[i] \in Int /\ s[i] \in Int
  OBVIOUS
<1> HIDE DEF N
<1>5. SUFFICES ASSUME Differ # {}
               PROVE  FALSE
  BY DEF N
<1>6. PICK i \in Differ : \A j \in Differ : i <= j
  <2>1. Differ \subseteq Nat
    BY <1>3
  <2> QED
    BY <1>5, <2>1, Smallest
<1>7. i \in 1..N /\ r[i] # s[i]
  OBVIOUS
<1>8. \A j \in 1..N : j < i => r[j] = s[j]
  BY <1>3, <1>6, <1>7
<1>9. PICK j \in 1..N : r[j] = s[i]
  BY <1>1, <1>4, <1>7
<1>10. PICK k \in 1..N : s[k] = r[i]
  BY <1>1, <1>4, <1>7
<1>11. i < j
  <2>1. ~(j < i)
    BY <1>2, <1>4, <1>7, <1>8, <1>9
  <2> QED
    BY <1>3, <1>7, <1>9, <2>1
<1>12. i < k
  <2>1. ~(k < i)
    BY <1>2, <1>4, <1>7, <1>8, <1>10
  <2> QED
    BY <1>3, <1>7, <1>10, <2>1
<1>13. r[i] < s[i] /\ s[i] < r[i]
  BY <1>2, <1>7, <1>9, <1>10, <1>11, <1>12
<1> QED
  BY <1>4, <1>7, <1>13

\* A greater element goes to the end of a listing.
LEMMA Longer ==
    ASSUME NEW low \in Int, NEW high \in Int, NEW U, U \subseteq low..high, IsFiniteSet(U),
           NEW m \in Int, m \notin U, \A n \in U : n < m,
           NEW s \in [1..Cardinality(U) -> U], Ascends(s, U)
    PROVE  \E r \in [1..Cardinality(U \cup {m}) -> U \cup {m}] : Ascends(r, U \cup {m})
<1> DEFINE N == Cardinality(U)
           V == U \cup {m}
           r == [i \in 1..N + 1 |-> IF i = N + 1 THEN m ELSE s[i]]
<1>1. N \in Nat /\ Cardinality(V) = N + 1
  BY FS_CardinalityType, FS_AddElement
<1>2. \A x \in U : \E i \in 1..N : s[i] = x
  BY DEF Ascends
<1>3. \A i, j \in 1..N : i < j => s[i] < s[j]
  BY DEF Ascends
<1>4. \A i \in 1..N : s[i] \in U
  OBVIOUS
<1> HIDE DEF N
<1>5. r \in [1..N + 1 -> V]
  BY <1>1, <1>4
<1>6. ASSUME NEW x \in V
      PROVE  \E i \in 1..N + 1 : r[i] = x
  <2>1. CASE x = m
    <3>1. N + 1 \in 1..N + 1 /\ r[N + 1] = m
      BY <1>1
    <3> QED
      BY <2>1, <3>1
  <2>2. CASE x \in U
    <3>1. PICK i \in 1..N : s[i] = x
      BY <1>2, <2>2
    <3>2. i \in 1..N + 1 /\ i # N + 1
      BY <1>1
    <3>3. r[i] = x
      BY <3>1, <3>2
    <3> QED
      BY <3>2, <3>3
  <2> QED
    BY <2>1, <2>2
<1>7. ASSUME NEW i \in 1..N + 1, NEW j \in 1..N + 1, i < j
      PROVE  r[i] < r[j]
  <2>1. i \in 1..N /\ r[i] = s[i] /\ s[i] \in U
    BY <1>1, <1>4, <1>7
  <2>2. CASE j = N + 1
    BY <2>1, <2>2
  <2>3. CASE j # N + 1
    <3>1. j \in 1..N /\ r[j] = s[j]
      BY <1>1, <2>3
    <3> QED
      BY <1>3, <1>7, <2>1, <3>1
  <2> QED
    BY <2>2, <2>3
<1>8. Ascends(r, V)
  BY <1>1, <1>6, <1>7 DEF Ascends
<1> QED
  BY <1>1, <1>5, <1>8

\* A bounded set of integers has an ascending listing.
LEMMA SomeListing ==
    ASSUME NEW low \in Int, NEW high \in Int, NEW T, T \subseteq low..high
    PROVE  \E s \in [1..Cardinality(T) -> T] : Ascends(s, T)
<1> DEFINE Listable(U) == \E s \in [1..Cardinality(U) -> U] : Ascends(s, U)
           Bad == {U \in SUBSET T : ~Listable(U)}
<1>1. \A U \in SUBSET T : IsFiniteSet(U) /\ U \subseteq low..high
  BY FS_Interval, FS_Subset
<1>2. SUFFICES ASSUME Bad # {}
               PROVE  FALSE
  OBVIOUS
<1>3. Bad \subseteq FiniteSubsetsOf(T)
  BY <1>1 DEF FiniteSubsetsOf
<1>4. PICK U \in Bad : \A W \in Bad : <<W, U>> \notin StrictSubsetOrdering(T)
  <2> HIDE DEF Bad
  <2> QED
    BY <1>2, <1>3, FS_StrictSubsetOrderingWellFounded, WFMin
<1>5. U \subseteq T /\ ~Listable(U)
  OBVIOUS
<1>6. U # {}
  <2>1. Cardinality({}) = 0
    BY FS_EmptySet
  <2>2. 1..0 = {}
    OBVIOUS
  <2>3. [i \in {} |-> 0] \in [{} -> {}]
    OBVIOUS
  <2>4. Ascends([i \in {} |-> 0], {})
    BY <2>1, <2>2 DEF Ascends
  <2>5. Listable({})
    BY <2>1, <2>2, <2>3, <2>4
  <2> QED
    BY <1>5, <2>5
<1>7. PICK m \in U : \A n \in U : n <= m
  BY <1>1, <1>5, <1>6, Greatest
<1> DEFINE W == U \ {m}
<1>8. W \subseteq T /\ W \subseteq U /\ W # U /\ m \notin W /\ W \cup {m} = U
  BY <1>5
<1>9. W \notin Bad
  <2>1. <<W, U>> \in StrictSubsetOrdering(T)
    BY <1>5, <1>8 DEF StrictSubsetOrdering
  <2> QED
    BY <1>4, <2>1
<1>10. PICK s \in [1..Cardinality(W) -> W] : Ascends(s, W)
  BY <1>8, <1>9
<1>11. m \in Int /\ \A n \in W : n < m
  BY <1>1, <1>5, <1>7
<1>12. Listable(W \cup {m})
  <2>1. W \subseteq low..high /\ IsFiniteSet(W)
    BY <1>1, <1>8
  <2> HIDE DEF W
  <2> QED
    BY <1>8, <1>10, <1>11, <2>1, Longer
<1> QED
  BY <1>5, <1>8, <1>12

\* InOrder(T, <) is the ascending listing.
LEMMA Ascending ==
    ASSUME NEW low \in Int, NEW high \in Int, NEW T, T \subseteq low..high
    PROVE  /\ Cardinality(T) \in Nat
           /\ InOrder(T, <) \in [1..Cardinality(T) -> T]
           /\ Ascends(InOrder(T, <), T)
           /\ \A s \in [1..Cardinality(T) -> T] : Ascends(s, T) => s = InOrder(T, <)
<1>1. T \subseteq Int /\ Cardinality(T) \in Nat
  <2>1. IsFiniteSet(low..high)
    BY FS_Interval
  <2>2. IsFiniteSet(T)
    BY <2>1, FS_Subset
  <2> QED
    BY <2>2, FS_CardinalityType
<1>2. InOrder(T, <) = CHOOSE s \in [1..Cardinality(T) -> T] : Ascends(s, T)
  BY DEF InOrder, Lists, Ascends
<1>3. /\ InOrder(T, <) \in [1..Cardinality(T) -> T]
      /\ Ascends(InOrder(T, <), T)
  BY <1>2, SomeListing
<1> QED
  BY <1>1, <1>3, OneListing

\* Ordered(T) is the ascending listing, too.
LEMMA Ranked ==
    ASSUME NEW low \in Int, NEW high \in Int, NEW T, T \subseteq low..high
    PROVE  /\ Cardinality(T) \in Nat
           /\ Ordered(T) \in [1..Cardinality(T) -> T]
           /\ Ascends(Ordered(T), T)
<1> DEFINE N == Cardinality(T)
           rank(t) == Cardinality({u \in T : u < t})
<1>1. N \in Nat /\ T \subseteq Int
  BY Ascending
<1>2. PICK s \in [1..N -> T] : Ascends(s, T)
  BY SomeListing
<1>3. \A x \in T : \E i \in 1..N : s[i] = x
  BY <1>2 DEF Ascends
<1>4. \A i, j \in 1..N : i < j => s[i] < s[j]
  BY <1>2 DEF Ascends
<1> HIDE DEF N
<1>5. ASSUME NEW i \in 1..N
      PROVE  rank(s[i]) = i - 1
  <2> DEFINE I == 1..i - 1
             U == {u \in T : u < s[i]}
             b == [j \in I |-> s[j]]
  <2>1. \A j \in I : j \in 1..N /\ j < i /\ s[j] \in U
    BY <1>1, <1>2, <1>4
  <2>2. \A u \in U : \E j \in I : s[j] = u
    <3> TAKE u \in U
    <3>1. PICK j \in 1..N : s[j] = u
      BY <1>3
    <3>2. u \in Int /\ s[i] \in Int /\ u < s[i]
      BY <1>1, <1>2
    <3>3. ~(i < j) /\ i # j
      BY <1>4, <3>1, <3>2
    <3>4. j \in I
      BY <1>1, <3>3
    <3> QED
      BY <3>1, <3>4
  <2>3. \A j, k \in I : j # k => b[j] # b[k]
    <3> SUFFICES ASSUME NEW j \in I, NEW k \in I, j < k
                 PROVE  b[j] # b[k]
      BY <1>1
    <3>1. s[j] < s[k] /\ s[j] \in Int
      BY <1>1, <1>2, <1>4, <2>1
    <3> QED
      BY <3>1
  <2>4. b \in Bijection(I, U)
    <3>1. b \in [I -> U]
      BY <2>1
    <3> QED
      BY <2>2, <2>3, <3>1 DEF Bijection, Injection, Surjection, IsInjective
  <2>5. IsFiniteSet(I) /\ Cardinality(I) = i - 1
    <3>1. i - 1 \in Int /\ 1 \in Int /\ ~(1 > i) /\ (1 > i - 1 => i - 1 = 0) /\ (i - 1) - 1 + 1 = i - 1
      BY <1>1
    <3> QED
      BY <3>1, FS_Interval
  <2>6. ExistsBijection(I, U)
    BY <2>4 DEF ExistsBijection
  <2> HIDE DEF I, U
  <2>7. Cardinality(U) = i - 1
    BY <2>5, <2>6, FS_Bijection
  <2> QED
    BY <2>7 DEF U
<1>6. ASSUME NEW i \in 1..N
      PROVE  (CHOOSE t \in T : rank(t) = i - 1) = s[i]
  <2>1. s[i] \in T
    BY <1>2
  <2>2. ASSUME NEW t \in T, rank(t) = i - 1
        PROVE  t = s[i]
    <3>1. PICK j \in 1..N : s[j] = t
      BY <1>3
    <3>2. j - 1 = i - 1
      BY <1>5, <2>2, <3>1
    <3> QED
      BY <1>1, <3>1, <3>2
  <2>3. rank(s[i]) = i - 1
    BY <1>5
  <2> HIDE DEF rank
  <2> QED
    BY <2>1, <2>2, <2>3
<1>7. Ordered(T) = [i \in 1..N |-> s[i]]
  BY <1>6 DEF Ordered, N
<1>8. Ordered(T) = s
  BY <1>2, <1>7
<1> QED
  BY <1>1, <1>2, <1>8 DEF N

\* Nothing is picked, one element, or two.
LEMMA PickNone ==
    ASSUME NEW s
    PROVE  Pick(s, {}) = <<>>
<1>1. Cardinality({}) = 0
  BY FS_EmptySet
<1>2. Pick(s, {}) = [i \in 1..0 |-> s[Ordered({})[i]]]
  BY <1>1 DEF Pick
<1> QED
  BY <1>2

LEMMA PickOne ==
    ASSUME NEW s, NEW x \in Int
    PROVE  Pick(s, {x}) = <<s[x]>>
<1>1. Cardinality({x}) = 1
  BY FS_Singleton
<1>2. {x} \subseteq x..x
  OBVIOUS
<1>3. Ordered({x}) \in [1..1 -> {x}]
  BY <1>1, <1>2, Ranked
<1>4. Ordered({x})[1] = x
  BY <1>3
<1>5. Pick(s, {x}) = [i \in 1..1 |-> s[Ordered({x})[i]]]
  BY <1>1 DEF Pick
<1> QED
  BY <1>4, <1>5

LEMMA PickTwo ==
    ASSUME NEW s, NEW x \in Int, NEW y \in Int, x < y
    PROVE  Pick(s, {x, y}) = <<s[x], s[y]>>
<1> DEFINE T == {x, y}
<1>1. Cardinality(T) = 2
  <2>1. Cardinality({x}) = 1 /\ IsFiniteSet({x})
    BY FS_Singleton
  <2>2. T = {x} \cup {y} /\ y \notin {x}
    OBVIOUS
  <2> HIDE DEF T
  <2> QED
    BY <2>1, <2>2, FS_AddElement
<1>2. T \subseteq x..y
  OBVIOUS
<1>3. Ordered(T) \in [1..2 -> T] /\ Ascends(Ordered(T), T)
  <2> HIDE DEF T
  <2> QED
    BY <1>1, <1>2, Ranked
<1> DEFINE o == Ordered(T)
<1>4. o[1] \in T /\ o[2] \in T /\ o[1] < o[2]
  <2>1. \A i, j \in 1..2 : i < j => o[i] < o[j]
    <3> HIDE DEF T
    <3> QED
      BY <1>1, <1>3 DEF Ascends
  <2> HIDE DEF o
  <2> QED
    BY <1>3, <2>1 DEF o
<1>5. Pick(s, T) = [i \in 1..2 |-> s[o[i]]]
  <2> HIDE DEF T
  <2> QED
    BY <1>1 DEF Pick
<1> HIDE DEF o
<1>6. o[1] = x /\ o[2] = y
  BY <1>4
<1> QED
  BY <1>5, <1>6

\* A set without a hole, and the listing that goes through it one by one.
Stretch(I) == \A i, j \in I : \A k \in Int : i < k /\ k < j => k \in I

Follows(o, I) ==
    /\ o \in [1..Cardinality(I) -> I]
    /\ \A x \in I : \E i \in 1..Cardinality(I) : o[i] = x
    /\ \A i \in 1..Cardinality(I) - 1 : o[i + 1] = o[i] + 1

LEMMA Consecutive ==
    ASSUME NEW low \in Int, NEW high \in Int, NEW I, I \subseteq low..high, Stretch(I)
    PROVE  Cardinality(I) \in Nat /\ Follows(Ordered(I), I)
<1> DEFINE n == Cardinality(I)
           o == Ordered(I)
<1>1. n \in Nat /\ o \in [1..n -> I] /\ Ascends(o, I)
  BY Ranked
<1>2. /\ \A x \in I : \E i \in 1..n : o[i] = x
      /\ \A i, j \in 1..n : i < j => o[i] < o[j]
  BY <1>1 DEF Ascends
<1> HIDE DEF n, o
<1>3. ASSUME NEW i \in 1..n - 1
      PROVE  o[i + 1] = o[i] + 1
  <2>1. i \in 1..n /\ i + 1 \in 1..n /\ i < i + 1
    BY <1>1
  <2>2. o[i] \in I /\ o[i + 1] \in I /\ o[i] < o[i + 1]
    BY <1>1, <1>2, <2>1
  <2>3. o[i] \in Int /\ o[i + 1] \in Int
    <3>1. \A x \in I : x \in Int
      OBVIOUS
    <3> QED
      BY <2>2, <3>1
  <2>4. SUFFICES ASSUME o[i] + 1 < o[i + 1]
                 PROVE  FALSE
    BY <2>2, <2>3
  <2>5. o[i] + 1 \in I
    BY <2>2, <2>3, <2>4 DEF Stretch
  <2>6. PICK j \in 1..n : o[j] = o[i] + 1
    BY <1>2, <2>5
  <2>7. (j < i => o[j] < o[i]) /\ (i + 1 < j => o[i + 1] < o[j])
    BY <1>2, <2>1
  <2>8. ~(j < i) /\ ~(i + 1 < j) /\ j # i /\ j # i + 1
    BY <2>3, <2>4, <2>6, <2>7
  <2> QED
    BY <1>1, <2>8
<1>4. Follows(o, I)
  BY <1>1, <1>2, <1>3 DEF Follows, n
<1> QED
  BY <1>1, <1>4 DEF n, o
=============================================================================
