--------------------------- MODULE TickLensLemmas ---------------------------
(***************************************************************************)
(* Sums of the liquidity of positions, and what the walk of the lens       *)
(* finds.                                                                  *)
(*                                                                         *)
(* A sum is a fold that chooses an element, adds it to the sum of the      *)
(* others, and so on.  That the fold exists, and that the choice does not  *)
(* matter, is shown by a smallest set for which it would not be so.        *)
(***************************************************************************)
EXTENDS TickLens, SortedMapLemmas

-----------------------------------------------------------------------------
(* Sums over finite sets. *)

\* Of the subsets of a finite set that are bad, one has no bad proper subset.
LEMMA SmallestSet ==
    ASSUME NEW S, IsFiniteSet(S), NEW Bad, Bad \subseteq SUBSET S, Bad # {}
    PROVE  \E U \in Bad : \A V \in SUBSET U : V # U => V \notin Bad
<1>1. Bad \subseteq FiniteSubsetsOf(S)
  BY FS_Subset DEF FiniteSubsetsOf
<1>2. PICK U \in Bad : \A V \in Bad : <<V, U>> \notin StrictSubsetOrdering(S)
  BY <1>1, FS_StrictSubsetOrderingWellFounded, WFMin
<1>3. ASSUME NEW V \in SUBSET U, V # U, V \in Bad
      PROVE  FALSE
  <2>1. <<V, U>> \in StrictSubsetOrdering(S)
    BY <1>3 DEF StrictSubsetOrdering
  <2> QED
    BY <1>2, <1>3, <2>1
<1> QED
  BY <1>3

\* The element a sum takes first, and the fold that makes the sum.
First(S) == CHOOSE x \in S : TRUE

Folds(g, f, S) ==
    g = [s \in SUBSET S |-> IF s = {} THEN 0 ELSE f[First(s)] + g[s \ {First(s)}]]

LEMMA SumIsFold ==
    ASSUME NEW f, NEW S
    PROVE  Sum(f, S) = (CHOOSE g : Folds(g, f, S))[S]
BY DEF Sum, MapThenSumSet, MapThenFoldSet, Folds, First

LEMMA FirstIsElement ==
    ASSUME NEW S, S # {}
    PROVE  First(S) \in S
BY DEF First

\* Folds over two sets agree on what both have.
LEMMA FoldsAgree ==
    ASSUME NEW f, NEW S, NEW T, NEW g, NEW h, Folds(g, f, S), Folds(h, f, T),
           NEW V, V \subseteq S, V \subseteq T, IsFiniteSet(V)
    PROVE  g[V] = h[V]
<1> DEFINE Bad == {U \in SUBSET V : g[U] # h[U]}
<1>1. SUFFICES ASSUME Bad # {}
               PROVE  FALSE
  OBVIOUS
<1>2. PICK U \in Bad : \A W \in SUBSET U : W # U => W \notin Bad
  <2>1. Bad \subseteq SUBSET V
    OBVIOUS
  <2> HIDE DEF Bad
  <2> QED
    BY <1>1, <2>1, SmallestSet
<1>3. U \in SUBSET V /\ g[U] # h[U]
  OBVIOUS
<1> DEFINE step(k) == IF U = {} THEN 0 ELSE f[First(U)] + k[U \ {First(U)}]
<1>4. g[U] = step(g) /\ h[U] = step(h)
  <2>1. U \in SUBSET S /\ U \in SUBSET T
    BY <1>3
  <2> QED
    BY <2>1 DEF Folds
<1>5. U # {} => g[U \ {First(U)}] = h[U \ {First(U)}]
  <2> SUFFICES ASSUME U # {}
               PROVE  g[U \ {First(U)}] = h[U \ {First(U)}]
    OBVIOUS
  <2> DEFINE W == U \ {First(U)}
  <2>1. W \subseteq U /\ W # U /\ W \in SUBSET V
    BY <1>3, FirstIsElement
  <2>2. W \notin Bad
    BY <1>2, <2>1
  <2> QED
    BY <2>1, <2>2
<1> QED
  BY <1>3, <1>4, <1>5

\* There is a fold over every finite set.
LEMMA SomeFold ==
    ASSUME NEW f, NEW S, IsFiniteSet(S)
    PROVE  \E g : Folds(g, f, S)
<1> DEFINE Bad == {U \in SUBSET S : ~ \E g : Folds(g, f, U)}
<1>1. SUFFICES ASSUME Bad # {}
               PROVE  FALSE
  OBVIOUS
<1>2. PICK U \in Bad : \A V \in SUBSET U : V # U => V \notin Bad
  <2>1. Bad \subseteq SUBSET S
    OBVIOUS
  <2> HIDE DEF Bad
  <2> QED
    BY <1>1, <2>1, SmallestSet
<1>3. U \in SUBSET S /\ ~ \E g : Folds(g, f, U)
  OBVIOUS
<1>4. \A V \in SUBSET U : V # U => \E g : Folds(g, f, V)
  BY <1>2, <1>3
<1> HIDE DEF Bad
<1> DEFINE part(V) == CHOOSE g : Folds(g, f, V)
<1>5. \A V \in SUBSET U : V # U => Folds(part(V), f, V)
  BY <1>4
<1> HIDE DEF part
<1> DEFINE rest(s) == s \ {First(s)}
           h == [s \in SUBSET U |-> IF s = {} THEN 0 ELSE f[First(s)] + part(rest(s))[rest(s)]]
<1>6. \A s \in SUBSET U : s # {} => rest(s) \in SUBSET U /\ rest(s) # U /\ rest(s) # s
                                      /\ rest(s) \subseteq s
  BY FirstIsElement
<1> HIDE DEF rest
<1>7. ASSUME NEW s \in SUBSET U, s # {}
      PROVE  h[rest(s)] = part(rest(s))[rest(s)]
  <2> DEFINE r == rest(s)
  <2>1. r \in SUBSET U /\ r # U
    BY <1>6, <1>7
  <2>2. Folds(part(r), f, r)
    BY <1>5, <2>1
  <2>3. part(r)[r] = IF r = {} THEN 0 ELSE f[First(r)] + part(r)[r \ {First(r)}]
    <3>1. r \in SUBSET r
      OBVIOUS
    <3> HIDE DEF r
    <3> QED
      BY <2>2, <3>1 DEF Folds
  <2>4. h[r] = IF r = {} THEN 0 ELSE f[First(r)] + part(rest(r))[rest(r)]
    <3> HIDE DEF r
    <3> QED
      BY <2>1
  <2>5. r # {} => part(r)[rest(r)] = part(rest(r))[rest(r)]
    <3> HIDE DEF r
    <3> SUFFICES ASSUME r # {}
                 PROVE  part(r)[rest(r)] = part(rest(r))[rest(r)]
      OBVIOUS
    <3>1. rest(r) \in SUBSET U /\ rest(r) # U /\ rest(r) \subseteq r
      BY <1>6, <2>1
    <3>2. Folds(part(rest(r)), f, rest(r))
      BY <1>5, <3>1
    <3>3. IsFiniteSet(rest(r))
      <4>1. rest(r) \subseteq S
        BY <1>3, <3>1
      <4> QED
        BY <4>1, FS_Subset
    <3> QED
      BY <2>2, <3>1, <3>2, <3>3, FoldsAgree
  <2>6. r \ {First(r)} = rest(r)
    BY DEF rest
  <2> HIDE DEF r
  <2>7. h[r] = part(r)[r]
    BY <2>3, <2>4, <2>5, <2>6
  <2> QED
    BY <2>7 DEF r
<1>8. h = [s \in SUBSET U |-> IF s = {} THEN 0 ELSE f[First(s)] + h[rest(s)]]
  <2> DEFINE k == [s \in SUBSET U |-> IF s = {} THEN 0 ELSE f[First(s)] + h[rest(s)]]
  <2>1. \A s \in SUBSET U : h[s] = k[s]
    BY <1>7
  <2> QED
    BY <2>1
<1>9. Folds(h, f, U)
  <2> HIDE DEF h
  <2> QED
    BY <1>8 DEF Folds, rest
<1> QED
  BY <1>3, <1>9

LEMMA SumStep ==
    ASSUME NEW f, NEW S, IsFiniteSet(S)
    PROVE  Sum(f, S) = IF S = {} THEN 0 ELSE f[First(S)] + Sum(f, S \ {First(S)})
<1> DEFINE fold(T) == CHOOSE g : Folds(g, f, T)
           R == S \ {First(S)}
<1>1. IsFiniteSet(R)
  BY FS_Subset
<1>2. Folds(fold(S), f, S) /\ Folds(fold(R), f, R)
  BY <1>1, SomeFold
<1>3. Sum(f, S) = fold(S)[S] /\ Sum(f, R) = fold(R)[R]
  BY SumIsFold
<1>4. R \subseteq S
  OBVIOUS
<1> HIDE DEF fold, R
<1>5. fold(S)[R] = fold(R)[R]
  BY <1>1, <1>2, <1>4, FoldsAgree
<1>6. fold(S)[S] = IF S = {} THEN 0 ELSE f[First(S)] + fold(S)[R]
  BY <1>2 DEF Folds, R
<1> QED
  BY <1>3, <1>5, <1>6 DEF R

\* f has integers on S.
IsIntegerOn(f, S) == \A x \in S : f[x] \in Int

LEMMA SumType ==
    ASSUME NEW f, NEW S, IsFiniteSet(S), IsIntegerOn(f, S)
    PROVE  Sum(f, S) \in Int
<1> DEFINE Bad == {U \in SUBSET S : Sum(f, U) \notin Int}
<1>1. SUFFICES ASSUME Bad # {}
               PROVE  FALSE
  OBVIOUS
<1>2. PICK U \in Bad : \A V \in SUBSET U : V # U => V \notin Bad
  <2>1. Bad \subseteq SUBSET S
    OBVIOUS
  <2> HIDE DEF Bad
  <2> QED
    BY <1>1, <2>1, SmallestSet
<1>3. U \in SUBSET S /\ Sum(f, U) \notin Int /\ IsFiniteSet(U)
  BY FS_Subset
<1>4. Sum(f, U) = IF U = {} THEN 0 ELSE f[First(U)] + Sum(f, U \ {First(U)})
  BY <1>3, SumStep
<1>5. ASSUME U # {}
      PROVE  f[First(U)] \in Int /\ Sum(f, U \ {First(U)}) \in Int
  <2>1. First(U) \in U
    BY <1>5, FirstIsElement
  <2>2. U \ {First(U)} \in SUBSET U /\ U \ {First(U)} # U
    BY <2>1
  <2>3. U \ {First(U)} \notin Bad
    BY <1>2, <2>2
  <2> QED
    BY <1>3, <2>1, <2>2, <2>3 DEF IsIntegerOn
<1> QED
  BY <1>3, <1>4, <1>5

\* Any element may be taken first.
LEMMA SumTakes ==
    ASSUME NEW f, NEW S, IsFiniteSet(S), IsIntegerOn(f, S), NEW x \in S
    PROVE  Sum(f, S) = f[x] + Sum(f, S \ {x})
<1> DEFINE Good(U) == \A y \in U : Sum(f, U) = f[y] + Sum(f, U \ {y})
           Bad == {U \in SUBSET S : ~Good(U)}
<1>1. SUFFICES ASSUME Bad # {}
               PROVE  FALSE
  OBVIOUS
<1>2. PICK U \in Bad : \A V \in SUBSET U : V # U => V \notin Bad
  <2>1. Bad \subseteq SUBSET S
    OBVIOUS
  <2> HIDE DEF Bad
  <2> QED
    BY <1>1, <2>1, SmallestSet
<1>3. U \in SUBSET S /\ ~Good(U)
  OBVIOUS
<1>4. PICK y \in U : Sum(f, U) # f[y] + Sum(f, U \ {y})
  BY <1>3
<1> DEFINE c == First(U)
<1>5. c \in U
  BY FirstIsElement
<1>6. \A V \in SUBSET U : V # U => Good(V)
  BY <1>2, <1>3
<1>7. \A V \in SUBSET U : IsFiniteSet(V) /\ IsIntegerOn(f, V)
  BY <1>3, FS_Subset DEF IsIntegerOn
<1>8. Sum(f, U) = f[c] + Sum(f, U \ {c})
  BY <1>4, <1>7, SumStep
<1>9. c # y
  BY <1>4, <1>8
<1> HIDE DEF c
<1>10. Sum(f, U \ {c}) = f[y] + Sum(f, U \ {c, y})
  <2>1. Good(U \ {c}) /\ y \in U \ {c} /\ (U \ {c}) \ {y} = U \ {c, y}
    BY <1>5, <1>6, <1>9
  <2> QED
    BY <2>1
<1>11. Sum(f, U \ {y}) = f[c] + Sum(f, U \ {c, y})
  <2>1. Good(U \ {y}) /\ c \in U \ {y} /\ (U \ {y}) \ {c} = U \ {c, y}
    BY <1>5, <1>6, <1>9
  <2> QED
    BY <2>1
<1>12. f[c] \in Int /\ f[y] \in Int /\ Sum(f, U \ {c, y}) \in Int
  BY <1>3, <1>5, <1>7, SumType DEF IsIntegerOn
<1> QED
  BY <1>4, <1>8, <1>10, <1>11, <1>12

LEMMA SumOfNothing ==
    ASSUME NEW f
    PROVE  Sum(f, {}) = 0
BY SumStep, FS_EmptySet

\* A sum is about the values at its elements only.
LEMMA SumSame ==
    ASSUME NEW f, NEW g, NEW S, IsFiniteSet(S), \A x \in S : f[x] = g[x]
    PROVE  Sum(f, S) = Sum(g, S)
<1> DEFINE Bad == {U \in SUBSET S : Sum(f, U) # Sum(g, U)}
<1>1. SUFFICES ASSUME Bad # {}
               PROVE  FALSE
  OBVIOUS
<1>2. PICK U \in Bad : \A V \in SUBSET U : V # U => V \notin Bad
  <2>1. Bad \subseteq SUBSET S
    OBVIOUS
  <2> HIDE DEF Bad
  <2> QED
    BY <1>1, <2>1, SmallestSet
<1>3. U \in SUBSET S /\ Sum(f, U) # Sum(g, U) /\ IsFiniteSet(U)
  BY FS_Subset
<1>4. /\ Sum(f, U) = IF U = {} THEN 0 ELSE f[First(U)] + Sum(f, U \ {First(U)})
      /\ Sum(g, U) = IF U = {} THEN 0 ELSE g[First(U)] + Sum(g, U \ {First(U)})
  BY <1>3, SumStep
<1>5. ASSUME U # {}
      PROVE  /\ f[First(U)] = g[First(U)]
             /\ Sum(f, U \ {First(U)}) = Sum(g, U \ {First(U)})
  <2>1. First(U) \in U
    BY <1>5, FirstIsElement
  <2>2. U \ {First(U)} \in SUBSET U /\ U \ {First(U)} # U
    BY <2>1
  <2>3. U \ {First(U)} \notin Bad
    BY <1>2, <2>2
  <2> QED
    BY <1>3, <2>1, <2>2, <2>3
<1> QED
  BY <1>3, <1>4, <1>5

\* The sum over a set and one over another that it does not meet.
LEMMA SumOfBoth ==
    ASSUME NEW f, NEW S, NEW T, IsFiniteSet(S), IsFiniteSet(T), S \cap T = {},
           IsIntegerOn(f, S), IsIntegerOn(f, T)
    PROVE  Sum(f, S \cup T) = Sum(f, S) + Sum(f, T)
<1> DEFINE Bad == {U \in SUBSET S : Sum(f, U \cup T) # Sum(f, U) + Sum(f, T)}
<1>1. SUFFICES ASSUME Bad # {}
               PROVE  FALSE
  OBVIOUS
<1>2. PICK U \in Bad : \A V \in SUBSET U : V # U => V \notin Bad
  <2>1. Bad \subseteq SUBSET S
    OBVIOUS
  <2> HIDE DEF Bad
  <2> QED
    BY <1>1, <2>1, SmallestSet
<1>3. U \in SUBSET S /\ Sum(f, U \cup T) # Sum(f, U) + Sum(f, T)
  OBVIOUS
<1>4. IsFiniteSet(U) /\ IsFiniteSet(U \cup T) /\ IsIntegerOn(f, U) /\ IsIntegerOn(f, U \cup T)
  BY <1>3, FS_Subset, FS_Union DEF IsIntegerOn
<1>5. Sum(f, T) \in Int
  BY SumType
<1>6. U # {}
  <2>1. {} \cup T = T
    OBVIOUS
  <2> QED
    BY <1>3, <1>5, <2>1, SumOfNothing
<1>7. PICK x \in U : TRUE
  BY <1>6
<1> DEFINE V == U \ {x}
<1>8. V \in SUBSET U /\ V # U /\ V \notin Bad
  BY <1>2
<1>9. Sum(f, V \cup T) = Sum(f, V) + Sum(f, T)
  BY <1>3, <1>8
<1>10. Sum(f, U) = f[x] + Sum(f, V)
  BY <1>4, SumTakes
<1>11. Sum(f, U \cup T) = f[x] + Sum(f, V \cup T)
  <2>1. x \in U \cup T /\ (U \cup T) \ {x} = V \cup T
    BY <1>3
  <2> HIDE DEF V
  <2> QED
    BY <1>4, <2>1, SumTakes
<1>12. f[x] \in Int /\ Sum(f, V) \in Int
  <2>1. IsFiniteSet(V) /\ IsIntegerOn(f, V)
    BY <1>4, FS_Subset DEF IsIntegerOn
  <2> HIDE DEF V
  <2> QED
    BY <1>4, <2>1, SumType DEF IsIntegerOn
<1> HIDE DEF V
<1> QED
  BY <1>3, <1>5, <1>9, <1>10, <1>11, <1>12

\* The sum over a part of a set and one over the rest.
LEMMA SumOfParts ==
    ASSUME NEW f, NEW S, NEW T, IsFiniteSet(S), T \subseteq S, IsIntegerOn(f, S)
    PROVE  Sum(f, S) = Sum(f, T) + Sum(f, S \ T)
<1>1. IsFiniteSet(T) /\ IsFiniteSet(S \ T) /\ T \cap (S \ T) = {} /\ T \cup (S \ T) = S
  BY FS_Subset
<1>2. IsIntegerOn(f, T) /\ IsIntegerOn(f, S \ T)
  BY DEF IsIntegerOn
<1> QED
  BY <1>1, <1>2, SumOfBoth

\* One value changes by an amount.
LEMMA SumChanges ==
    ASSUME NEW f, NEW g, NEW S, IsFiniteSet(S), IsIntegerOn(f, S),
           NEW x, NEW amount \in Int, x \in S => g[x] = f[x] + amount,
           \A y \in S : y # x => g[y] = f[y]
    PROVE  Sum(g, S) = Sum(f, S) + (IF x \in S THEN amount ELSE 0)
<1>1. Sum(f, S) \in Int
  BY SumType
<1>2. CASE x \notin S
  <2>1. Sum(f, S) = Sum(g, S)
    BY <1>2, SumSame
  <2> QED
    BY <1>1, <1>2, <2>1
<1>3. CASE x \in S
  <2> DEFINE R == S \ {x}
  <2>1. IsFiniteSet(R) /\ IsIntegerOn(f, R) /\ IsIntegerOn(g, S)
    BY <1>3, FS_Subset DEF IsIntegerOn
  <2>2. Sum(f, S) = f[x] + Sum(f, R) /\ Sum(g, S) = g[x] + Sum(g, R)
    BY <1>3, <2>1, SumTakes
  <2>3. Sum(f, R) = Sum(g, R)
    <3>1. \A y \in R : f[y] = g[y]
      OBVIOUS
    <3> HIDE DEF R
    <3> QED
      BY <2>1, <3>1, SumSame
  <2>4. f[x] \in Int /\ Sum(f, R) \in Int
    BY <1>3, <2>1, SumType DEF IsIntegerOn
  <2> HIDE DEF R
  <2> QED
    BY <1>3, <2>2, <2>3, <2>4
<1> QED
  BY <1>2, <1>3

\* A sum of naturals is one, and it is zero when they all are.
LEMMA SumIsNatural ==
    ASSUME NEW f, NEW S, IsFiniteSet(S), \A x \in S : f[x] \in Nat
    PROVE  Sum(f, S) \in Nat /\ (Sum(f, S) = 0 <=> \A x \in S : f[x] = 0)
<1> DEFINE Good(U) == Sum(f, U) \in Nat /\ (Sum(f, U) = 0 <=> \A x \in U : f[x] = 0)
           Bad == {U \in SUBSET S : ~Good(U)}
<1>1. SUFFICES ASSUME Bad # {}
               PROVE  FALSE
  OBVIOUS
<1>2. PICK U \in Bad : \A V \in SUBSET U : V # U => V \notin Bad
  <2>1. Bad \subseteq SUBSET S
    OBVIOUS
  <2> HIDE DEF Bad
  <2> QED
    BY <1>1, <2>1, SmallestSet
<1>3. U \in SUBSET S /\ ~Good(U)
  OBVIOUS
<1>4. IsFiniteSet(U) /\ IsIntegerOn(f, U)
  BY <1>3, FS_Subset DEF IsIntegerOn
<1>5. U # {}
  BY <1>3, SumOfNothing
<1>6. PICK x \in U : TRUE
  BY <1>5
<1> DEFINE V == U \ {x}
<1>7. V \in SUBSET U /\ V # U /\ V \notin Bad
  BY <1>2
<1>8. Good(V)
  BY <1>3, <1>7
<1>9. Sum(f, U) = f[x] + Sum(f, V) /\ f[x] \in Nat
  BY <1>3, <1>4, SumTakes
<1>10. (\A y \in U : f[y] = 0) <=> f[x] = 0 /\ (\A y \in V : f[y] = 0)
  OBVIOUS
<1> HIDE DEF V
<1>11. Good(U)
  BY <1>8, <1>9, <1>10
<1> QED
  BY <1>3, <1>11

\* The sum of the opposites.
LEMMA SumNegates ==
    ASSUME NEW f, NEW g, NEW S, IsFiniteSet(S), IsIntegerOn(f, S), \A x \in S : g[x] = -f[x]
    PROVE  Sum(g, S) = -Sum(f, S)
<1> DEFINE Bad == {U \in SUBSET S : Sum(g, U) # -Sum(f, U)}
<1>1. SUFFICES ASSUME Bad # {}
               PROVE  FALSE
  OBVIOUS
<1>2. PICK U \in Bad : \A V \in SUBSET U : V # U => V \notin Bad
  <2>1. Bad \subseteq SUBSET S
    OBVIOUS
  <2> HIDE DEF Bad
  <2> QED
    BY <1>1, <2>1, SmallestSet
<1>3. U \in SUBSET S /\ Sum(g, U) # -Sum(f, U)
  OBVIOUS
<1>4. IsFiniteSet(U) /\ IsIntegerOn(f, U) /\ IsIntegerOn(g, U)
  BY <1>3, FS_Subset DEF IsIntegerOn
<1>5. U # {}
  BY <1>3, SumOfNothing
<1>6. PICK x \in U : TRUE
  BY <1>5
<1> DEFINE V == U \ {x}
<1>7. V \in SUBSET U /\ V # U /\ V \notin Bad
  BY <1>2
<1>8. Sum(g, V) = -Sum(f, V)
  BY <1>3, <1>7
<1>9. Sum(f, U) = f[x] + Sum(f, V) /\ Sum(g, U) = g[x] + Sum(g, V)
  BY <1>4, SumTakes
<1>10. f[x] \in Int /\ g[x] = -f[x] /\ Sum(f, V) \in Int
  <2>1. IsFiniteSet(V) /\ IsIntegerOn(f, V)
    BY <1>4, FS_Subset DEF IsIntegerOn
  <2> HIDE DEF V
  <2> QED
    BY <1>3, <1>4, <2>1, SumType DEF IsIntegerOn
<1> HIDE DEF V
<1> QED
  BY <1>3, <1>8, <1>9, <1>10

\* Sums with no value, one or two that are not zero.
LEMMA SumOfZeros ==
    ASSUME NEW f, NEW S, IsFiniteSet(S), \A x \in S : f[x] = 0
    PROVE  Sum(f, S) = 0
BY SumIsNatural

LEMMA SumOfOne ==
    ASSUME NEW f, NEW S, IsFiniteSet(S), IsIntegerOn(f, S), NEW x \in S,
           \A y \in S : y # x => f[y] = 0
    PROVE  Sum(f, S) = f[x]
<1>1. Sum(f, S) = f[x] + Sum(f, S \ {x})
  BY SumTakes
<1>2. IsFiniteSet(S \ {x}) /\ \A y \in S \ {x} : f[y] = 0
  BY FS_Subset
<1>3. Sum(f, S \ {x}) = 0
  BY <1>2, SumOfZeros
<1>4. f[x] \in Int
  BY DEF IsIntegerOn
<1> QED
  BY <1>1, <1>3, <1>4

LEMMA SumOfTwo ==
    ASSUME NEW f, NEW S, IsFiniteSet(S), IsIntegerOn(f, S), NEW x \in S, NEW z \in S, x # z,
           \A y \in S : y # x /\ y # z => f[y] = 0
    PROVE  Sum(f, S) = f[x] + f[z]
<1>1. Sum(f, S) = f[x] + Sum(f, S \ {x})
  BY SumTakes
<1>2. IsFiniteSet(S \ {x}) /\ IsIntegerOn(f, S \ {x}) /\ z \in S \ {x}
      /\ \A y \in S \ {x} : y # z => f[y] = 0
  BY FS_Subset DEF IsIntegerOn
<1>3. Sum(f, S \ {x}) = f[z]
  BY <1>2, SumOfOne
<1> QED
  BY <1>1, <1>3

-----------------------------------------------------------------------------
(* Sequences laid end to end. *)

Appends(g, s, m) == g = [i \in 1..m |-> IF i = 1 THEN s[i] ELSE g[i - 1] \o s[i]]

LEMMA FlatIsLast ==
    ASSUME NEW s, Len(s) # 0
    PROVE  FlattenSeq(s) = (CHOOSE g : Appends(g, s, Len(s)))[Len(s)]
BY DEF FlattenSeq, Appends

LEMMA SomeAppends ==
    ASSUME NEW s, NEW n \in Nat
    PROVE  \E g : Appends(g, s, n)
<1> DEFINE Bad == {m \in Nat : ~ \E g : Appends(g, s, m)}
<1>1. SUFFICES ASSUME Bad # {}
               PROVE  FALSE
  OBVIOUS
<1>2. PICK m \in Bad : \A k \in Bad : m <= k
  <2>1. Bad \subseteq Nat
    OBVIOUS
  <2> HIDE DEF Bad
  <2> QED
    BY <1>1, <2>1, Smallest
<1>3. m \in Nat /\ ~ \E g : Appends(g, s, m)
  OBVIOUS
<1>4. m # 0
  <2>1. Appends([i \in 1..0 |-> s], s, 0)
    BY DEF Appends
  <2> QED
    BY <1>3, <2>1
<1>5. m - 1 \notin Bad /\ m - 1 \in Nat
  BY <1>2, <1>3, <1>4
<1>6. PICK g : Appends(g, s, m - 1)
  BY <1>5
<1> DEFINE h == [i \in 1..m |-> IF i \in 1..m - 1 THEN g[i]
                                ELSE IF m = 1 THEN s[1] ELSE g[m - 1] \o s[m]]
           k == [i \in 1..m |-> IF i = 1 THEN s[i] ELSE h[i - 1] \o s[i]]
<1>7. ASSUME NEW i \in 1..m
      PROVE  h[i] = IF i = 1 THEN s[i] ELSE h[i - 1] \o s[i]
  <2>1. CASE i \in 1..m - 1
    <3>1. g[i] = IF i = 1 THEN s[i] ELSE g[i - 1] \o s[i]
      BY <1>6, <2>1 DEF Appends
    <3>2. i # 1 => i - 1 \in 1..m - 1 /\ i - 1 \in 1..m
      BY <1>3, <2>1
    <3> QED
      BY <2>1, <3>1, <3>2
  <2>2. CASE i = m
    <3>1. i \notin 1..m - 1 /\ (i # 1 => i - 1 \in 1..m - 1 /\ i - 1 \in 1..m)
      BY <1>3, <1>4, <2>2
    <3> QED
      BY <2>2, <3>1
  <2> QED
    BY <1>3, <2>1, <2>2
<1>8. h = k
  <2>1. \A i \in 1..m : h[i] = k[i]
    BY <1>7
  <2> QED
    BY <2>1
<1>9. Appends(h, s, m)
  <2> HIDE DEF h
  <2> QED
    BY <1>8 DEF Appends
<1> QED
  BY <1>3, <1>9

\* What does not fall from one place to the next does not fall.
LEMMA Grows ==
    ASSUME NEW n \in Nat, NEW a \in [1..n -> Int], \A i \in 1..n - 1 : a[i] <= a[i + 1],
           NEW i \in 1..n, NEW j \in 1..n, i <= j
    PROVE  a[i] <= a[j]
<1> DEFINE Bad == {l \in i..n : a[i] > a[l]}
<1>1. SUFFICES ASSUME Bad # {}
               PROVE  FALSE
  <2>1. j \in i..n
    OBVIOUS
  <2>2. a[i] \in Int /\ a[j] \in Int
    OBVIOUS
  <2>3. SUFFICES ASSUME a[i] > a[j]
                 PROVE  FALSE
    BY <2>2
  <2>4. j \in Bad
    BY <2>1, <2>3
  <2> HIDE DEF Bad
  <2> QED
    BY <1>1, <2>4
<1>2. PICK l \in Bad : \A k \in Bad : l <= k
  <2>1. Bad \subseteq Nat
    OBVIOUS
  <2> HIDE DEF Bad
  <2> QED
    BY <1>1, <2>1, Smallest
<1>3. l \in i..n /\ a[i] > a[l]
  OBVIOUS
<1>4. l # i
  <2>1. a[i] \in Int
    OBVIOUS
  <2> QED
    BY <1>3, <2>1
<1>5. l - 1 \in i..n /\ l - 1 \in 1..n - 1 /\ ~(l <= l - 1) /\ (l - 1) + 1 = l
  BY <1>3, <1>4
<1>6. ~(a[i] > a[l - 1])
  BY <1>2, <1>5
<1>7. a[l - 1] <= a[l]
  BY <1>5
<1>8. a[i] \in Int /\ a[l - 1] \in Int /\ a[l] \in Int
  BY <1>3, <1>5
<1> QED
  BY <1>3, <1>6, <1>7, <1>8

\* What rises from one place to the next rises.
LEMMA Rises ==
    ASSUME NEW n \in Nat, NEW a \in [1..n -> Int], \A i \in 1..n - 1 : a[i] < a[i + 1],
           NEW i \in 1..n, NEW j \in 1..n, i < j
    PROVE  a[i] < a[j]
<1>1. \A k \in 1..n - 1 : a[k] <= a[k + 1]
  <2> TAKE k \in 1..n - 1
  <2>1. a[k] \in Int /\ a[k + 1] \in Int
    OBVIOUS
  <2> QED
    BY <2>1
<1>2. i \in 1..n - 1 /\ i + 1 \in 1..n /\ i + 1 <= j
  OBVIOUS
<1>3. a[i + 1] <= a[j]
  BY <1>1, <1>2, Grows
<1>4. a[i] < a[i + 1]
  BY <1>2
<1>5. a[i] \in Int /\ a[i + 1] \in Int /\ a[j] \in Int
  BY <1>2
<1> QED
  BY <1>3, <1>4, <1>5

\* The sequences s, laid end to end, are flat: the i-th begins behind place at[i].
Places(s, n, flat, at) ==
    /\ at \in [1..n + 1 -> Nat]
    /\ at[1] = 0
    /\ \A i \in 1..n : at[i + 1] = at[i] + Len(s[i])
    /\ Len(flat) = at[n + 1]
    /\ \A i \in 1..n : \A j \in 1..Len(s[i]) : flat[at[i] + j] = s[i][j]

LEMMA Appended ==
    ASSUME NEW X, NEW n \in Nat, NEW s \in [1..n -> Seq(X)], NEW g, Appends(g, s, n),
           NEW m \in 1..n
    PROVE  g[m] \in Seq(X) /\ \E at : Places(s, m, g[m], at)
<1> DEFINE Good(k) == g[k] \in Seq(X) /\ \E at : Places(s, k, g[k], at)
           Bad == {k \in 1..n : ~Good(k)}
<1>1. SUFFICES ASSUME Bad # {}
               PROVE  FALSE
  OBVIOUS
<1>2. PICK k \in Bad : \A l \in Bad : k <= l
  <2>1. Bad \subseteq Nat
    OBVIOUS
  <2> HIDE DEF Bad
  <2> QED
    BY <1>1, <2>1, Smallest
<1>3. k \in 1..n /\ ~Good(k)
  OBVIOUS
<1>4. s[k] \in Seq(X) /\ Len(s[k]) \in Nat
  BY <1>3
<1>5. g[k] = IF k = 1 THEN s[k] ELSE g[k - 1] \o s[k]
  BY <1>3 DEF Appends
<1>6. CASE k = 1
  <2> DEFINE at == [i \in 1..2 |-> IF i = 1 THEN 0 ELSE Len(s[1])]
  <2>1. at \in [1..2 -> Nat] /\ at[1] = 0 /\ at[2] = Len(s[1])
    BY <1>4, <1>6
  <2>2. \A i \in 1..1 : i = 1
    OBVIOUS
  <2>3. Places(s, k, g[k], at)
    <3> HIDE DEF at
    <3> QED
      BY <1>4, <1>5, <1>6, <2>1, <2>2 DEF Places
  <2> QED
    BY <1>3, <1>4, <1>5, <1>6, <2>3
<1>7. CASE k # 1
  <2>1. k - 1 \in 1..n /\ ~(k <= k - 1)
    BY <1>3, <1>7
  <2>2. Good(k - 1)
    BY <1>2, <2>1
  <2>3. PICK a : Places(s, k - 1, g[k - 1], a)
    BY <2>2
  <2> DEFINE p == g[k - 1]
             at == [i \in 1..k + 1 |-> IF i = k + 1 THEN a[k] + Len(s[k]) ELSE a[i]]
  <2>4. /\ a \in [1..k -> Nat] /\ a[1] = 0
        /\ \A i \in 1..k - 1 : a[i + 1] = a[i] + Len(s[i])
        /\ Len(p) = a[k]
        /\ \A i \in 1..k - 1 : \A j \in 1..Len(s[i]) : p[a[i] + j] = s[i][j]
    <3>1. (k - 1) + 1 = k
      BY <1>3
    <3> QED
      BY <2>3, <3>1 DEF Places
  <2>5. p \in Seq(X) /\ g[k] = p \o s[k]
    BY <1>5, <1>7, <2>2
  <2>6. /\ at \in [1..k + 1 -> Nat]
        /\ at[1] = 0 /\ at[k + 1] = a[k] + Len(s[k])
        /\ \A i \in 1..k : at[i] = a[i]
    <3>1. k \in 1..k
      BY <1>3
    <3> QED
      BY SMTT(30), <1>3, <1>4, <1>7, <2>4, <3>1
  <2>7. \A i \in 1..k : at[i + 1] = at[i] + Len(s[i])
    <3> TAKE i \in 1..k
    <3>1. CASE i = k
      BY <2>6, <3>1
    <3>2. CASE i \in 1..k - 1
      <4>1. i + 1 \in 1..k /\ i \in 1..k
        BY <1>3, <3>2
      <4> HIDE DEF at
      <4> QED
        BY <2>4, <2>6, <3>2, <4>1
    <3> QED
      BY <1>3, <3>1, <3>2
  <2> HIDE DEF at
  <2>8. Len(g[k]) = at[k + 1]
    BY <1>4, <2>4, <2>5, <2>6
  <2>9. ASSUME NEW i \in 1..k, NEW j \in 1..Len(s[i])
        PROVE  g[k][at[i] + j] = s[i][j]
    <3>1. s[i] \in Seq(X) /\ Len(s[i]) \in Nat
      BY <1>3
    <3>2. CASE i = k
      <4>1. (p \o s[k])[Len(p) + j] = s[k][j]
        <5> HIDE DEF p
        <5> QED
          BY <1>4, <2>5, <2>9, <3>2
      <4> QED
        BY <2>4, <2>5, <2>6, <3>2, <4>1
    <3>3. CASE i \in 1..k - 1
      <4>1. a[i] + j \in 1..Len(p)
        <5>1. a[i] + Len(s[i]) = a[i + 1] /\ i + 1 \in 1..k /\ a[i] \in Nat
          BY <1>3, <2>4, <3>3
        <5>2. \A l \in 1..k - 1 : a[l] <= a[l + 1]
          <6> TAKE l \in 1..k - 1
          <6>1. Len(s[l]) \in Nat /\ a[l] \in Nat
            BY SMTT(30), <1>3, <2>4
          <6> QED
            BY <2>4, <6>1
        <5>3. a[i + 1] <= a[k]
          <6>0. k \in Nat /\ k \in 1..k /\ i + 1 <= k
            BY <1>3, <3>3
          <6>1. a \in [1..k -> Int]
            BY <2>4
          <6> QED
            BY <5>1, <5>2, <6>0, <6>1, Grows
        <5>4. a[k] \in Nat /\ a[i + 1] \in Nat
          BY <1>3, <2>4, <5>1
        <5>5. j \in Nat /\ 1 <= j /\ j <= Len(s[i])
          BY <2>9, <3>1
        <5>6. a[i] + j \in Nat /\ 1 <= a[i] + j /\ a[i] + j <= a[k]
          BY SMTT(30), <3>1, <5>1, <5>3, <5>4, <5>5
        <5>7. Len(p) = a[k]
          BY <2>4
        <5> HIDE DEF p
        <5> QED
          BY <5>4, <5>6, <5>7
      <4>2. (p \o s[k])[a[i] + j] = p[a[i] + j]
        <5> HIDE DEF p
        <5> QED
          BY <1>4, <2>5, <4>1
      <4> QED
        BY <1>3, <2>4, <2>5, <2>6, <3>3, <4>2
    <3> QED
      BY <1>3, <3>2, <3>3
  <2>10. Places(s, k, g[k], at)
    BY <2>6, <2>7, <2>8, <2>9 DEF Places
  <2>11. g[k] \in Seq(X)
    BY <1>4, <2>5
  <2> QED
    BY <1>3, <2>10, <2>11
<1> QED
  BY <1>6, <1>7

LEMMA Flattened ==
    ASSUME NEW X, NEW n \in Nat \ {0}, NEW s \in [1..n -> Seq(X)]
    PROVE  FlattenSeq(s) \in Seq(X) /\ \E at : Places(s, n, FlattenSeq(s), at)
<1>1. Len(s) = n
  <2>1. s \in Seq(Seq(X))
    OBVIOUS
  <2> QED
    BY <2>1
<1> DEFINE g == CHOOSE h : Appends(h, s, n)
<1>2. FlattenSeq(s) = g[n]
  BY <1>1, FlatIsLast
<1>3. Appends(g, s, n)
  BY SomeAppends
<1>4. n \in 1..n
  OBVIOUS
<1> HIDE DEF g
<1> QED
  BY <1>2, <1>3, <1>4, Appended

\* The places do not fall.
LEMMA PlacesGrow ==
    ASSUME NEW X, NEW n \in Nat \ {0}, NEW s \in [1..n -> Seq(X)], NEW flat, NEW at,
           Places(s, n, flat, at)
    PROVE  \A i, j \in 1..n + 1 : i <= j => at[i] <= at[j]
<1>1. /\ at \in [1..n + 1 -> Int]
      /\ \A i \in 1..n : at[i + 1] = at[i] + Len(s[i])
      /\ \A i \in 1..n + 1 : at[i] \in Nat
  BY DEF Places
<1>2. \A i \in 1..n : Len(s[i]) \in Nat
  OBVIOUS
<1>3. \A i \in 1..n : at[i] <= at[i + 1]
  <2> TAKE i \in 1..n
  <2>1. at[i] \in Nat /\ Len(s[i]) \in Nat /\ at[i + 1] = at[i] + Len(s[i])
    BY <1>1, <1>2
  <2> QED
    BY <2>1
<1>4. ASSUME NEW i \in 1..n + 1, NEW j \in 1..n + 1, i <= j
      PROVE  at[i] <= at[j]
  <2>1. n + 1 \in Nat /\ (n + 1) - 1 = n
    OBVIOUS
  <2> QED
    BY <1>1, <1>3, <1>4, <2>1, Grows
<1> QED
  BY <1>4

\* The k-th element of the whole is one of the i-th sequence's.
IsAt(s, n, at, k, i) == i \in 1..n /\ \E j \in 1..Len(s[i]) : k = at[i] + j

LEMMA PlaceOf ==
    ASSUME NEW X, NEW n \in Nat \ {0}, NEW s \in [1..n -> Seq(X)], NEW flat, NEW at,
           Places(s, n, flat, at), NEW k \in 1..Len(flat)
    PROVE  \E i : IsAt(s, n, at, k, i)
<1>1. /\ at[1] = 0 /\ Len(flat) = at[n + 1]
      /\ \A i \in 1..n : at[i + 1] = at[i] + Len(s[i])
      /\ \A i \in 1..n + 1 : at[i] \in Nat
  BY DEF Places
<1>2. \A i \in 1..n : Len(s[i]) \in Nat
  OBVIOUS
<1> DEFINE D == {i \in 1..n + 1 : k <= at[i]}
<1>3. n + 1 \in D /\ k \in Nat /\ 1 <= k
  BY <1>1
<1>4. PICK l \in D : \A i \in D : l <= i
  <2>1. D \subseteq Nat /\ D # {}
    BY <1>3
  <2> HIDE DEF D
  <2> QED
    BY <2>1, Smallest
<1>5. l \in 1..n + 1 /\ k <= at[l]
  OBVIOUS
<1>6. l # 1
  BY <1>1, <1>3, <1>5
<1>7. l - 1 \in 1..n /\ l - 1 \in 1..n + 1 /\ ~(l <= l - 1) /\ (l - 1) + 1 = l
  BY <1>5, <1>6
<1>8. ~(k <= at[l - 1])
  BY <1>4, <1>7
<1>9. at[l] = at[l - 1] + Len(s[l - 1]) /\ at[l - 1] \in Nat /\ Len(s[l - 1]) \in Nat
  BY <1>1, <1>2, <1>7
<1>10. k - at[l - 1] \in 1..Len(s[l - 1]) /\ k = at[l - 1] + (k - at[l - 1])
  BY <1>3, <1>5, <1>8, <1>9
<1> QED
  BY <1>7, <1>10 DEF IsAt

-----------------------------------------------------------------------------
(* The walk of the lens. *)

LEMMA Division ==
    ASSUME NEW a \in Int, NEW b \in Nat \ {0}
    PROVE  /\ a \div b \in Int /\ a % b \in Int
           /\ a = b * (a \div b) + (a % b) /\ 0 <= a % b /\ a % b < b
OBVIOUS

LEMMA DivisionIsUnique ==
    ASSUME NEW b \in Nat \ {0}, NEW q \in Int, NEW r \in Int, 0 <= r, r < b
    PROVE  (b * q + r) \div b = q /\ (b * q + r) % b = r
<1>1. (b * q + r) \div b = q
  OBVIOUS
<1>2. (b * q + r) % b = r
  OBVIOUS
<1> QED
  BY <1>1, <1>2

LEMMA DivisionGrows ==
    ASSUME NEW a \in Int, NEW c \in Int, a <= c, NEW b \in Nat \ {0}
    PROVE  a \div b <= c \div b
OBVIOUS

\* The liquidity of each position is a natural number.
IsLiquidity(liquidity) == liquidity \in [Positions -> Nat]

LEMMA PositionsFinite ==
    /\ IsFiniteSet(Positions) /\ IsFiniteSet(Ticks) /\ Ticks \subseteq Int
    /\ \A q \in Positions : /\ q[1] \in Ticks /\ q[2] \in Ticks
                            /\ q[1] < q[2] /\ q[1] % Spacing = 0 /\ q[2] % Spacing = 0
<1>1. IsFiniteSet(Ticks) /\ Ticks \subseteq Int
  BY LensAssumption, FS_Interval DEF Ticks
<1>2. IsFiniteSet(Positions)
  BY <1>1, LensAssumption, FS_Product, FS_Subset
<1> QED
  BY <1>1, <1>2, LensAssumption

LEMMA SumOfPositions ==
    ASSUME NEW liquidity, IsLiquidity(liquidity), NEW S, S \subseteq Positions
    PROVE  /\ IsFiniteSet(S) /\ IsIntegerOn(liquidity, S)
           /\ Sum(liquidity, S) \in Nat
           /\ Sum(liquidity, S) = 0 <=> \A q \in S : liquidity[q] = 0
<1>1. IsFiniteSet(S) /\ \A q \in S : liquidity[q] \in Nat
  BY PositionsFinite, FS_Subset DEF IsLiquidity
<1> QED
  BY <1>1, SumIsNatural DEF IsIntegerOn

\* Where no position begins or ends, the liquidity does not change.
LEMMA NetType ==
    ASSUME NEW liquidity, IsLiquidity(liquidity), NEW t
    PROVE  /\ LiquidityGross(liquidity, t) \in Nat /\ LiquidityNet(liquidity, t) \in Int
           /\ t \in Ticks \ Initialised(liquidity) => LiquidityNet(liquidity, t) = 0
<1> DEFINE A == {q \in Positions : t \in {q[1], q[2]}}
           B == {q \in Positions : q[1] = t}
           C == {q \in Positions : q[2] = t}
<1>1. A \subseteq Positions /\ B \subseteq Positions /\ C \subseteq Positions /\ B \subseteq A /\ C \subseteq A
  OBVIOUS
<1>2. /\ LiquidityGross(liquidity, t) = Sum(liquidity, A)
      /\ LiquidityNet(liquidity, t) = Sum(liquidity, B) - Sum(liquidity, C)
  BY DEF LiquidityGross, LiquidityNet
<1> HIDE DEF A, B, C
<1>3. Sum(liquidity, A) \in Nat /\ Sum(liquidity, B) \in Nat /\ Sum(liquidity, C) \in Nat
  BY <1>1, SumOfPositions
<1>4. Sum(liquidity, A) = 0 => Sum(liquidity, B) = 0 /\ Sum(liquidity, C) = 0
  BY <1>1, SumOfPositions
<1> QED
  BY <1>2, <1>3, <1>4 DEF Initialised

\* The initialised ticks are the ends of positions with liquidity.
LEMMA InitialisedTicks ==
    ASSUME NEW liquidity, IsLiquidity(liquidity), NEW t
    PROVE  t \in Initialised(liquidity) <=> \E q \in Positions : liquidity[q] > 0 /\ t \in {q[1], q[2]}
<1> DEFINE A == {q \in Positions : t \in {q[1], q[2]}}
<1>1. LiquidityGross(liquidity, t) = Sum(liquidity, A) /\ A \subseteq Positions
  BY DEF LiquidityGross
<1>2. \A q \in A : liquidity[q] \in Nat
  BY DEF IsLiquidity
<1>3. A # {} => t \in Ticks
  BY PositionsFinite
<1>4. Sum(liquidity, A) \in Nat /\ (Sum(liquidity, A) = 0 <=> \A q \in A : liquidity[q] = 0)
  <2> HIDE DEF A
  <2> QED
    BY <1>1, SumOfPositions
<1>5. LiquidityGross(liquidity, t) > 0 <=> \E q \in A : liquidity[q] > 0
  <2> HIDE DEF A
  <2> QED
    BY <1>1, <1>2, <1>4
<1> QED
  BY <1>3, <1>5 DEF Initialised

\* The word of the bitmap a tick is in.
WordOf(t) == (t \div Spacing) \div WordBits

\* A tick is found again from its word and bit.
LEMMA TickOfBit ==
    ASSUME NEW t \in Int, t % Spacing = 0
    PROVE  /\ WordOf(t) \in Int /\ (t \div Spacing) % WordBits \in 0..WordBits - 1
           /\ t = (WordOf(t) * WordBits + ((t \div Spacing) % WordBits)) * Spacing
<1>1. Spacing \in Nat \ {0} /\ WordBits \in Nat \ {0}
  BY LensAssumption
<1> DEFINE k == t \div Spacing
<1>2. k \in Int /\ t = Spacing * k
  BY <1>1, Division
<1>3. k \div WordBits \in Int /\ k % WordBits \in 0..WordBits - 1
      /\ k = WordBits * (k \div WordBits) + (k % WordBits)
  <2> HIDE DEF k
  <2> QED
    BY <1>1, <1>2, Division
<1>4. WordOf(t) = k \div WordBits
  BY DEF WordOf
<1> DEFINE w == k \div WordBits
           r == k % WordBits
<1> HIDE DEF w, r
<1>5. k = w * WordBits + r
  <2> HIDE DEF k
  <2>1. w \in Int /\ r \in Int /\ k = WordBits * w + r
    BY <1>3 DEF w, r
  <2>2. WordBits * w = w * WordBits
    BY <1>1, <2>1
  <2> QED
    BY <2>1, <2>2
<1>6. t = k * Spacing
  <2> HIDE DEF k
  <2> QED
    BY <1>1, <1>2
<1>7. t = (w * WordBits + r) * Spacing
  BY <1>5, <1>6
<1>8. w = WordOf(t) /\ r = (t \div Spacing) % WordBits
  BY <1>4 DEF w, r
<1>9. w \in Int /\ r \in 0..WordBits - 1
  BY <1>3 DEF w, r
<1> HIDE DEF k
<1> QED
  BY <1>7, <1>8, <1>9, Zenon

\* The ticks of a lower word are lower.
LEMMA LowerWord ==
    ASSUME NEW t \in Int, NEW u \in Int, WordOf(t) < WordOf(u)
    PROVE  t < u
<1>1. Spacing \in Nat \ {0} /\ WordBits \in Nat \ {0}
  BY LensAssumption
<1>2. SUFFICES ASSUME u <= t
               PROVE  FALSE
  OBVIOUS
<1>3. u \div Spacing \in Int /\ t \div Spacing \in Int /\ u \div Spacing <= t \div Spacing
  BY <1>1, <1>2, Division, DivisionGrows
<1>4. WordOf(u) \in Int /\ WordOf(t) \in Int /\ WordOf(u) <= WordOf(t)
  BY <1>1, <1>3, Division, DivisionGrows DEF WordOf
<1> QED
  BY <1>4

\* Every tick is in a word that is read.
LEMMA WordsCoverTicks ==
    /\ MinWord \in Int /\ MaxWord \in Int /\ MinWord <= MaxWord
    /\ \A t \in Ticks : t % Spacing = 0 => MinWord <= WordOf(t) /\ WordOf(t) <= MaxWord
<1>1. Spacing \in Nat \ {0} /\ WordBits \in Nat \ {0} /\ MaxTick \in Nat
  BY LensAssumption
<1> DEFINE m == MaxTick \div Spacing
<1>2. m \in Int /\ MaxTick = Spacing * m + (MaxTick % Spacing)
      /\ 0 <= MaxTick % Spacing /\ MaxTick % Spacing < Spacing /\ MaxTick % Spacing \in Int
  BY <1>1, Division
<1> HIDE DEF m
<1>3. Quotient(MaxTick, Spacing) = m /\ Quotient(-MaxTick, Spacing) = -m /\ 0 <= m
  <2>1. 0 <= m
    BY <1>1 DEF m
  <2>2. Quotient(MaxTick, Spacing) = m
    BY <1>1 DEF Quotient, m
  <2>3. CASE MaxTick = 0
    <3>1. m = 0
      BY <1>1, <2>3 DEF m
    <3> QED
      BY <1>1, <2>1, <2>2, <2>3, <3>1 DEF Quotient, m
  <2>4. CASE MaxTick # 0
    <3>1. ~(-MaxTick >= 0) /\ -(-MaxTick) = MaxTick
      BY <1>1, <2>4
    <3> QED
      BY <2>1, <2>2, <3>1 DEF Quotient, m
  <2> QED
    BY <2>3, <2>4
<1>4. /\ MinWord = (-m) \div WordBits /\ MaxWord = m \div WordBits
      /\ MinWord \in Int /\ MaxWord \in Int /\ MinWord <= MaxWord
  <2>1. MinWord = (-m) \div WordBits /\ MaxWord = m \div WordBits
    BY <1>3 DEF MinWord, MaxWord
  <2>2. -m \in Int /\ -m <= m
    BY <1>2, <1>3
  <2> QED
    BY <1>1, <1>2, <2>1, <2>2, Division, DivisionGrows
<1>5. ASSUME NEW t \in Ticks, t % Spacing = 0
      PROVE  MinWord <= WordOf(t) /\ WordOf(t) <= MaxWord
  <2>1. t \in Int /\ -MaxTick <= t /\ t <= MaxTick
    BY <1>1 DEF Ticks
  <2> DEFINE k == t \div Spacing
  <2>2. k \in Int /\ t = Spacing * k
    BY <1>1, <1>5, <2>1, Division
  <2> HIDE DEF k
  <2>3. k <= m
    <3>1. SUFFICES ASSUME m < k
                   PROVE  FALSE
      BY <1>2, <2>2
    <3>2. Spacing * m + Spacing <= Spacing * k
      BY <1>1, <1>2, <2>2, <3>1
    <3>3. Spacing * m \in Int /\ Spacing * k \in Int
      BY <1>1, <1>2, <2>2
    <3> QED
      BY <1>1, <1>2, <2>1, <2>2, <3>2, <3>3
  <2>4. -m <= k
    <3>1. SUFFICES ASSUME m < -k
                   PROVE  FALSE
      BY <1>2, <2>2
    <3>2. Spacing * m + Spacing <= Spacing * (-k)
      BY <1>1, <1>2, <2>2, <3>1
    <3>3. Spacing * m \in Int /\ Spacing * k \in Int /\ Spacing * (-k) = -(Spacing * k)
      BY <1>1, <1>2, <2>2
    <3> QED
      BY <1>1, <1>2, <2>1, <2>2, <3>2, <3>3
  <2>5. -m \in Int
    BY <1>2
  <2>6. WordOf(t) = k \div WordBits
    BY DEF WordOf, k
  <2> QED
    BY <1>1, <1>2, <1>4, <2>2, <2>3, <2>4, <2>5, <2>6, DivisionGrows
<1> QED
  BY <1>4, <1>5

LEMMA InitialisedAreMultiples ==
    ASSUME NEW liquidity, IsLiquidity(liquidity)
    PROVE  \A t \in Initialised(liquidity) : t \in Ticks /\ t \in Int /\ t % Spacing = 0
<1> TAKE t \in Initialised(liquidity)
<1>1. PICK q \in Positions : t \in {q[1], q[2]}
  BY InitialisedTicks
<1> QED
  BY <1>1, PositionsFinite

\* What the lens returns of a tick.
PopulatedTick == [index : Int, net : Int]

\* s lists the ticks T with their net liquidity, from the lowest to the highest.
ListsTicks(s, liquidity, T) ==
    /\ s \in Seq(PopulatedTick)
    /\ \A i \in 1..Len(s) : /\ s[i].index \in T
                            /\ s[i].net = LiquidityNet(liquidity, s[i].index)
    /\ \A t \in T : \E i \in 1..Len(s) : s[i].index = t
    /\ \A i, j \in 1..Len(s) : i < j => s[i].index < s[j].index

\* A word gives its ticks.
LEMMA WordListed ==
    ASSUME NEW liquidity, IsLiquidity(liquidity), NEW word \in Int
    PROVE  ListsTicks(WordTicks(liquidity, word), liquidity,
                      {t \in Initialised(liquidity) : WordOf(t) = word})
<1> DEFINE T == {t \in Initialised(liquidity) : WordOf(t) = word}
           B == TickBitmap(liquidity, word)
           bits == Ordered(B)
           N == Cardinality(B)
           tick(i) == (word * WordBits + bits[i]) * Spacing
           s == WordTicks(liquidity, word)
<1>1. Spacing \in Nat \ {0} /\ WordBits \in Nat \ {0}
  BY LensAssumption
<1>2. \A t \in T : t \in Int /\ t % Spacing = 0
  BY InitialisedAreMultiples
<1>3. B = {(t \div Spacing) % WordBits : t \in T}
  BY DEF TickBitmap, WordOf
<1>4. B \subseteq 0..WordBits - 1
  <2> HIDE DEF T, B
  <2> QED
    BY <1>2, <1>3, TickOfBit
<1>5. N \in Nat /\ bits \in [1..N -> B] /\ Ascends(bits, B)
  <2>1. 0 \in Int /\ WordBits - 1 \in Int
    BY <1>1
  <2> HIDE DEF B
  <2> QED
    BY <1>4, <2>1, Ranked
<1>6. /\ \A x \in B : \E i \in 1..N : bits[i] = x
      /\ \A i, j \in 1..N : i < j => bits[i] < bits[j]
  BY <1>5 DEF Ascends
<1>7. \A i \in 1..N : bits[i] \in B /\ bits[i] \in Int
  BY <1>4, <1>5
<1> HIDE DEF B, bits, N
<1>8. s = [i \in 1..N |-> [index |-> tick(i), net |-> LiquidityNet(liquidity, tick(i))]]
  <2>1. Len(Ordered(TickBitmap(liquidity, word))) = N
    BY <1>5 DEF bits, B
  <2> QED
    BY <2>1 DEF WordTicks, bits, B
<1>9. \A i \in 1..N : tick(i) \in Int
  BY <1>1, <1>7
<1>10. \A i \in 1..N : s[i].index = tick(i) /\ s[i].net = LiquidityNet(liquidity, tick(i))
  BY <1>8
<1>11. s \in Seq(PopulatedTick) /\ Len(s) = N
  <2>1. \A i \in 1..N : [index |-> tick(i), net |-> LiquidityNet(liquidity, tick(i))] \in PopulatedTick
    BY <1>9, NetType DEF PopulatedTick
  <2>2. s \in [1..N -> PopulatedTick]
    BY <1>8, <2>1
  <2> HIDE DEF s
  <2> QED
    BY <1>5, <2>2
<1> HIDE DEF s
<1>12. \A t \in T : \A i \in 1..N : bits[i] = (t \div Spacing) % WordBits => tick(i) = t
  <2> SUFFICES ASSUME NEW t \in T, NEW i \in 1..N, bits[i] = (t \div Spacing) % WordBits
               PROVE  tick(i) = t
    OBVIOUS
  <2>1. t \in Int /\ t % Spacing = 0 /\ WordOf(t) = word
    BY <1>2
  <2>2. t = (WordOf(t) * WordBits + ((t \div Spacing) % WordBits)) * Spacing
    BY <2>1, TickOfBit
  <2>3. t = (word * WordBits + bits[i]) * Spacing
    BY <2>1, <2>2, Zenon
  <2> QED
    BY <2>3
<1>13. ASSUME NEW i \in 1..N
       PROVE  tick(i) \in T
  <2>1. PICK t \in T : bits[i] = (t \div Spacing) % WordBits
    <3> HIDE DEF T
    <3> QED
      BY <1>3, <1>7
  <2> QED
    BY <1>12, <2>1
<1>14. ASSUME NEW t \in T
       PROVE  \E i \in 1..N : tick(i) = t
  <2>1. PICK i \in 1..N : bits[i] = (t \div Spacing) % WordBits
    <3> HIDE DEF T
    <3> QED
      BY <1>3, <1>6
  <2> QED
    BY <1>12, <2>1
<1>15. ASSUME NEW i \in 1..N, NEW j \in 1..N, i < j
       PROVE  tick(i) < tick(j)
  <2>1. bits[i] < bits[j] /\ bits[i] \in Int /\ bits[j] \in Int
    BY <1>6, <1>7, <1>15
  <2> QED
    BY <1>1, <2>1
<1> HIDE DEF T, tick
<1>16. ListsTicks(s, liquidity, T)
  BY <1>10, <1>11, <1>13, <1>14, <1>15 DEF ListsTicks
<1> QED
  BY <1>16 DEF s, T

\* The walk lists exactly the initialised ticks, with their net liquidity, from
\* the lowest to the highest.  (getAllTicks)
THEOREM LensListsTicks ==
    ASSUME NEW liquidity, IsLiquidity(liquidity)
    PROVE  ListsTicks(GetAllTicks(liquidity), liquidity, Initialised(liquidity))
<1> DEFINE n == MaxWord - MinWord + 1
           T(word) == {t \in Initialised(liquidity) : WordOf(t) = word}
           s == [i \in 1..n |-> WordTicks(liquidity, MinWord + i - 1)]
           flat == GetAllTicks(liquidity)
<1>1. n \in Nat \ {0} /\ MinWord \in Int /\ MaxWord \in Int
  BY WordsCoverTicks
<1>2. \A i \in 1..n : s[i] = WordTicks(liquidity, MinWord + i - 1) /\ MinWord + i - 1 \in Int
  BY <1>1
<1>3. \A i \in 1..n : ListsTicks(s[i], liquidity, T(MinWord + i - 1))
  <2> HIDE DEF s, n
  <2> QED
    BY <1>2, WordListed
<1>4. s \in [1..n -> Seq(PopulatedTick)]
  <2>1. \A i \in 1..n : WordTicks(liquidity, MinWord + i - 1) \in Seq(PopulatedTick)
    <3> HIDE DEF s
    <3> QED
      BY <1>2, <1>3 DEF ListsTicks
  <2> QED
    BY <2>1
<1>5. flat = FlattenSeq(s)
  BY DEF GetAllTicks
<1>6. \A i \in 1..n :
        /\ \A j \in 1..Len(s[i]) : /\ s[i][j].index \in T(MinWord + i - 1)
                                   /\ s[i][j].net = LiquidityNet(liquidity, s[i][j].index)
        /\ \A t \in T(MinWord + i - 1) : \E j \in 1..Len(s[i]) : s[i][j].index = t
        /\ \A j, k \in 1..Len(s[i]) : j < k => s[i][j].index < s[i][k].index
  <2> HIDE DEF s, T
  <2> QED
    BY <1>3 DEF ListsTicks
<1> HIDE DEF s, n, flat
<1>7. flat \in Seq(PopulatedTick) /\ \E at : Places(s, n, flat, at)
  BY <1>1, <1>4, <1>5, Flattened
<1>8. PICK at : Places(s, n, flat, at)
  BY <1>7
<1>9. /\ \A i, j \in 1..n + 1 : i <= j => at[i] <= at[j]
      /\ \A k \in 1..Len(flat) : \E i : IsAt(s, n, at, k, i)
  <2> HIDE DEF T
  <2>1. n \in Nat \ {0} /\ s \in [1..n -> Seq(PopulatedTick)] /\ Places(s, n, flat, at)
    BY <1>1, <1>4, <1>8
  <2>2. \A i, j \in 1..n + 1 : i <= j => at[i] <= at[j]
    BY <2>1, PlacesGrow
  <2>3. \A k \in 1..Len(flat) : \E i : IsAt(s, n, at, k, i)
    BY <2>1, PlaceOf
  <2> QED
    BY <2>2, <2>3
<1>10. /\ \A i \in 1..n + 1 : at[i] \in Nat
       /\ \A i \in 1..n : at[i + 1] = at[i] + Len(s[i])
       /\ Len(flat) = at[n + 1]
       /\ \A i \in 1..n : \A j \in 1..Len(s[i]) : flat[at[i] + j] = s[i][j]
  BY <1>8 DEF Places
<1>11. \A i \in 1..n : Len(s[i]) \in Nat
  BY <1>4
<1>12. \A t \in Initialised(liquidity) : t \in Int /\ WordOf(t) \in Int
                                           /\ MinWord <= WordOf(t) /\ WordOf(t) <= MaxWord
  BY InitialisedAreMultiples, TickOfBit, WordsCoverTicks
<1>13. ASSUME NEW k \in 1..Len(flat)
       PROVE  /\ flat[k].index \in Initialised(liquidity)
              /\ flat[k].net = LiquidityNet(liquidity, flat[k].index)
  <2>1. PICK i \in 1..n : \E j \in 1..Len(s[i]) : k = at[i] + j
    BY <1>9 DEF IsAt
  <2>2. PICK j \in 1..Len(s[i]) : k = at[i] + j
    BY <2>1
  <2>3. flat[k] = s[i][j]
    BY <1>10, <2>2
  <2>4. /\ s[i][j].index \in T(MinWord + i - 1)
        /\ s[i][j].net = LiquidityNet(liquidity, s[i][j].index)
    BY <1>6
  <2> QED
    BY <2>3, <2>4
<1>14. ASSUME NEW t \in Initialised(liquidity)
       PROVE  \E k \in 1..Len(flat) : flat[k].index = t
  <2> DEFINE i == WordOf(t) - MinWord + 1
  <2>1. i \in 1..n /\ t \in T(MinWord + i - 1)
    BY <1>1, <1>12 DEF n
  <2> HIDE DEF i
  <2>2. PICK j \in 1..Len(s[i]) : s[i][j].index = t
    BY <1>6, <2>1
  <2>3. flat[at[i] + j].index = t
    BY <1>10, <2>1, <2>2
  <2>4. at[i] + j \in 1..Len(flat)
    <3>1. i + 1 \in 1..n + 1 /\ n + 1 \in 1..n + 1 /\ i + 1 <= n + 1 /\ i \in 1..n + 1
      BY <1>1, <2>1
    <3>2. at[i + 1] <= at[n + 1] /\ at[i + 1] = at[i] + Len(s[i])
      BY <1>9, <1>10, <2>1, <3>1
    <3>3. at[i] \in Nat /\ at[n + 1] \in Nat /\ Len(s[i]) \in Nat
      BY <1>10, <1>11, <2>1, <3>1
    <3> QED
      BY <1>10, <3>2, <3>3
  <2> QED
    BY <2>3, <2>4
<1>15. ASSUME NEW k \in 1..Len(flat), NEW l \in 1..Len(flat), k < l
       PROVE  flat[k].index < flat[l].index
  <2>1. PICK i \in 1..n : \E j \in 1..Len(s[i]) : k = at[i] + j
    BY <1>9 DEF IsAt
  <2>2. PICK j \in 1..Len(s[i]) : k = at[i] + j
    BY <2>1
  <2>3. PICK x \in 1..n : \E y \in 1..Len(s[x]) : l = at[x] + y
    BY <1>9 DEF IsAt
  <2>4. PICK y \in 1..Len(s[x]) : l = at[x] + y
    BY <2>3
  <2>5. flat[k] = s[i][j] /\ flat[l] = s[x][y]
    BY <1>10, <2>2, <2>4
  <2>6. s[i][j].index \in T(MinWord + i - 1) /\ s[x][y].index \in T(MinWord + x - 1)
    BY <1>6
  <2>7. CASE i = x
    <3>1. j < y
      <4>1. at[i] \in Nat /\ Len(s[i]) \in Nat
        BY <1>1, <1>10, <1>11
      <4>2. at[i] + j < at[i] + y /\ y \in 1..Len(s[i])
        BY <1>15, <2>2, <2>4, <2>7
      <4> QED
        BY <4>1, <4>2
    <3> QED
      BY <1>6, <2>5, <2>7, <3>1
  <2>8. CASE i < x
    <3>1. WordOf(s[i][j].index) < WordOf(s[x][y].index)
      <4>1. /\ WordOf(s[i][j].index) = MinWord + i - 1
            /\ WordOf(s[x][y].index) = MinWord + x - 1
        BY <2>6
      <4>2. MinWord + i - 1 < MinWord + x - 1
        BY <1>1, <2>8
      <4> QED
        BY <4>1, <4>2
    <3> QED
      BY <1>12, <2>5, <2>6, <3>1, LowerWord
  <2>9. CASE x < i
    <3>1. x + 1 \in 1..n + 1 /\ i \in 1..n + 1 /\ x + 1 <= i /\ x \in 1..n + 1
      BY <1>1, <2>9
    <3>2. at[x + 1] <= at[i] /\ at[x + 1] = at[x] + Len(s[x])
      BY <1>9, <1>10, <3>1
    <3>3. at[x] \in Nat /\ at[i] \in Nat /\ Len(s[x]) \in Nat
      BY <1>10, <1>11, <3>1
    <3>4. at[i] + j < at[x] + y
      BY <1>15, <2>2, <2>4
    <3>5. j \in Nat /\ 1 <= j /\ y \in Nat /\ y <= Len(s[x])
      <4>1. Len(s[i]) \in Nat
        BY <1>11
      <4> QED
        BY <3>3, <4>1
    <3>6. at[x] + Len(s[x]) <= at[i]
      BY <3>2
    <3> HIDE DEF T
    <3> QED
      BY SMTT(30), <3>3, <3>4, <3>5, <3>6
  <2> QED
    BY <1>1, <2>7, <2>8, <2>9
<1> HIDE DEF T
<1>16. ListsTicks(flat, liquidity, Initialised(liquidity))
  BY <1>7, <1>13, <1>14, <1>15 DEF ListsTicks
<1> QED
  BY <1>16 DEF flat
=============================================================================
