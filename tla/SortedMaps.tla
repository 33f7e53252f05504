----------------------------- MODULE SortedMaps -----------------------------
(***************************************************************************)
(* What a sorted map of keys to values needs beyond functions: the map     *)
(* with others laid over it, and its keys in order.                        *)
(***************************************************************************)
EXTENDS Integers, Sequences, FiniteSets

\* map with the entries of more, which replace its own.
With(map, more) ==
    [k \in DOMAIN map \cup DOMAIN more |-> IF k \in DOMAIN more THEN more[k] ELSE map[k]]

\* s lists the elements of S, the less one first.
Lists(s, S, Less(_,_)) ==
    /\ \A x \in S : \E i \in 1..Cardinality(S) : s[i] = x
    /\ \A i, j \in 1..Cardinality(S) : i < j => Less(s[i], s[j])

InOrder(S, Less(_,_)) ==
    CHOOSE s \in [1..Cardinality(S) -> S] : Lists(s, S, Less)

\* The integers of T, the smallest first: each follows as many as are less.
Ordered(T) ==
    [i \in 1..Cardinality(T) |-> CHOOSE t \in T : Cardinality({u \in T : u < t}) = i - 1]

\* The elements of s at the indices I, in their order.
Pick(s, I) ==
    LET order == Ordered(I)
    IN  [i \in 1..Cardinality(I) |-> s[order[i]]]
=============================================================================
