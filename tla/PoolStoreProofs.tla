-------------------------- MODULE PoolStoreProofs --------------------------
(***************************************************************************)
(* Proofs about PoolStore, for any pools, clients, ticks and operations    *)
(* the callers may pass.                                                   *)
(*                                                                         *)
(* First the layout of keys: numbers are read back as they were put, no    *)
(* two parts of the database share a key, and the scan of a pool's range   *)
(* finds its ticks, all of them and in their order.  From this follows     *)
(* what a batch does to the records.                                       *)
(*                                                                         *)
(* Then the clients.  MutualExclusion is not inductive: a goroutine that   *)
(* waits might wait for a lock of its own.  IInv adds that everybody past  *)
(* the table of locks waits for, or holds, the lock the table has for the  *)
(* pool.  ReadsAreStable is not inductive either, for a reader must not    *)
(* have a writer beside it; with MutualExclusion it is, and IInv has it    *)
(* as what a reader has in hand at each of its steps.                      *)
(*                                                                         *)
(* Last the refinement of AtomicStore.                                     *)
(***************************************************************************)
EXTENDS PoolStore, SortedMapLemmas, SequenceTheorems

-----------------------------------------------------------------------------
(* Integers and keys in bytes. *)

\* The range of integers is cut in halves, and the ticks are well inside.
LEMMA HalfFacts ==
    /\ IntSize \in Nat /\ Half \in Nat \ {0} /\ IntSize = 2 * Half
    /\ MaxTick \in Nat /\ MaxTick < Half
    /\ Ticks \subseteq -Half..Half-1 /\ -MaxTick \in Ticks /\ MaxTick \in Ticks
    /\ \A t \in Ticks : t \in Int /\ -MaxTick <= t /\ t <= MaxTick
<1>1. IntSize \in Nat /\ IntSize % 2 = 0 /\ MaxTick \in Nat /\ 2 * MaxTick < IntSize
  BY StoreAssumption
<1>2. IntSize = 2 * Half /\ Half \in Int
  BY <1>1 DEF Half
<1>3. Half > 0 /\ MaxTick < Half
  BY <1>1, <1>2
<1> QED
  BY <1>1, <1>2, <1>3 DEF Ticks

\* Bytes and ordered bytes are read back as the integer they were made of, and
\* ordered bytes are ordered like it.
LEMMA Codec ==
    ASSUME NEW n \in -Half..Half-1
    PROVE  /\ FromBytes(Bytes(n)) = n
           /\ OrderedBytes(n) = n + Half
           /\ FromOrderedBytes(OrderedBytes(n)) = n
<1>1. IntSize \in Nat /\ Half \in Nat \ {0} /\ IntSize = 2 * Half /\ n \in Int
      /\ -Half <= n /\ n < Half
  BY HalfFacts
<1>2. \A k \in 0..IntSize - 1 : k % IntSize = k
  BY <1>1
<1>3. \A k \in 0..IntSize - 1 : (k + IntSize) % IntSize = k /\ (k - IntSize) % IntSize = k
  BY <1>1
<1>4. (n + Half) % IntSize = n + Half
  <2>1. n + Half \in 0..IntSize - 1
    BY <1>1
  <2> QED
    BY <1>2, <2>1
<1>5. Int32(n) = n
  BY <1>1, <1>4 DEF Int32
<1>6. FromBytes(Bytes(n)) = n
  <2>1. CASE n >= 0
    <3>1. n % IntSize = n
      BY <1>1, <1>2, <2>1
    <3> QED
      BY <1>5, <3>1 DEF FromBytes, Bytes
  <2>2. CASE n < 0
    <3>1. n + IntSize \in 0..IntSize - 1 /\ (n + IntSize) - IntSize = n
      BY <1>1, <2>2
    <3>2. n % IntSize = n + IntSize
      BY <1>3, <3>1
    <3>3. n + Half \in 0..IntSize - 1 /\ (n + IntSize) + Half = (n + Half) + IntSize
      BY <1>1
    <3>4. ((n + IntSize) + Half) % IntSize = n + Half
      BY <1>3, <3>3
    <3>5. Int32(n + IntSize) = n
      BY <1>1, <3>4 DEF Int32
    <3> QED
      BY <3>2, <3>5 DEF FromBytes, Bytes
  <2> QED
    BY <1>1, <2>1, <2>2
<1>7. OrderedBytes(n) = n + Half
  BY <1>4 DEF OrderedBytes
<1>8. FromOrderedBytes(n + Half) = n
  <2>1. (n + Half) - Half = n
    BY <1>1
  <2> QED
    BY <1>5, <2>1 DEF FromOrderedBytes
<1> QED
  BY <1>6, <1>7, <1>8

\* The keys of a pool's ticks.
TickKeys(p) == {TickStateKey(p, t) : t \in Ticks}

\* The keys of a pool's three numbers.
NumberKeys(p) == {CurrentTickKey(p), TickSpacingKey(p), PoolHeightKey(p)}

\* No two pools, no two ticks and no two parts of a record share a key.
LEMMA KeysDiffer ==
    /\ \A p, q \in Pools : \A t, u \in Ticks :
          TickStateKey(p, t) = TickStateKey(q, u) => p = q /\ t = u
    /\ \A p, q \in Pools : \A t \in Ticks :
          TickStateKey(p, t) \notin NumberKeys(q)
    /\ \A p, q \in Pools :
          /\ CurrentTickKey(p) # TickSpacingKey(q)
          /\ CurrentTickKey(p) # PoolHeightKey(q)
          /\ TickSpacingKey(p) # PoolHeightKey(q)
    /\ \A p, q \in Pools : p # q =>
          /\ CurrentTickKey(p) # CurrentTickKey(q)
          /\ TickSpacingKey(p) # TickSpacingKey(q)
          /\ PoolHeightKey(p) # PoolHeightKey(q)
<1>1. ASSUME NEW p \in Pools, NEW q \in Pools, NEW t \in Ticks, NEW u \in Ticks,
             TickStateKey(p, t) = TickStateKey(q, u)
      PROVE  p = q /\ t = u
  <2>1. p = q /\ OrderedBytes(t) = OrderedBytes(u)
    BY <1>1 DEF TickStateKey
  <2>2. t + Half = u + Half
    BY <2>1, Codec, HalfFacts
  <2> QED
    BY <2>1, <2>2, HalfFacts
<1>2. \A p, q \in Pools : \A t \in Ticks : TickStateKey(p, t) \notin NumberKeys(q)
  BY DEF TickStateKey, NumberKeys, CurrentTickKey, TickSpacingKey, PoolHeightKey
<1>3. \A p, q \in Pools :
          /\ CurrentTickKey(p) # TickSpacingKey(q)
          /\ CurrentTickKey(p) # PoolHeightKey(q)
          /\ TickSpacingKey(p) # PoolHeightKey(q)
  BY DEF CurrentTickKey, TickSpacingKey, PoolHeightKey
<1>4. \A p, q \in Pools : p # q =>
          /\ CurrentTickKey(p) # CurrentTickKey(q)
          /\ TickSpacingKey(p) # TickSpacingKey(q)
          /\ PoolHeightKey(p) # PoolHeightKey(q)
  BY DEF CurrentTickKey, TickSpacingKey, PoolHeightKey
<1> QED
  BY <1>1, <1>2, <1>3, <1>4

\* Keys of a pool's ticks are in the order of the ticks, and name them.
LEMMA TickKeyFacts ==
    ASSUME NEW p \in Pools, NEW t \in Ticks
    PROVE  /\ TickStateKey(p, t) = <<2, p, t + Half>>
           /\ FromOrderedBytes(TickStateKey(p, t)[3]) = t
           /\ \A u \in Ticks : KeyLess(TickStateKey(p, t), TickStateKey(p, u)) <=> t < u
<1>1. \A u \in Ticks : TickStateKey(p, u) = <<2, p, u + Half>>
  BY Codec, HalfFacts DEF TickStateKey
<1>2. FromOrderedBytes(TickStateKey(p, t)[3]) = t
  BY Codec, HalfFacts DEF TickStateKey
<1>3. ASSUME NEW u \in Ticks
      PROVE  KeyLess(TickStateKey(p, t), TickStateKey(p, u)) <=> t < u
  <2>1. KeyLess(<<2, p, t + Half>>, <<2, p, u + Half>>) <=> t + Half < u + Half
    BY StoreAssumption DEF KeyLess
  <2>2. t + Half < u + Half <=> t < u
    BY HalfFacts
  <2> QED
    BY <1>1, <2>1, <2>2
<1> QED
  BY <1>1, <1>2, <1>3

-----------------------------------------------------------------------------
(* The scan of a pool's ticks. *)

\* The ticks that have a state.
StoredTicks(p) == {t \in Ticks : TickStateKey(p, t) \in DOMAIN kv}

\* No other keys than the pools'.
KeysOK == DOMAIN kv \subseteq UNION {NumberKeys(p) \cup TickKeys(p) : p \in Pools}

\* The range from the lowest tick to the highest holds the pool's ticks and no
\* other key.
LEMMA Scan ==
    ASSUME KeysOK, NEW p \in Pools
    PROVE  Between(TickStateKey(p, -MaxTick), TickStateKey(p, MaxTick)) =
             {TickStateKey(p, t) : t \in StoredTicks(p)}
<1> DEFINE low == TickStateKey(p, -MaxTick)
           high == TickStateKey(p, MaxTick)
<1>1. -MaxTick \in Ticks /\ MaxTick \in Ticks
  BY HalfFacts
<1>2. low = <<2, p, -MaxTick + Half>> /\ high = <<2, p, MaxTick + Half>>
  BY <1>1, TickKeyFacts
<1>3. ASSUME NEW t \in StoredTicks(p)
      PROVE  TickStateKey(p, t) \in Between(low, high)
  <2>1. t \in Ticks /\ TickStateKey(p, t) \in DOMAIN kv
    BY DEF StoredTicks
  <2>2. ~KeyLess(TickStateKey(p, t), low) /\ ~KeyLess(high, TickStateKey(p, t))
    <3>1. ~(t < -MaxTick) /\ ~(MaxTick < t)
      BY <2>1, HalfFacts
    <3> QED
      BY <1>1, <2>1, <3>1, TickKeyFacts
  <2> QED
    BY <2>1, <2>2 DEF Between
<1>4. ASSUME NEW k \in Between(low, high)
      PROVE  k \in {TickStateKey(p, t) : t \in StoredTicks(p)}
  <2>1. k \in DOMAIN kv /\ ~KeyLess(k, low) /\ ~KeyLess(high, k)
    BY DEF Between
  <2>2. PICK q \in Pools : k \in NumberKeys(q) \cup TickKeys(q)
    BY <2>1 DEF KeysOK
  <2>3. k \notin NumberKeys(q)
    <3>1. p \in Nat /\ q \in Nat
      BY StoreAssumption
    <3>2. \A n \in {3, 4, 5} : KeyLess(high, <<n, q, 0>>)
      BY <1>2, <3>1 DEF KeyLess
    <3> QED
      BY <2>1, <3>2 DEF NumberKeys, CurrentTickKey, TickSpacingKey, PoolHeightKey
  <2>4. PICK t \in Ticks : k = TickStateKey(q, t)
    BY <2>2, <2>3 DEF TickKeys
  <2>5. q = p
    <3>1. k = <<2, q, t + Half>>
      BY <2>4, TickKeyFacts
    <3>2. p \in Nat /\ q \in Nat
      BY StoreAssumption
    <3>3. ~(q < p) /\ ~(p < q)
      BY <1>2, <2>1, <3>1 DEF KeyLess
    <3> QED
      BY <3>2, <3>3
  <2> QED
    BY <2>1, <2>4, <2>5 DEF StoredTicks
<1> QED
  BY <1>3, <1>4

\* Lists(s, K, KeyLess), without the operator.
KeysAscend(s, K) ==
    /\ \A x \in K : \E i \in 1..Cardinality(K) : s[i] = x
    /\ \A i, j \in 1..Cardinality(K) : i < j => KeyLess(s[i], s[j])

\* The keys of ticks in the order of their bytes are the ticks in their order.
LEMMA ScanInOrder ==
    ASSUME NEW p \in Pools, NEW T, T \subseteq Ticks
    PROVE  InOrder({TickStateKey(p, t) : t \in T}, KeyLess) =
             [i \in 1..Cardinality(T) |-> TickStateKey(p, InOrder(T, <)[i])]
<1> DEFINE K == {TickStateKey(p, t) : t \in T}
           N == Cardinality(T)
           list == InOrder(T, <)
           keys == [i \in 1..N |-> TickStateKey(p, list[i])]
<1>1. /\ N \in Nat /\ list \in [1..N -> T] /\ Ascends(list, T)
      /\ \A s \in [1..N -> T] : Ascends(s, T) => s = list
  <2>1. T \subseteq -MaxTick..MaxTick /\ -MaxTick \in Int /\ MaxTick \in Int
    BY HalfFacts DEF Ticks
  <2> QED
    BY <2>1, Ascending
<1>2. Cardinality(K) = N
  <2> DEFINE f == [t \in T |-> TickStateKey(p, t)]
  <2>1. IsFiniteSet(T)
    <3>1. IsFiniteSet(-MaxTick..MaxTick)
      BY HalfFacts, FS_Interval
    <3> QED
      BY <3>1, FS_Subset DEF Ticks
  <2>2. f \in Bijection(T, K)
    <3>1. \A t, u \in T : f[t] = f[u] => t = u
      BY KeysDiffer
    <3>2. f \in [T -> K] /\ \A k \in K : \E t \in T : f[t] = k
      OBVIOUS
    <3> HIDE DEF f, K
    <3> QED
      BY <3>1, <3>2 DEF Bijection, Injection, Surjection, IsInjective
  <2> QED
    BY <2>1, <2>2, FS_Bijection DEF ExistsBijection
<1>3. InOrder(K, KeyLess) = CHOOSE s \in [1..Cardinality(K) -> K] : KeysAscend(s, K)
  BY DEF InOrder, Lists, KeysAscend
<1> HIDE DEF list, N
<1>4. keys \in [1..N -> K] /\ KeysAscend(keys, K)
  <2>1. \A i \in 1..N : list[i] \in T /\ keys[i] = TickStateKey(p, list[i])
    BY <1>1
  <2>2. keys \in [1..N -> K]
    BY <1>1
  <2>3. ASSUME NEW x \in K
        PROVE  \E i \in 1..N : keys[i] = x
    <3>1. PICK t \in T : x = TickStateKey(p, t)
      OBVIOUS
    <3>2. PICK i \in 1..N : list[i] = t
      BY <1>1 DEF Ascends, N
    <3> QED
      BY <2>1, <3>1, <3>2
  <2>4. ASSUME NEW i \in 1..N, NEW j \in 1..N, i < j
        PROVE  KeyLess(keys[i], keys[j])
    <3>1. list[i] < list[j]
      BY <1>1, <2>4 DEF Ascends, N
    <3> QED
      BY <2>1, <3>1, TickKeyFacts
  <2> HIDE DEF K, keys
  <2> QED
    BY <1>2, <2>2, <2>3, <2>4 DEF KeysAscend
<1>5. ASSUME NEW s \in [1..N -> K], KeysAscend(s, K)
      PROVE  s = keys
  <2> DEFINE r == [i \in 1..N |-> FromOrderedBytes(s[i][3])]
  <2>1. \A i \in 1..N : r[i] \in T /\ s[i] = TickStateKey(p, r[i])
    <3> SUFFICES ASSUME NEW i \in 1..N
                 PROVE  r[i] \in T /\ s[i] = TickStateKey(p, r[i])
      OBVIOUS
    <3>1. s[i] \in K
      OBVIOUS
    <3>2. PICK t \in T : s[i] = TickStateKey(p, t)
      BY <3>1
    <3>3. r[i] = t
      BY <3>2, TickKeyFacts
    <3> QED
      BY <3>2, <3>3
  <2>2. r \in [1..N -> T]
    BY <2>1
  <2>3. \A t \in T : \E i \in 1..N : r[i] = t
    <3> SUFFICES ASSUME NEW t \in T
                 PROVE  \E i \in 1..N : r[i] = t
      OBVIOUS
    <3>1. PICK i \in 1..N : s[i] = TickStateKey(p, t)
      BY <1>2, <1>5 DEF KeysAscend
    <3>2. r[i] = t
      BY <3>1, TickKeyFacts
    <3> QED
      BY <3>2
  <2>4. ASSUME NEW i \in 1..N, NEW j \in 1..N, i < j
        PROVE  r[i] < r[j]
    <3>1. KeyLess(s[i], s[j])
      BY <1>2, <1>5, <2>4 DEF KeysAscend
    <3> HIDE DEF r
    <3> QED
      BY <2>1, <3>1, TickKeyFacts
  <2>5. Ascends(r, T)
    <3> HIDE DEF r
    <3> QED
      BY <2>3, <2>4 DEF Ascends, N
  <2>6. r = list
    <3> HIDE DEF r
    <3> QED
      BY <1>1, <2>2, <2>5
  <2>7. \A i \in 1..N : s[i] = keys[i]
    <3> HIDE DEF r
    <3> QED
      BY <2>1, <2>6
  <2> HIDE DEF K
  <2> QED
    BY <2>7
<1> HIDE DEF K, keys
<1>6. InOrder(K, KeyLess) = keys
  BY <1>2, <1>3, <1>4, <1>5
<1> QED
  BY <1>6 DEF K, keys, N, list

-----------------------------------------------------------------------------
(* What a write does to the records. *)

\* The ticks of a pool's record, with their states.
States(p) == [t \in StoredTicks(p) |-> kv[TickStateKey(p, t)]]

\* A key is there afterwards as it was before.
Same(k) == (k \in DOMAIN kv' <=> k \in DOMAIN kv) /\ (k \in DOMAIN kv => kv'[k] = kv[k])

\* A record is its four parts.
LEMMA RecordParts ==
    \A p : Record(p) = [height |-> Height(p), spacing |-> Number(TickSpacingKey(p)),
                        tick |-> Number(CurrentTickKey(p)), states |-> States(p)]
BY DEF Record, States, StoredTicks

\* A record whose keys are left alone stays the same, part by part.
LEMMA PartFrame ==
    ASSUME NEW p \in Pools
    PROVE  /\ Same(PoolHeightKey(p)) => Height(p)' = Height(p)
           /\ Same(TickSpacingKey(p)) => Number(TickSpacingKey(p))' = Number(TickSpacingKey(p))
           /\ Same(CurrentTickKey(p)) => Number(CurrentTickKey(p))' = Number(CurrentTickKey(p))
           /\ (\A t \in Ticks : Same(TickStateKey(p, t))) => States(p)' = States(p)
<1>1. Same(PoolHeightKey(p)) => Height(p)' = Height(p)
  BY DEF Same, Height, PoolHeightKey
<1>2. Same(TickSpacingKey(p)) => Number(TickSpacingKey(p))' = Number(TickSpacingKey(p))
  BY DEF Same, Number, TickSpacingKey
<1>3. Same(CurrentTickKey(p)) => Number(CurrentTickKey(p))' = Number(CurrentTickKey(p))
  BY DEF Same, Number, CurrentTickKey
<1>4. ASSUME \A t \in Ticks : Same(TickStateKey(p, t))
      PROVE  States(p)' = States(p)
  <2>1. StoredTicks(p)' = StoredTicks(p)
    BY <1>4 DEF Same, StoredTicks, TickStateKey, OrderedBytes
  <2>2. \A t \in StoredTicks(p) : kv'[TickStateKey(p, t)] = kv[TickStateKey(p, t)]
    BY <1>4 DEF Same, StoredTicks
  <2>3. \A t : TickStateKey(p, t)' = TickStateKey(p, t)
    BY DEF TickStateKey, OrderedBytes
  <2> QED
    BY <2>1, <2>2, <2>3 DEF States
<1> QED
  BY <1>1, <1>2, <1>3, <1>4

\* The entries made of tick states.
LEMMA TickEntriesFacts ==
    ASSUME NEW p \in Pools, NEW s, IsStates(s)
    PROVE  /\ DOMAIN TickEntries(p, s) = {TickStateKey(p, t) : t \in DOMAIN s}
           /\ \A t \in DOMAIN s : TickEntries(p, s)[TickStateKey(p, t)] = s[t]
<1>1. DOMAIN s \subseteq Ticks
  BY DEF IsStates
<1>2. DOMAIN TickEntries(p, s) = {TickStateKey(p, t) : t \in DOMAIN s}
  BY DEF TickEntries
<1>3. ASSUME NEW t \in DOMAIN s
      PROVE  TickEntries(p, s)[TickStateKey(p, t)] = s[t]
  <2>1. (CHOOSE u \in DOMAIN s : TickStateKey(p, u) = TickStateKey(p, t)) = t
    BY <1>1, KeysDiffer
  <2> QED
    BY <2>1 DEF TickEntries
<1> QED
  BY <1>2, <1>3

\* Tick states that are put are laid over those that are there.
LEMMA StatesPut ==
    ASSUME NEW p \in Pools, NEW s, IsStates(s),
           \A t \in DOMAIN s : TickStateKey(p, t) \in DOMAIN kv' /\ kv'[TickStateKey(p, t)] = s[t],
           \A t \in Ticks \ DOMAIN s : Same(TickStateKey(p, t))
    PROVE  States(p)' = With(States(p), s)
<1>1. DOMAIN s \subseteq Ticks
  BY DEF IsStates
<1>2. \A t : TickStateKey(p, t)' = TickStateKey(p, t)
  BY DEF TickStateKey, OrderedBytes
<1>3. StoredTicks(p)' = StoredTicks(p) \cup DOMAIN s
  BY <1>1, <1>2 DEF Same, StoredTicks
<1>4. \A t \in StoredTicks(p)' :
         kv'[TickStateKey(p, t)] = IF t \in DOMAIN s THEN s[t] ELSE kv[TickStateKey(p, t)]
  BY <1>3 DEF Same, StoredTicks
<1>5. States(p)' = [t \in StoredTicks(p)' |-> kv'[TickStateKey(p, t)]]
  BY <1>2 DEF States
<1> QED
  BY <1>3, <1>4, <1>5 DEF With, States

\* The keys a batch deletes.
Removed(p, op) == IF op.name = "DeletePoolState" THEN Deleted(p) ELSE {}

\* A write puts its entries and leaves what it does not remove.
LEMMA WriteFacts ==
    ASSUME NEW p \in Pools, NEW op, Write(p, op)
    PROVE  /\ DOMAIN kv' = (DOMAIN kv \ Removed(p, op)) \cup DOMAIN Entries(p, op)
           /\ \A k \in DOMAIN Entries(p, op) : kv'[k] = Entries(p, op)[k]
           /\ \A k : k \notin DOMAIN Entries(p, op) /\ k \notin Removed(p, op) => Same(k)
BY DEF Write, Removed, With, Same

\* Numbers are read back as they were put.
LEMMA NumberPut ==
    ASSUME NEW p \in Pools
    PROVE  /\ \A n : (PoolHeightKey(p) \in DOMAIN kv' /\ kv'[PoolHeightKey(p)] = n)
                 => Height(p)' = n
           /\ \A n \in 0..Half-1 :
                 (TickSpacingKey(p) \in DOMAIN kv' /\ kv'[TickSpacingKey(p)] = Bytes(n))
                    => Number(TickSpacingKey(p))' = n
           /\ \A n \in Ticks :
                 (CurrentTickKey(p) \in DOMAIN kv' /\ kv'[CurrentTickKey(p)] = Bytes(n))
                    => Number(CurrentTickKey(p))' = n
<1>1. \A n \in 0..Half-1 : FromBytes(Bytes(n)) = n
  <2>1. \A n \in 0..Half-1 : n \in -Half..Half-1
    BY HalfFacts
  <2> QED
    BY <2>1, Codec
<1>2. \A n \in Ticks : FromBytes(Bytes(n)) = n
  BY Codec, HalfFacts
<1>3. \A k : (k \in DOMAIN kv') => Number(k)' = FromBytes(kv'[k])
  BY DEF Number, FromBytes, Int32
<1>4. \A n : (PoolHeightKey(p) \in DOMAIN kv' /\ kv'[PoolHeightKey(p)] = n) => Height(p)' = n
  BY DEF Height, PoolHeightKey
<1> QED
  BY <1>1, <1>2, <1>3, <1>4 DEF TickSpacingKey, CurrentTickKey

\* A record after a write is what AtomicStore says, one operation at a time.
LEMMA UpdatedSome ==
    ASSUME KeysOK, NEW p \in Pools, NEW op, Write(p, op),
           op.name \in {"SetTickState", "SetCurrentTick", "SetTickSpacing", "SetHeight"},
           op.name = "SetTickState" => IsStates(op.states),
           op.name = "SetCurrentTick" => op.tick \in Ticks,
           op.name = "SetTickSpacing" => op.spacing \in 0..Half-1,
           op.name = "SetHeight" => op.height \in Nat
    PROVE  /\ DOMAIN kv' \subseteq DOMAIN kv \cup NumberKeys(p) \cup TickKeys(p)
           /\ \A k : k \notin NumberKeys(p) \cup TickKeys(p) => Same(k)
           /\ Record(p)' = Atomic!Updated(Record(p), op)
<1> DEFINE E == Entries(p, op)
<1>1. /\ DOMAIN kv' = DOMAIN kv \cup DOMAIN E
      /\ \A k \in DOMAIN E : kv'[k] = E[k]
      /\ \A k : k \notin DOMAIN E => Same(k)
  BY WriteFacts DEF Removed
<1>2. Record(p)' = [height |-> Height(p)', spacing |-> Number(TickSpacingKey(p))',
                    tick |-> Number(CurrentTickKey(p))', states |-> States(p)']
  BY DEF Record, States, StoredTicks
<1>3. CASE op.name = "SetTickState"
  <2>1. E = TickEntries(p, op.states)
    BY <1>3 DEF Entries
  <2>2. /\ DOMAIN E = {TickStateKey(p, t) : t \in DOMAIN op.states}
        /\ \A t \in DOMAIN op.states : E[TickStateKey(p, t)] = op.states[t]
        /\ DOMAIN op.states \subseteq Ticks
    BY <1>3, <2>1, TickEntriesFacts DEF IsStates
  <2> HIDE DEF E
  <2>3. DOMAIN E \subseteq TickKeys(p) /\ \A k \in NumberKeys(p) : k \notin DOMAIN E
    BY <2>2, KeysDiffer DEF TickKeys
  <2>4. \A t \in Ticks \ DOMAIN op.states : TickStateKey(p, t) \notin DOMAIN E
    BY <2>2, KeysDiffer
  <2>5. \A k \in NumberKeys(p) : Same(k)
    BY <1>1, <2>3
  <2>6. UNCHANGED <<Height(p), Number(TickSpacingKey(p)), Number(CurrentTickKey(p))>>
    BY <2>5, PartFrame DEF NumberKeys
  <2>7. States(p)' = With(States(p), op.states)
    <3>1. \A t \in DOMAIN op.states : TickStateKey(p, t) \in DOMAIN kv' /\ kv'[TickStateKey(p, t)] = op.states[t]
      BY <1>1, <2>2
    <3>2. \A t \in Ticks \ DOMAIN op.states : Same(TickStateKey(p, t))
      BY <1>1, <2>4
    <3> QED
      BY <1>3, <3>1, <3>2, StatesPut
  <2>8. Atomic!Updated(Record(p), op) = [Record(p) EXCEPT !.states = With(@, op.states)]
    BY <1>3 DEF Atomic!Updated, Atomic!With, With
  <2> QED
    BY <1>1, <1>2, <2>3, <2>6, <2>7, <2>8, RecordParts
<1>4. CASE op.name = "SetCurrentTick"
  <2>1. E = [k \in {CurrentTickKey(p)} |-> Bytes(op.tick)]
    BY <1>4 DEF Entries
  <2>2. DOMAIN E = {CurrentTickKey(p)} /\ E[CurrentTickKey(p)] = Bytes(op.tick)
    BY <2>1
  <2> HIDE DEF E
  <2>3. /\ PoolHeightKey(p) \notin DOMAIN E /\ TickSpacingKey(p) \notin DOMAIN E
        /\ \A t \in Ticks : TickStateKey(p, t) \notin DOMAIN E
    BY <2>2, KeysDiffer DEF NumberKeys
  <2>4. UNCHANGED <<Height(p), Number(TickSpacingKey(p)), States(p)>>
    BY <1>1, <2>3, PartFrame
  <2>5. Number(CurrentTickKey(p))' = op.tick
    BY <1>1, <1>4, <2>2, NumberPut
  <2>6. Atomic!Updated(Record(p), op) = [Record(p) EXCEPT !.tick = op.tick]
    BY <1>4 DEF Atomic!Updated
  <2>7. DOMAIN E \subseteq NumberKeys(p)
    BY <2>2 DEF NumberKeys
  <2> QED
    BY <1>1, <1>2, <2>4, <2>5, <2>6, <2>7, RecordParts
<1>5. CASE op.name = "SetTickSpacing"
  <2>1. E = [k \in {TickSpacingKey(p)} |-> Bytes(op.spacing)]
    BY <1>5 DEF Entries
  <2>2. DOMAIN E = {TickSpacingKey(p)} /\ E[TickSpacingKey(p)] = Bytes(op.spacing)
    BY <2>1
  <2> HIDE DEF E
  <2>3. /\ PoolHeightKey(p) \notin DOMAIN E /\ CurrentTickKey(p) \notin DOMAIN E
        /\ \A t \in Ticks : TickStateKey(p, t) \notin DOMAIN E
    BY <2>2, KeysDiffer DEF NumberKeys
  <2>4. UNCHANGED <<Height(p), Number(CurrentTickKey(p)), States(p)>>
    BY <1>1, <2>3, PartFrame
  <2>5. Number(TickSpacingKey(p))' = op.spacing
    BY <1>1, <1>5, <2>2, NumberPut
  <2>6. Atomic!Updated(Record(p), op) = [Record(p) EXCEPT !.spacing = op.spacing]
    BY <1>5 DEF Atomic!Updated
  <2>7. DOMAIN E \subseteq NumberKeys(p)
    BY <2>2 DEF NumberKeys
  <2> QED
    BY <1>1, <1>2, <2>4, <2>5, <2>6, <2>7, RecordParts
<1>6. CASE op.name = "SetHeight"
  <2>1. E = [k \in {PoolHeightKey(p)} |-> op.height]
    BY <1>6 DEF Entries
  <2>2. DOMAIN E = {PoolHeightKey(p)} /\ E[PoolHeightKey(p)] = op.height
    BY <2>1
  <2> HIDE DEF E
  <2>3. /\ TickSpacingKey(p) \notin DOMAIN E /\ CurrentTickKey(p) \notin DOMAIN E
        /\ \A t \in Ticks : TickStateKey(p, t) \notin DOMAIN E
    BY <2>2, KeysDiffer DEF NumberKeys
  <2>4. UNCHANGED <<Number(TickSpacingKey(p)), Number(CurrentTickKey(p)), States(p)>>
    BY <1>1, <2>3, PartFrame
  <2>5. Height(p)' = op.height
    BY <1>1, <2>2, NumberPut
  <2>6. Atomic!Updated(Record(p), op) = [Record(p) EXCEPT !.height = op.height]
    BY <1>6 DEF Atomic!Updated
  <2>7. DOMAIN E \subseteq NumberKeys(p)
    BY <2>2 DEF NumberKeys
  <2> QED
    BY <1>1, <1>2, <2>4, <2>5, <2>6, <2>7, RecordParts
<1> QED
  BY <1>3, <1>4, <1>5, <1>6

\* SetPoolState replaces the numbers and lays its ticks over the stored ones.
LEMMA UpdatedPoolState ==
    ASSUME KeysOK, NEW p \in Pools, NEW op, Write(p, op),
           op.name = "SetPoolState", IsRecord(op.record)
    PROVE  /\ DOMAIN kv' \subseteq DOMAIN kv \cup NumberKeys(p) \cup TickKeys(p)
           /\ \A k : k \notin NumberKeys(p) \cup TickKeys(p) => Same(k)
           /\ Record(p)' = Atomic!Updated(Record(p), op)
<1> DEFINE E == Entries(p, op)
           r == op.record
<1>1. /\ DOMAIN kv' = DOMAIN kv \cup DOMAIN E
      /\ \A k \in DOMAIN E : kv'[k] = E[k]
      /\ \A k : k \notin DOMAIN E => Same(k)
  BY WriteFacts DEF Removed
<1>2. Record(p)' = [height |-> Height(p)', spacing |-> Number(TickSpacingKey(p))',
                    tick |-> Number(CurrentTickKey(p))', states |-> States(p)']
  BY DEF Record, States, StoredTicks
<1>3. /\ r = [height |-> r.height, spacing |-> r.spacing, tick |-> r.tick, states |-> r.states]
      /\ r.height \in Nat /\ r.spacing \in 0..Half-1 /\ r.tick \in Ticks /\ IsStates(r.states)
      /\ DOMAIN r.states \subseteq Ticks
  BY DEF IsRecord, IsStates
<1>4. E = With(NumberEntries(p, r), TickEntries(p, r.states))
  BY DEF Entries
<1>5. /\ DOMAIN TickEntries(p, r.states) = {TickStateKey(p, t) : t \in DOMAIN r.states}
      /\ \A t \in DOMAIN r.states : TickEntries(p, r.states)[TickStateKey(p, t)] = r.states[t]
  BY <1>3, TickEntriesFacts
<1>6. \A k \in NumberKeys(p) : k \notin DOMAIN TickEntries(p, r.states)
  BY <1>3, <1>5, KeysDiffer
<1>7. /\ DOMAIN NumberEntries(p, r) = NumberKeys(p)
      /\ NumberEntries(p, r)[PoolHeightKey(p)] = r.height
      /\ NumberEntries(p, r)[CurrentTickKey(p)] = Bytes(r.tick)
      /\ NumberEntries(p, r)[TickSpacingKey(p)] = Bytes(r.spacing)
  BY KeysDiffer DEF NumberEntries, NumberKeys
<1>8. /\ DOMAIN E = NumberKeys(p) \cup {TickStateKey(p, t) : t \in DOMAIN r.states}
      /\ \A t \in DOMAIN r.states : E[TickStateKey(p, t)] = r.states[t]
      /\ \A k \in NumberKeys(p) : E[k] = NumberEntries(p, r)[k]
  BY <1>4, <1>5, <1>6, <1>7 DEF With
<1>9. PoolHeightKey(p) \in NumberKeys(p) /\ CurrentTickKey(p) \in NumberKeys(p)
      /\ TickSpacingKey(p) \in NumberKeys(p)
  BY DEF NumberKeys
<1> HIDE DEF E, r
<1>10. Height(p)' = r.height
  BY <1>1, <1>7, <1>8, <1>9, NumberPut
<1>11. Number(TickSpacingKey(p))' = r.spacing
  BY <1>1, <1>3, <1>7, <1>8, <1>9, NumberPut
<1>12. Number(CurrentTickKey(p))' = r.tick
  BY <1>1, <1>3, <1>7, <1>8, <1>9, NumberPut
<1>13. States(p)' = With(States(p), r.states)
  <2>1. \A t \in DOMAIN r.states : TickStateKey(p, t) \in DOMAIN kv' /\ kv'[TickStateKey(p, t)] = r.states[t]
    BY <1>1, <1>8
  <2>2. \A t \in Ticks \ DOMAIN r.states : TickStateKey(p, t) \notin DOMAIN E
    BY <1>3, <1>8, KeysDiffer
  <2>3. \A t \in Ticks \ DOMAIN r.states : Same(TickStateKey(p, t))
    BY <1>1, <2>2
  <2> QED
    BY <1>3, <2>1, <2>3, StatesPut
<1>14. DOMAIN E \subseteq NumberKeys(p) \cup TickKeys(p)
  BY <1>3, <1>8 DEF TickKeys
<1>15. Atomic!Updated(Record(p), op) = [r EXCEPT !.states = With(States(p), r.states)]
  <2>1. Record(p).states = States(p)
    BY RecordParts
  <2>2. Atomic!Updated(Record(p), op) = [op.record EXCEPT !.states = Atomic!With(Record(p).states, @)]
    BY DEF Atomic!Updated
  <2> QED
    BY <2>1, <2>2 DEF Atomic!With, With, r
<1>16. [r EXCEPT !.states = With(States(p), r.states)] =
          [height |-> r.height, spacing |-> r.spacing, tick |-> r.tick, states |-> With(States(p), r.states)]
  BY <1>3
<1> QED
  BY <1>1, <1>2, <1>10, <1>11, <1>12, <1>13, <1>14, <1>15, <1>16

\* DeletePoolState leaves a fresh record but for the greatest tick.
LEMMA UpdatedDelete ==
    ASSUME KeysOK, NEW p \in Pools, NEW op, Write(p, op), op.name = "DeletePoolState"
    PROVE  /\ DOMAIN kv' \subseteq DOMAIN kv \cup NumberKeys(p) \cup TickKeys(p)
           /\ \A k : k \notin NumberKeys(p) \cup TickKeys(p) => Same(k)
           /\ Record(p)' = Atomic!Updated(Record(p), op)
<1>1. Entries(p, op) = <<>>
  BY DEF Entries
<1>2. DOMAIN Entries(p, op) = {}
  BY <1>1, EmptySeq
<1>3. DOMAIN kv' = DOMAIN kv \ Deleted(p) /\ \A k : k \notin Deleted(p) => Same(k)
  BY <1>2, WriteFacts DEF Removed
<1>4. Deleted(p) = ({TickStateKey(p, t) : t \in StoredTicks(p)} \ {TickStateKey(p, MaxTick)})
                      \cup NumberKeys(p)
  BY Scan DEF Deleted, NumberKeys
<1>5. Deleted(p) \subseteq NumberKeys(p) \cup TickKeys(p)
  BY <1>4 DEF StoredTicks, TickKeys
<1>6. Height(p)' = 0 /\ Number(TickSpacingKey(p))' = 0 /\ Number(CurrentTickKey(p))' = 0
  <2>1. \A k \in NumberKeys(p) : k \notin DOMAIN kv'
    BY <1>3, <1>4
  <2> QED
    BY <2>1 DEF NumberKeys, Height, Number, PoolHeightKey, TickSpacingKey, CurrentTickKey
<1>7. \A t : TickStateKey(p, t)' = TickStateKey(p, t)
  BY DEF TickStateKey, OrderedBytes
<1>8. StoredTicks(p)' = StoredTicks(p) \cap {MaxTick}
  <2>1. \A t \in Ticks \ {MaxTick} : TickStateKey(p, t) \notin DOMAIN kv'
    <3> SUFFICES ASSUME NEW t \in Ticks \ {MaxTick}, TickStateKey(p, t) \in DOMAIN kv'
                 PROVE  FALSE
      OBVIOUS
    <3>1. TickStateKey(p, t) \in DOMAIN kv
      BY <1>3
    <3>2. TickStateKey(p, t) # TickStateKey(p, MaxTick)
      BY KeysDiffer, HalfFacts
    <3>3. TickStateKey(p, t) \in Deleted(p)
      BY <1>4, <3>1, <3>2 DEF StoredTicks
    <3> QED
      BY <1>3, <3>3
  <2>2. TickStateKey(p, MaxTick) \notin Deleted(p)
    BY <1>4, KeysDiffer, HalfFacts
  <2>3. TickStateKey(p, MaxTick) \in DOMAIN kv' <=> TickStateKey(p, MaxTick) \in DOMAIN kv
    BY <1>3, <2>2
  <2> QED
    BY <1>7, <2>1, <2>3 DEF StoredTicks
<1>9. \A t \in StoredTicks(p)' : kv'[TickStateKey(p, t)] = kv[TickStateKey(p, t)]
  <2>1. TickStateKey(p, MaxTick) \notin Deleted(p)
    BY <1>4, KeysDiffer, HalfFacts
  <2> QED
    BY <1>3, <1>8, <2>1 DEF Same, StoredTicks
<1>10. States(p)' = [t \in StoredTicks(p) \cap {MaxTick} |-> States(p)[t]]
  BY <1>7, <1>8, <1>9 DEF States
<1>11. Record(p)' = [height |-> 0, spacing |-> 0, tick |-> 0, states |-> States(p)']
  BY <1>6 DEF Record, States, StoredTicks
<1>12. Atomic!Updated(Record(p), op) = [Atomic!Fresh EXCEPT !.states =
            [t \in DOMAIN Record(p).states \cap {MaxTick} |-> Record(p).states[t]]]
  BY DEF Atomic!Updated
<1>13. Record(p).states = States(p) /\ DOMAIN States(p) = StoredTicks(p)
  BY RecordParts DEF States
<1>14. Atomic!Updated(Record(p), op) = [height |-> 0, spacing |-> 0, tick |-> 0,
            states |-> [t \in StoredTicks(p) \cap {MaxTick} |-> States(p)[t]]]
  BY <1>12, <1>13 DEF Atomic!Fresh
<1> QED
  BY <1>3, <1>5, <1>10, <1>11, <1>14

\* A pool's record is what SafeDB and RocksDB make of it.
DataOK ==
    /\ KeysOK
    /\ \A p \in Pools : /\ Height(p) \in Nat
                        /\ Number(TickSpacingKey(p)) \in Nat
                        /\ Number(CurrentTickKey(p)) \in Ticks

\* An operation writes its pool's record as AtomicStore says, and no other one.
LEMMA WriteEffect ==
    ASSUME DataOK, NEW p \in Pools, NEW op \in Ops(p), op.name \in Writes, Write(p, op)
    PROVE  /\ DataOK'
           /\ Record(p)' = Atomic!Updated(Record(p), op)
           /\ \A q \in Pools \ {p} : Record(q)' = Record(q)
<1>1. \/ op.name = "SetTickState" /\ IsStates(op.states)
      \/ op.name = "SetCurrentTick" /\ op.tick \in Ticks
      \/ op.name = "SetTickSpacing" /\ op.spacing \in 0..Half-1
      \/ op.name = "SetHeight" /\ op.height \in Nat
      \/ op.name = "SetPoolState" /\ IsRecord(op.record)
      \/ op.name = "DeletePoolState"
  BY CallersAssumption DEF Writes
<1>2. /\ DOMAIN kv' \subseteq DOMAIN kv \cup NumberKeys(p) \cup TickKeys(p)
      /\ \A k : k \notin NumberKeys(p) \cup TickKeys(p) => Same(k)
      /\ Record(p)' = Atomic!Updated(Record(p), op)
  BY <1>1, UpdatedSome, UpdatedPoolState, UpdatedDelete DEF DataOK
<1>3. \A q \in Pools \ {p} : \A k \in NumberKeys(q) \cup TickKeys(q) : k \notin NumberKeys(p) \cup TickKeys(p)
  BY KeysDiffer DEF NumberKeys, TickKeys
<1>4. ASSUME NEW q \in Pools \ {p}
      PROVE  /\ UNCHANGED <<Height(q), Number(TickSpacingKey(q)), Number(CurrentTickKey(q)), States(q)>>
             /\ Record(q)' = Record(q)
  <2>1. \A k \in NumberKeys(q) \cup TickKeys(q) : Same(k)
    BY <1>2, <1>3
  <2>2. Same(PoolHeightKey(q)) /\ Same(TickSpacingKey(q)) /\ Same(CurrentTickKey(q))
        /\ \A t \in Ticks : Same(TickStateKey(q, t))
    BY <2>1 DEF NumberKeys, TickKeys
  <2>3. UNCHANGED <<Height(q), Number(TickSpacingKey(q)), Number(CurrentTickKey(q)), States(q)>>
    BY <2>2, PartFrame
  <2> QED
    BY <2>3 DEF Record, States, StoredTicks
<1>5. KeysOK'
  <2>1. \A q : (NumberKeys(q) \cup TickKeys(q))' = NumberKeys(q) \cup TickKeys(q)
    BY DEF NumberKeys, TickKeys, TickStateKey, OrderedBytes, CurrentTickKey, TickSpacingKey, PoolHeightKey
  <2> QED
    BY <1>2, <2>1 DEF KeysOK, DataOK
<1>6. Height(p)' \in Nat /\ Number(TickSpacingKey(p))' \in Nat /\ Number(CurrentTickKey(p))' \in Ticks
  <2> DEFINE rec == Record(p)
             new == Atomic!Updated(rec, op)
  <2>1. Record(p)'.height = Height(p)' /\ Record(p)'.spacing = Number(TickSpacingKey(p))'
        /\ Record(p)'.tick = Number(CurrentTickKey(p))'
    BY DEF Record
  <2>2. /\ rec = [height |-> rec.height, spacing |-> rec.spacing, tick |-> rec.tick, states |-> rec.states]
        /\ rec.height \in Nat /\ rec.spacing \in Nat /\ rec.tick \in Ticks
    BY RecordParts DEF DataOK
  <2> HIDE DEF rec
  <2>3. new.height \in Nat /\ new.spacing \in Nat /\ new.tick \in Ticks
    <3>1. CASE op.name = "SetTickState"
      BY <2>2, <3>1 DEF Atomic!Updated
    <3>2. CASE op.name = "SetCurrentTick"
      BY <1>1, <2>2, <3>2 DEF Atomic!Updated
    <3>3. CASE op.name = "SetTickSpacing"
      <4>1. op.spacing \in Nat
        BY <1>1, <3>3, HalfFacts
      <4> QED
        BY <2>2, <3>3, <4>1 DEF Atomic!Updated
    <3>4. CASE op.name = "SetHeight"
      BY <1>1, <2>2, <3>4 DEF Atomic!Updated
    <3>5. CASE op.name = "SetPoolState"
      <4>1. /\ op.record = [height |-> op.record.height, spacing |-> op.record.spacing,
                            tick |-> op.record.tick, states |-> op.record.states]
            /\ op.record.height \in Nat /\ op.record.spacing \in Nat /\ op.record.tick \in Ticks
        BY <1>1, <3>5, HalfFacts DEF IsRecord
      <4> QED
        BY <3>5, <4>1 DEF Atomic!Updated
    <3>6. CASE op.name = "DeletePoolState"
      <4>1. 0 \in Ticks
        BY HalfFacts DEF Ticks
      <4> QED
        BY <3>6, <4>1 DEF Atomic!Updated, Atomic!Fresh
    <3> QED
      BY <1>1, <3>1, <3>2, <3>3, <3>4, <3>5, <3>6
  <2> HIDE DEF new
  <2>4. Record(p)' = new
    BY <1>2 DEF new, rec
  <2> QED
    BY <2>1, <2>3, <2>4
<1>7. DataOK'
  BY <1>4, <1>5, <1>6 DEF DataOK, Ticks
<1> QED
  BY <1>2, <1>4, <1>7

-----------------------------------------------------------------------------
(* The clients. *)

\* Where a client can be.
Steps == {"idle", "find", "make", "lock"} \cup Inside

\* Where a client is in its operation, and what it has read.
ClientOK(c) ==
    LET p == client[c].pool
        op == client[c].op
        pc == client[c].pc
        got == client[c].got
    IN  /\ client[c] = [pc |-> pc, op |-> op, pool |-> p, lock |-> client[c].lock, got |-> got]
        /\ pc \in Steps
        /\ pc = "idle" => client[c] = Idle
        /\ pc # "idle" => p \in Pools /\ op \in Ops(p)
        /\ pc \in {"lock"} \cup Inside => client[c].lock \in Clients /\ client[c].lock = locks[p]
        /\ pc = "write" => op.name \in Writes
        /\ pc = "read" => op.name \notin Writes
        /\ pc \in {"spacing", "tick", "states"} => op.name = "GetPoolState" /\ Height(p) # 0
        /\ pc \in {"find", "make", "lock", "write", "read"} => got = <<>>
        /\ pc = "spacing" => got = <<Height(p)>>
        /\ pc = "tick" => got = <<Height(p), Number(TickSpacingKey(p))>>
        /\ pc = "states" =>
              got = <<Height(p), Number(TickSpacingKey(p)), Number(CurrentTickKey(p))>>

\* Clients and locks are functions, a pool's lock made by a client if at all.
Shape ==
    /\ client = [c \in Clients |-> client[c]]
    /\ locks \in [Pools -> Clients \cup {NoLock}]

\* The inductive invariant.
IInv == DataOK /\ Shape /\ MutualExclusion /\ \A c \in Clients : ClientOK(c)

\* The empty database has it.
LEMMA InitInv == Init => IInv
<1> SUFFICES ASSUME Init PROVE IInv
  OBVIOUS
<1> USE DEF Init
<1>1. DOMAIN kv = {}
  BY EmptySeq
<1>2. DataOK
  <2>1. 0 \in Ticks
    BY HalfFacts DEF Ticks
  <2> QED
    BY <1>1, <2>1 DEF DataOK, KeysOK, Height, Number
<1>3. Shape
  BY DEF Shape
<1>4. MutualExclusion
  BY DEF MutualExclusion, Holds, Inside, Idle
<1>5. \A c \in Clients : ClientOK(c)
  BY DEF ClientOK, Idle, Steps, Inside
<1> QED
  BY <1>2, <1>3, <1>4, <1>5 DEF IInv

\* A client that does not take part in a step, which writes no pool but one
\* that this client does not hold, is as it was.
LEMMA OtherClient ==
    ASSUME IInv, NEW d \in Clients, client'[d] = client[d],
           client[d].pc \in {"lock"} \cup Inside => locks'[client[d].pool] = locks[client[d].pool],
           \/ UNCHANGED kv
           \/ client[d].pc \notin {"spacing", "tick", "states"}
           \/ UNCHANGED <<Height(client[d].pool), Number(TickSpacingKey(client[d].pool)),
                          Number(CurrentTickKey(client[d].pool))>>
    PROVE  ClientOK(d)'
<1> DEFINE p == client[d].pool
<1>1. ClientOK(d)
  BY DEF IInv
<1>2. client[d].pc \in {"spacing", "tick", "states"} =>
         UNCHANGED <<Height(p), Number(TickSpacingKey(p)), Number(CurrentTickKey(p))>>
  BY DEF Height, Number, PoolHeightKey, TickSpacingKey, CurrentTickKey, FromBytes, Int32, Half
<1> QED
  BY <1>1, <1>2 DEF ClientOK, Steps, Inside, Idle

\* A client that does not come to hold a lock keeps the exclusion.
LEMMA KeepsExclusion ==
    ASSUME MutualExclusion, NEW c \in Clients, \A d \in Clients \ {c} : client'[d] = client[d],
           client'[c].pc \in Inside =>
              client[c].pc \in Inside /\ client'[c].pool = client[c].pool /\ client'[c].op = client[c].op
    PROVE  MutualExclusion'
<1> SUFFICES ASSUME NEW a \in Clients, NEW b \in Clients, a # b,
                    client'[a].pc \in Inside, client'[b].pc \in Inside, client'[a].pool = client'[b].pool
             PROVE  client'[a].op.name \notin Writes /\ client'[b].op.name \notin Writes
  BY DEF MutualExclusion, Holds, IsWrite, Inside, Writes
<1>1. \A d \in {a, b} : /\ client[d].pc \in Inside
                        /\ client'[d].pool = client[d].pool /\ client'[d].op = client[d].op
  <2>1. CASE a = c
    BY <2>1
  <2>2. CASE b = c
    BY <2>2
  <2>3. CASE a # c /\ b # c
    BY <2>3
  <2> QED
    BY <2>1, <2>2, <2>3
<1> QED
  BY <1>1 DEF MutualExclusion, Holds, IsWrite

\* A call names a pool and an operation the callers may pass.
LEMMA CallStep ==
    ASSUME IInv, NEW c \in Clients, Call(c)
    PROVE  IInv'
<1>0. PICK p \in Pools : \E op \in Ops(p) :
         /\ client' = [client EXCEPT ![c] = [Idle EXCEPT !.pc = "find", !.op = op, !.pool = p]]
         /\ UNCHANGED <<kv, locks>>
  BY DEF Call
<1>1. PICK op \in Ops(p) :
         /\ client' = [client EXCEPT ![c] = [Idle EXCEPT !.pc = "find", !.op = op, !.pool = p]]
         /\ UNCHANGED <<kv, locks>>
  BY <1>0
<1>2. /\ client'[c] = [pc |-> "find", op |-> op, pool |-> p, lock |-> NoLock, got |-> <<>>]
      /\ \A d \in Clients \ {c} : client'[d] = client[d]
      /\ client' = [d \in Clients |-> client'[d]]
  BY <1>1 DEF Idle, IInv, Shape
<1>3. ClientOK(c)'
  BY <1>1, <1>2 DEF ClientOK, Steps, Inside
<1>4. \A d \in Clients \ {c} : ClientOK(d)'
  BY <1>1, <1>2, OtherClient
<1>5. MutualExclusion'
  BY <1>2, KeepsExclusion DEF IInv, Inside
<1>6. DataOK'
  BY <1>1 DEF IInv, DataOK, KeysOK, NumberKeys, TickKeys, TickStateKey, OrderedBytes, CurrentTickKey,
     TickSpacingKey, PoolHeightKey, Height, Number, FromBytes, Int32, Ticks, Half
<1> QED
  BY <1>1, <1>2, <1>3, <1>4, <1>5, <1>6 DEF IInv, Shape

\* A step that leaves the data alone.
LEMMA DataFrame ==
    ASSUME IInv, UNCHANGED kv
    PROVE  /\ DataOK'
           /\ \A p \in Pools : UNCHANGED <<Height(p), Number(TickSpacingKey(p)), Number(CurrentTickKey(p)),
                                           Record(p)>>
<1>1. DataOK'
  BY DEF IInv, DataOK, KeysOK, NumberKeys, TickKeys, TickStateKey, OrderedBytes, CurrentTickKey,
     TickSpacingKey, PoolHeightKey, Height, Number, FromBytes, Int32, Ticks, Half
<1>2. \A p : UNCHANGED <<Height(p), Number(TickSpacingKey(p)), Number(CurrentTickKey(p))>>
  BY DEF CurrentTickKey, TickSpacingKey, PoolHeightKey, Height, Number, FromBytes, Int32, Half
<1>3. \A p : Record(p)' = Record(p)
  BY DEF CurrentTickKey, TickSpacingKey, PoolHeightKey, TickStateKey, OrderedBytes, Height, Number,
     FromBytes, Int32, Half, Record, Ticks
<1> QED
  BY <1>1, <1>2, <1>3

\* A lock found is the table's.
LEMMA FindLockStep ==
    ASSUME IInv, NEW c \in Clients, FindLock(c)
    PROVE  IInv'
<1> DEFINE p == client[c].pool
           lock == locks[p]
<1>1. /\ client[c].pc = "find"
      /\ client' = [client EXCEPT ![c].pc = IF lock = NoLock THEN "make" ELSE "lock", ![c].lock = lock]
      /\ UNCHANGED <<kv, locks>>
  BY DEF FindLock
<1>2. ClientOK(c) /\ p \in Pools /\ lock \in Clients \cup {NoLock}
  BY <1>1 DEF IInv, ClientOK, Shape
<1>3. /\ client'[c] = [pc |-> IF lock = NoLock THEN "make" ELSE "lock", op |-> client[c].op,
                       pool |-> p, lock |-> lock, got |-> <<>>]
      /\ \A d \in Clients \ {c} : client'[d] = client[d]
      /\ client' = [d \in Clients |-> client'[d]]
  BY <1>1, <1>2 DEF IInv, Shape, ClientOK
<1>4. ClientOK(c)'
  BY <1>1, <1>2, <1>3 DEF ClientOK, Steps, Inside
<1>5. \A d \in Clients \ {c} : ClientOK(d)'
  BY <1>1, <1>3, OtherClient
<1>6. MutualExclusion'
  BY <1>3, KeepsExclusion DEF IInv, Inside
<1> QED
  BY <1>1, <1>3, <1>4, <1>5, <1>6, DataFrame DEF IInv, Shape

\* The lock that is made is the first one of its pool, or the one that was.
LEMMA MakeLockStep ==
    ASSUME IInv, NEW c \in Clients, MakeLock(c)
    PROVE  IInv'
<1> DEFINE p == client[c].pool
           lock == IF locks[p] = NoLock THEN c ELSE locks[p]
<1>1. /\ client[c].pc = "make"
      /\ locks' = [locks EXCEPT ![p] = lock]
      /\ client' = [client EXCEPT ![c].pc = "lock", ![c].lock = locks'[p]]
      /\ UNCHANGED kv
  BY DEF MakeLock
<1>2. ClientOK(c) /\ p \in Pools /\ lock \in Clients /\ locks'[p] = lock
      /\ locks' \in [Pools -> Clients \cup {NoLock}] /\ \A q \in Pools \ {p} : locks'[q] = locks[q]
  BY <1>1 DEF IInv, ClientOK, Shape
<1>3. /\ client'[c] = [pc |-> "lock", op |-> client[c].op, pool |-> p, lock |-> lock, got |-> <<>>]
      /\ \A d \in Clients \ {c} : client'[d] = client[d]
      /\ client' = [d \in Clients |-> client'[d]]
  BY <1>1, <1>2 DEF IInv, Shape, ClientOK
<1>4. ClientOK(c)'
  BY <1>1, <1>2, <1>3 DEF ClientOK, Steps, Inside
<1>5. ASSUME NEW d \in Clients \ {c}
      PROVE  ClientOK(d)'
  <2>1. ClientOK(d)
    BY DEF IInv
  <2>2. ASSUME client[d].pc \in {"lock"} \cup Inside
        PROVE  locks'[client[d].pool] = locks[client[d].pool]
    <3>1. locks[client[d].pool] # NoLock /\ client[d].pool \in Pools
      BY <2>1, <2>2, CallersAssumption DEF ClientOK, Inside
    <3>2. CASE client[d].pool = p
      BY <1>2, <3>1, <3>2
    <3>3. CASE client[d].pool # p
      BY <1>2, <3>1, <3>3
    <3> QED
      BY <3>2, <3>3
  <2> QED
    BY <1>1, <1>3, <2>2, OtherClient
<1>6. MutualExclusion'
  BY <1>3, KeepsExclusion DEF IInv, Inside
<1> QED
  BY <1>1, <1>2, <1>3, <1>4, <1>5, <1>6, DataFrame DEF IInv, Shape

\* Who comes to hold a pool's lock, the only one of it, holds it alone or with
\* other readers.
LEMMA LockStep ==
    ASSUME IInv, NEW c \in Clients, Lock(c)
    PROVE  IInv'
<1> DEFINE p == client[c].pool
           step == IF client[c].op.name \in Writes THEN "write" ELSE "read"
<1>1. /\ client[c].pc = "lock" /\ MayHold(c)
      /\ client' = [client EXCEPT ![c].pc = step]
      /\ UNCHANGED <<kv, locks>>
  BY DEF Lock, To, IsWrite
<1>2. ClientOK(c) /\ p \in Pools /\ client[c].lock = locks[p]
  BY <1>1 DEF IInv, ClientOK
<1>3. /\ client'[c] = [pc |-> step, op |-> client[c].op, pool |-> p, lock |-> client[c].lock,
                       got |-> <<>>]
      /\ \A d \in Clients \ {c} : client'[d] = client[d]
      /\ client' = [d \in Clients |-> client'[d]]
  BY <1>1, <1>2 DEF IInv, Shape, ClientOK
<1>4. ClientOK(c)'
  BY <1>1, <1>2, <1>3 DEF ClientOK, Steps, Inside
<1>5. \A d \in Clients \ {c} : ClientOK(d)'
  BY <1>1, <1>3, OtherClient
<1>6. ASSUME NEW d \in Clients \ {c}, client[d].pc \in Inside, client[d].pool = p
      PROVE  client[c].op.name \notin Writes /\ client[d].op.name \notin Writes
  <2>1. client[d].lock = locks[p]
    BY <1>6 DEF IInv, ClientOK
  <2> QED
    BY <1>1, <1>2, <1>6, <2>1 DEF MayHold, Holds, SameLock, IsWrite
<1>7. MutualExclusion'
  <2> SUFFICES ASSUME NEW a \in Clients, NEW b \in Clients, a # b,
                      client'[a].pc \in Inside, client'[b].pc \in Inside,
                      client'[a].pool = client'[b].pool
               PROVE  client'[a].op.name \notin Writes /\ client'[b].op.name \notin Writes
    BY DEF MutualExclusion, Holds, IsWrite, Inside, Writes
  <2>1. CASE a = c
    BY <1>3, <1>6, <2>1
  <2>2. CASE b = c
    BY <1>3, <1>6, <2>2
  <2>3. CASE a # c /\ b # c
    BY <1>3, <2>3 DEF IInv, MutualExclusion, Holds, IsWrite
  <2> QED
    BY <2>1, <2>2, <2>3
<1> QED
  BY <1>1, <1>3, <1>4, <1>5, <1>7, DataFrame DEF IInv, Shape

\* Leaving disturbs nobody.
LEMMA UnlockStep ==
    ASSUME IInv, NEW c \in Clients, Unlock(c)
    PROVE  IInv'
<1>1. /\ client'[c] = Idle
      /\ \A d \in Clients \ {c} : client'[d] = client[d]
      /\ client' = [d \in Clients |-> client'[d]]
      /\ UNCHANGED <<kv, locks>>
  BY DEF Unlock, IInv, Shape
<1>2. ClientOK(c)'
  BY <1>1 DEF ClientOK, Steps, Inside, Idle
<1>3. \A d \in Clients \ {c} : ClientOK(d)'
  BY <1>1, OtherClient
<1>4. MutualExclusion'
  BY <1>1, KeepsExclusion DEF IInv, Inside, Idle
<1> QED
  BY <1>1, <1>2, <1>3, <1>4, DataFrame DEF IInv, Shape

\* Who writes is alone with its pool, so no reader's values change.
LEMMA DoWriteStep ==
    ASSUME IInv, NEW c \in Clients, DoWrite(c)
    PROVE  /\ IInv'
           /\ \E p \in Pools : \E op \in Ops(p) :
                 /\ p = client[c].pool /\ op = client[c].op
                 /\ Record(p)' = Atomic!Updated(Record(p), op)
                 /\ \A q \in Pools \ {p} : Record(q)' = Record(q)
<1>1. /\ client[c].pc = "write" /\ ClientOK(c)
      /\ Write(client[c].pool, client[c].op)
      /\ client' = [client EXCEPT ![c].pc = "unlock"]
      /\ UNCHANGED locks
  BY DEF DoWrite, To, IInv
<1>2. PICK p \in Pools : p = client[c].pool
  BY <1>1 DEF ClientOK
<1>3. PICK op \in Ops(p) : op = client[c].op
  BY <1>1, <1>2 DEF ClientOK
<1>4. op.name \in Writes /\ Write(p, op)
  BY <1>1, <1>2, <1>3 DEF ClientOK
<1>5. /\ DataOK'
      /\ Record(p)' = Atomic!Updated(Record(p), op)
      /\ \A q \in Pools \ {p} : Record(q)' = Record(q)
  BY <1>4, WriteEffect DEF IInv
<1>6. /\ client'[c] = [pc |-> "unlock", op |-> op, pool |-> p, lock |-> client[c].lock, got |-> <<>>]
      /\ \A d \in Clients \ {c} : client'[d] = client[d]
      /\ client' = [d \in Clients |-> client'[d]]
  BY <1>1, <1>2, <1>3 DEF IInv, Shape, ClientOK
<1>7. ClientOK(c)'
  BY <1>1, <1>2, <1>3, <1>6 DEF ClientOK, Steps, Inside
<1>8. ASSUME NEW d \in Clients \ {c}
      PROVE  ClientOK(d)'
  <2>1. CASE client[d].pc \notin {"spacing", "tick", "states"}
    BY <1>1, <1>6, <2>1, OtherClient
  <2>2. CASE client[d].pc \in {"spacing", "tick", "states"}
    <3>1. PICK q \in Pools : q = client[d].pool
      BY <2>2 DEF IInv, ClientOK
    <3>2. q # p
      BY <1>1, <1>2, <1>3, <1>4, <2>2, <3>1 DEF IInv, MutualExclusion, Holds, Inside, IsWrite
    <3>3. Record(q)' = Record(q)
      BY <1>5, <3>2
    <3>4. UNCHANGED <<Height(q), Number(TickSpacingKey(q)), Number(CurrentTickKey(q))>>
      BY <3>3 DEF Record
    <3>5. UNCHANGED <<Height(client[d].pool), Number(TickSpacingKey(client[d].pool)),
                      Number(CurrentTickKey(client[d].pool))>>
      <4>1. client'[d].pool = q
        BY <1>6, <3>1
      <4>2. /\ Height(client[d].pool)' = Height(q)'
            /\ Number(TickSpacingKey(client[d].pool))' = Number(TickSpacingKey(q))'
            /\ Number(CurrentTickKey(client[d].pool))' = Number(CurrentTickKey(q))'
        BY <4>1 DEF Height, Number, PoolHeightKey, TickSpacingKey, CurrentTickKey, FromBytes,
           Int32, Half
      <4> QED
        BY <3>1, <3>4, <4>2
    <3> QED
      BY <1>1, <1>6, <3>5, OtherClient
  <2> QED
    BY <2>1, <2>2
<1>9. MutualExclusion'
  BY <1>1, <1>2, <1>3, <1>6, KeepsExclusion DEF IInv, Inside
<1>10. IInv'
  BY <1>1, <1>5, <1>6, <1>7, <1>8, <1>9 DEF IInv, Shape
<1> QED
  BY <1>2, <1>3, <1>5, <1>10

\* A read of the client c: it goes on to step with got.
LEMMA ReadFrame ==
    ASSUME IInv, NEW c \in Clients, NEW step \in {"spacing", "tick", "states", "unlock"}, NEW got,
           client[c].pc \in {"read", "spacing", "tick", "states"},
           client'[c] = [pc |-> step, op |-> client[c].op, pool |-> client[c].pool,
                         lock |-> client[c].lock, got |-> got],
           \A d \in Clients \ {c} : client'[d] = client[d],
           client' = [d \in Clients |-> client'[d]],
           UNCHANGED <<kv, locks>>,
           step # "unlock" => client[c].op.name = "GetPoolState" /\ Height(client[c].pool) # 0,
           step = "spacing" => got = <<Height(client[c].pool)>>,
           step = "tick" => got = <<Height(client[c].pool), Number(TickSpacingKey(client[c].pool))>>,
           step = "states" => got = <<Height(client[c].pool), Number(TickSpacingKey(client[c].pool)),
                                      Number(CurrentTickKey(client[c].pool))>>
    PROVE  IInv'
<1>1. ClientOK(c)
  BY DEF IInv
<1>2. PICK p \in Pools : p = client[c].pool
  BY <1>1 DEF ClientOK
<1>3. /\ client'[c] = [pc |-> step, op |-> client[c].op, pool |-> p, lock |-> client[c].lock, got |-> got]
      /\ \A d \in Clients \ {c} : client'[d] = client[d]
      /\ client' = [d \in Clients |-> client'[d]]
  BY <1>1, <1>2 DEF IInv, Shape, ClientOK
<1>4. Height(p)' = Height(p) /\ Number(TickSpacingKey(p))' = Number(TickSpacingKey(p))
      /\ Number(CurrentTickKey(p))' = Number(CurrentTickKey(p))
  BY DataFrame
<1>5. ClientOK(c)'
  <2>1. client'[c].pool = p /\ client'[c].op = client[c].op /\ client'[c].got = got /\ client'[c].pc = step
    BY <1>3
  <2>2. /\ Height(client[c].pool)' = Height(p)
        /\ Number(TickSpacingKey(client[c].pool))' = Number(TickSpacingKey(p))
        /\ Number(CurrentTickKey(client[c].pool))' = Number(CurrentTickKey(p))
    BY <1>4, <2>1 DEF Height, Number, PoolHeightKey, TickSpacingKey, CurrentTickKey, FromBytes,
       Int32, Half
  <2> QED
    BY <1>1, <1>2, <1>3, <2>2 DEF ClientOK, Steps, Inside
<1>6. \A d \in Clients \ {c} : ClientOK(d)'
  BY <1>3, OtherClient
<1>7. MutualExclusion'
  BY <1>2, <1>3, KeepsExclusion DEF IInv, Inside
<1> QED
  BY <1>3, <1>5, <1>6, <1>7, DataFrame DEF IInv, Shape
\* Sequences of one to three elements, and one more.
LEMMA OneMore ==
    /\ \A a, b : Append(<<a>>, b) = <<a, b>>
    /\ \A a, b, d : Append(<<a, b>>, d) = <<a, b, d>>
    /\ \A a, b, d, e : Append(<<a, b, d>>, e) = <<a, b, d, e>>
<1>1. ASSUME NEW a, NEW b
      PROVE  Append(<<a>>, b) = <<a, b>>
  <2> DEFINE s == Append(<<a>>, b)
             S == {a, b}
  <2>1. <<a>> \in Seq(S) /\ Len(<<a>>) = 1
    OBVIOUS
  <2>2. s \in Seq(S) /\ Len(s) = 2
    BY <2>1, AppendProperties
  <2>3. s[1] = a /\ s[2] = b
    BY <2>1, AppendProperties
  <2> HIDE DEF s
  <2>4. <<a, b>> \in Seq(S) /\ Len(<<a, b>>) = 2
    OBVIOUS
  <2>5. \A i \in 1..2 : s[i] = <<a, b>>[i]
    BY <2>3
  <2>6. s = <<a, b>>
    BY <2>2, <2>4, <2>5, SeqEqual
  <2> QED
    BY <2>6 DEF s
<1>2. ASSUME NEW a, NEW b, NEW d
      PROVE  Append(<<a, b>>, d) = <<a, b, d>>
  <2> DEFINE s == Append(<<a, b>>, d)
             S == {a, b, d}
  <2>1. <<a, b>> \in Seq(S) /\ Len(<<a, b>>) = 2
    OBVIOUS
  <2>2. s \in Seq(S) /\ Len(s) = 3
    BY <2>1, AppendProperties
  <2>3. s[1] = a /\ s[2] = b /\ s[3] = d
    BY <2>1, AppendProperties
  <2> HIDE DEF s
  <2>4. <<a, b, d>> \in Seq(S) /\ Len(<<a, b, d>>) = 3
    OBVIOUS
  <2>5. \A i \in 1..3 : s[i] = <<a, b, d>>[i]
    BY <2>3
  <2>6. s = <<a, b, d>>
    BY <2>2, <2>4, <2>5, SeqEqual
  <2> QED
    BY <2>6 DEF s
<1>3. ASSUME NEW a, NEW b, NEW d, NEW e
      PROVE  Append(<<a, b, d>>, e) = <<a, b, d, e>>
  <2> DEFINE s == Append(<<a, b, d>>, e)
             S == {a, b, d, e}
  <2>1. <<a, b, d>> \in Seq(S) /\ Len(<<a, b, d>>) = 3
    OBVIOUS
  <2>2. s \in Seq(S) /\ Len(s) = 4
    BY <2>1, AppendProperties
  <2>3. s[1] = a /\ s[2] = b /\ s[3] = d /\ s[4] = e
    BY <2>1, AppendProperties
  <2> HIDE DEF s
  <2>4. <<a, b, d, e>> \in Seq(S) /\ Len(<<a, b, d, e>>) = 4
    OBVIOUS
  <2>5. \A i \in 1..4 : s[i] = <<a, b, d, e>>[i]
    BY <2>3
  <2>6. s = <<a, b, d, e>>
    BY <2>2, <2>4, <2>5, SeqEqual
  <2> QED
    BY <2>6 DEF s
<1> QED
  BY <1>1, <1>2, <1>3

\* A read leaves the client with what it has read, which its lock keeps so.
LEMMA ReadStep ==
    ASSUME IInv, NEW c \in Clients, DoRead(c) \/ ReadSpacing(c) \/ ReadTick(c) \/ ReadStates(c)
    PROVE  IInv'
<1> DEFINE p == client[c].pool
           op == client[c].op
           got == client[c].got
<1>1. ClientOK(c)
  BY DEF IInv
<1>2. CASE DoRead(c)
  <2> DEFINE new == FirstRead(p, op)
             step == IF op.name = "GetPoolState" /\ new # <<>> THEN "spacing" ELSE "unlock"
  <2>1. /\ client[c].pc = "read"
        /\ client'[c] = [pc |-> step, op |-> op, pool |-> p, lock |-> client[c].lock, got |-> new]
        /\ \A d \in Clients \ {c} : client'[d] = client[d]
        /\ client' = [d \in Clients |-> client'[d]]
        /\ UNCHANGED <<kv, locks>>
    <3> HIDE DEF new
    <3>1. /\ client[c].pc = "read"
          /\ client' = [client EXCEPT ![c].got = new, ![c].pc = step]
          /\ UNCHANGED <<kv, locks>>
      BY <1>2 DEF DoRead, new
    <3> QED
      BY <1>1, <3>1 DEF IInv, Shape, ClientOK
  <2>2. step = "spacing" => op.name = "GetPoolState" /\ Height(p) # 0 /\ new = <<Height(p)>>
    BY DEF FirstRead
  <2>3. step \in {"spacing", "unlock"}
    OBVIOUS
  <2> HIDE DEF new, step
  <2> QED
    BY <2>1, <2>2, <2>3, ReadFrame
<1>3. CASE ReadSpacing(c)
  <2>1. /\ client[c].pc = "spacing"
        /\ client'[c] = [pc |-> "tick", op |-> op, pool |-> p, lock |-> client[c].lock,
                         got |-> Append(got, Number(TickSpacingKey(p)))]
        /\ \A d \in Clients \ {c} : client'[d] = client[d]
        /\ client' = [d \in Clients |-> client'[d]]
        /\ UNCHANGED <<kv, locks>>
    BY <1>1, <1>3 DEF ReadSpacing, ReadNext, IInv, Shape, ClientOK
  <2>2. op.name = "GetPoolState" /\ Height(p) # 0 /\ got = <<Height(p)>>
    BY <1>1, <2>1 DEF ClientOK
  <2>3. Append(got, Number(TickSpacingKey(p))) = <<Height(p), Number(TickSpacingKey(p))>>
    BY <2>2, OneMore
  <2> QED
    BY <2>1, <2>2, <2>3, ReadFrame
<1>4. CASE ReadTick(c)
  <2>1. /\ client[c].pc = "tick"
        /\ client'[c] = [pc |-> "states", op |-> op, pool |-> p, lock |-> client[c].lock,
                         got |-> Append(got, Number(CurrentTickKey(p)))]
        /\ \A d \in Clients \ {c} : client'[d] = client[d]
        /\ client' = [d \in Clients |-> client'[d]]
        /\ UNCHANGED <<kv, locks>>
    BY <1>1, <1>4 DEF ReadTick, ReadNext, IInv, Shape, ClientOK
  <2>2. op.name = "GetPoolState" /\ Height(p) # 0 /\ got = <<Height(p), Number(TickSpacingKey(p))>>
    BY <1>1, <2>1 DEF ClientOK
  <2>3. Append(got, Number(CurrentTickKey(p))) =
          <<Height(p), Number(TickSpacingKey(p)), Number(CurrentTickKey(p))>>
    BY <2>2, OneMore
  <2> QED
    BY <2>1, <2>2, <2>3, ReadFrame
<1>5. CASE ReadStates(c)
  <2>1. /\ client[c].pc = "states"
        /\ client'[c] = [pc |-> "unlock", op |-> op, pool |-> p, lock |-> client[c].lock,
                         got |-> Append(got, TickStates(p))]
        /\ \A d \in Clients \ {c} : client'[d] = client[d]
        /\ client' = [d \in Clients |-> client'[d]]
        /\ UNCHANGED <<kv, locks>>
    BY <1>1, <1>5 DEF ReadStates, ReadNext, IInv, Shape, ClientOK
  <2> QED
    BY <2>1, ReadFrame
<1> QED
  BY <1>2, <1>3, <1>4, <1>5

\* Every step keeps the inductive invariant.
LEMMA NextInv == IInv /\ [Next]_vars => IInv'
<1> SUFFICES ASSUME IInv, [Next]_vars
             PROVE  IInv'
  OBVIOUS
<1>1. ASSUME NEW c \in Clients, Step(c)
      PROVE  IInv'
  BY <1>1, CallStep, FindLockStep, MakeLockStep, LockStep, UnlockStep, DoWriteStep, ReadStep DEF Step
<1>2. CASE UNCHANGED vars
  <2>1. UNCHANGED <<kv, locks, client>>
    BY <1>2 DEF vars
  <2>2. \A c \in Clients : ClientOK(c)'
    BY <2>1, OtherClient
  <2>3. MutualExclusion'
    BY <2>1 DEF IInv, MutualExclusion, Holds, IsWrite, Inside, Writes
  <2> QED
    BY <2>1, <2>2, <2>3, DataFrame DEF IInv, Shape
<1> QED
  BY <1>1, <1>2 DEF Next

\* The database's lock protocol and layout of keys keep the inductive invariant: every
\* client past the table of locks has its pool's one lock, and what a reader
\* has read is still stored.  (getOrCreateLock, SafeDB's operations)
THEOREM Invariance == Spec => []IInv
  BY InitInv, NextInv, PTL DEF Spec

\* The store's keys are those of its pools, and its variables keep their types.
THEOREM TypeCorrect == Spec => []TypeOK
<1>1. IInv => TypeOK
  <2> SUFFICES ASSUME IInv PROVE TypeOK
    OBVIOUS
  <2>1. DOMAIN kv \subseteq UNION {{CurrentTickKey(p), TickSpacingKey(p), PoolHeightKey(p)}
                                    \cup {TickStateKey(p, t) : t \in Ticks} : p \in Pools}
    BY DEF IInv, DataOK, KeysOK, NumberKeys, TickKeys
  <2>2. locks \in [Pools -> Clients \cup {NoLock}]
    BY DEF IInv, Shape
  <2>3. ASSUME NEW c \in Clients
        PROVE  /\ client[c].pc \in {"idle", "find", "make", "lock"} \cup Inside
               /\ client[c].pc \in {"lock"} \cup Inside => client[c].lock \in Clients
               /\ client[c].pc = "states" =>
                     client[c].got[1] \in Nat /\ client[c].got[2] \in Nat /\ client[c].got[3] \in Ticks
    <3>1. ClientOK(c)
      BY DEF IInv
    <3>2. /\ client[c].pc \in {"idle", "find", "make", "lock"} \cup Inside
          /\ client[c].pc \in {"lock"} \cup Inside => client[c].lock \in Clients
      BY <3>1 DEF ClientOK, Steps
    <3>3. ASSUME client[c].pc = "states"
          PROVE  client[c].got[1] \in Nat /\ client[c].got[2] \in Nat /\ client[c].got[3] \in Ticks
      <4>1. PICK p \in Pools : p = client[c].pool
        BY <3>1, <3>3 DEF ClientOK
      <4>2. client[c].got = <<Height(p), Number(TickSpacingKey(p)), Number(CurrentTickKey(p))>>
        BY <3>1, <3>3, <4>1 DEF ClientOK
      <4> QED
        BY <4>2 DEF IInv, DataOK
    <3> QED
      BY <3>2, <3>3
  <2> QED
    BY <2>1, <2>2, <2>3 DEF TypeOK
<1> QED
  BY <1>1, Invariance, PTL

\* Whoever writes a pool holds its lock alone: getOrCreateLock never gives two
\* goroutines different locks of one pool.
THEOREM WritersAreAlone == Spec => []MutualExclusion
<1>1. IInv => MutualExclusion
  BY DEF IInv
<1> QED
  BY <1>1, Invariance, PTL

\* What SafeDB.GetPoolState has read does not change before it has read the
\* rest, whatever the other goroutines write.
THEOREM ReadersAreUndisturbed == Spec => []ReadsAreStable
<1>1. IInv => ReadsAreStable
  <2> SUFFICES ASSUME IInv, NEW c \in Clients
               PROVE  LET p == client[c].pool
                          got == client[c].got
                      IN  /\ client[c].pc \in {"spacing", "tick", "states"} => got[1] = Height(p)
                          /\ client[c].pc \in {"tick", "states"} => got[2] = Number(TickSpacingKey(p))
                          /\ client[c].pc = "states" => got[3] = Number(CurrentTickKey(p))
    BY DEF ReadsAreStable
  <2>1. ClientOK(c)
    BY DEF IInv
  <2>2. CASE client[c].pc = "spacing"
    BY <2>1, <2>2 DEF ClientOK
  <2>3. CASE client[c].pc = "tick"
    BY <2>1, <2>3 DEF ClientOK
  <2>4. CASE client[c].pc = "states"
    BY <2>1, <2>4 DEF ClientOK
  <2> QED
    BY <2>2, <2>3, <2>4
<1> QED
  BY <1>1, Invariance, PTL

-----------------------------------------------------------------------------
(* The store implements AtomicStore. *)

\* The ascending listing of n ticks.
Listing(n, ticks) ==
    CHOOSE s \in [1..n -> ticks] :
       /\ \A t \in ticks : \E i \in 1..n : s[i] = t
       /\ \A i, j \in 1..n : i < j => s[i] < s[j]

\* A listing of ticks, each with its state.
Paired(s, states) == [i \in 1..Len(s) |-> <<s[i], states[s[i]]>>]

\* A scan returns the record's tick states, in the order of the ticks.
LEMMA TicksRead ==
    ASSUME KeysOK, NEW p \in Pools
    PROVE  TickStates(p) = Atomic!Listed(States(p))
<1> DEFINE T == StoredTicks(p)
           N == Cardinality(T)
           list == InOrder(T, <)
           keys == [i \in 1..N |-> TickStateKey(p, list[i])]
<1>1. T \subseteq Ticks
  BY DEF StoredTicks
<1>2. N \in Nat /\ list \in [1..N -> T]
  <2>1. T \subseteq -MaxTick..MaxTick /\ -MaxTick \in Int /\ MaxTick \in Int
    BY <1>1, HalfFacts DEF Ticks
  <2> QED
    BY <2>1, Ascending
<1>3. InOrder(Between(TickStateKey(p, -MaxTick), TickStateKey(p, MaxTick)), KeyLess) = keys
  BY <1>1, Scan, ScanInOrder
<1>4. TickStates(p) = [i \in 1..Len(keys) |-> <<FromOrderedBytes(keys[i][3]), kv[keys[i]]>>]
  BY <1>3 DEF TickStates
<1>5. Atomic!Listed(States(p)) = Paired(list, States(p))
  <2>1. DOMAIN States(p) = T
    BY DEF States
  <2>2. Atomic!Cardinality(T) = Cardinality(T)
    BY DEF Atomic!Cardinality, Cardinality, Atomic!IsFiniteSet, IsFiniteSet
  <2>3. list = Listing(N, T)
    BY DEF InOrder, Lists, Listing
  <2>4. Atomic!Listed(States(p)) =
          Paired(Listing(Atomic!Cardinality(DOMAIN States(p)), DOMAIN States(p)), States(p))
    BY DEF Atomic!Listed, Atomic!InOrder, Atomic!Lists, Listing, Paired
  <2> HIDE DEF T, list
  <2> QED
    BY <2>1, <2>2, <2>3, <2>4
<1>6. Atomic!Listed(States(p)) = [i \in 1..Len(list) |-> <<list[i], States(p)[list[i]]>>]
  BY <1>5 DEF Paired
<1> HIDE DEF N, list
<1>7. Len(list) = N /\ Len(keys) = N
  BY <1>2
<1>8. \A i \in 1..N : /\ list[i] \in T /\ keys[i] = TickStateKey(p, list[i])
                      /\ FromOrderedBytes(keys[i][3]) = list[i]
                      /\ kv[keys[i]] = States(p)[list[i]]
  <2> SUFFICES ASSUME NEW i \in 1..N
               PROVE  /\ list[i] \in T /\ keys[i] = TickStateKey(p, list[i])
                      /\ FromOrderedBytes(keys[i][3]) = list[i]
                      /\ kv[keys[i]] = States(p)[list[i]]
    OBVIOUS
  <2>1. list[i] \in T /\ keys[i] = TickStateKey(p, list[i])
    BY <1>2
  <2>2. FromOrderedBytes(TickStateKey(p, list[i])[3]) = list[i]
    BY <1>1, <2>1, TickKeyFacts
  <2>3. States(p)[list[i]] = kv[TickStateKey(p, list[i])]
    BY <2>1 DEF States
  <2> QED
    BY <2>1, <2>2, <2>3
<1> HIDE DEF keys
<1> QED
  BY <1>4, <1>6, <1>7, <1>8

\* What AtomicStore sees of a client.
View(c) == [phase |-> Phase(c), op |-> client[c].op, pool |-> client[c].pool,
            result |-> IF Phase(c) = "done" THEN client[c].got ELSE <<>>]

\* The variables of AtomicStore.
storeView == [p \in Pools |-> Record(p)]
callsView == [c \in Clients |-> View(c)]

\* The answer of an operation that reads once.
LEMMA AnswerOfFirstRead ==
    ASSUME KeysOK, NEW p \in Pools, NEW op \in Ops(p), op.name \notin Writes,
           ~(op.name = "GetPoolState" /\ Height(p) # 0)
    PROVE  Atomic!Answer(Record(p), op) = FirstRead(p, op)
<1>1. /\ Record(p).height = Height(p) /\ Record(p).spacing = Number(TickSpacingKey(p))
      /\ Record(p).tick = Number(CurrentTickKey(p)) /\ Record(p).states = States(p)
  BY RecordParts
<1>2. \/ op.name = "GetTickState" /\ op.tick \in Ticks
      \/ op.name \in {"GetHeight", "GetTickSpacing", "GetCurrentTick", "GetTickStates", "GetPoolState"}
  BY CallersAssumption DEF Writes
<1>3. CASE op.name = "GetTickState"
  <2>1. op.tick \in Ticks
    BY <1>2, <1>3
  <2>2. op.tick \in DOMAIN States(p) <=> TickStateKey(p, op.tick) \in DOMAIN kv
    BY <2>1 DEF States, StoredTicks
  <2>3. op.tick \in DOMAIN States(p) => States(p)[op.tick] = kv[TickStateKey(p, op.tick)]
    BY DEF States
  <2>4. FirstRead(p, op) = Get(TickStateKey(p, op.tick))
    BY <1>3 DEF FirstRead
  <2>5. Atomic!Answer(Record(p), op) =
          IF op.tick \in DOMAIN States(p) THEN <<States(p)[op.tick]>> ELSE <<>>
    BY <1>1, <1>3 DEF Atomic!Answer
  <2> QED
    BY <2>2, <2>3, <2>4, <2>5 DEF Get
<1>4. CASE op.name = "GetHeight"
  BY <1>1, <1>4 DEF Atomic!Answer, FirstRead
<1>5. CASE op.name = "GetTickSpacing"
  BY <1>1, <1>5 DEF Atomic!Answer, FirstRead
<1>6. CASE op.name = "GetCurrentTick"
  BY <1>1, <1>6 DEF Atomic!Answer, FirstRead
<1>7. CASE op.name = "GetTickStates"
  BY <1>1, <1>7, TicksRead DEF Atomic!Answer, FirstRead
<1>8. CASE op.name = "GetPoolState"
  BY <1>1, <1>8 DEF Atomic!Answer, FirstRead
<1> QED
  BY <1>2, <1>3, <1>4, <1>5, <1>6, <1>7, <1>8

\* Calls and returns as AtomicStore has them, of the views.
LEMMA AtomicSteps ==
    ASSUME NEW c \in Clients
    PROVE  /\ Atomic!Call(c) <=>
                /\ callsView[c].phase = "idle"
                /\ \E p \in Pools : \E op \in Ops(p) :
                      callsView' = [callsView EXCEPT ![c] =
                                      [phase |-> "called", op |-> op, pool |-> p, result |-> <<>>]]
                /\ UNCHANGED storeView
           /\ Atomic!Do(c) <=>
                /\ callsView[c].phase = "called"
                /\ storeView' = [storeView EXCEPT ![callsView[c].pool] =
                                   Atomic!Updated(@, callsView[c].op)]
                /\ callsView' = [callsView EXCEPT
                      ![c].phase = "done",
                      ![c].result = Atomic!Answer(storeView[callsView[c].pool], callsView[c].op)]
           /\ Atomic!Return(c) <=>
                /\ callsView[c].phase = "done"
                /\ callsView' = [callsView EXCEPT ![c] = Atomic!Idle]
                /\ UNCHANGED storeView
BY DEF Atomic!Call, Atomic!Do, Atomic!Return, storeView, callsView, View

\* The views of the others follow their clients.
LEMMA ViewsFollow ==
    ASSUME NEW c \in Clients, \A d \in Clients \ {c} : client'[d] = client[d]
    PROVE  callsView' = [callsView EXCEPT ![c] = View(c)']
<1>1. \A d \in Clients \ {c} : View(d)' = View(d)
  BY DEF View, Phase
<1> QED
  BY <1>1 DEF callsView

\* The records follow the keys.
LEMMA StoreFollows ==
    ASSUME IInv, UNCHANGED kv
    PROVE  storeView' = storeView
BY DataFrame DEF storeView

\* A client that gets on with its operation, without an effect.
LEMMA Stutter ==
    ASSUME IInv, NEW c \in Clients, \A d \in Clients \ {c} : client'[d] = client[d],
           Phase(c) = "called", Phase(c)' = "called",
           client'[c].op = client[c].op, client'[c].pool = client[c].pool,
           UNCHANGED kv
    PROVE  UNCHANGED <<storeView, callsView>>
<1>1. View(c)' = View(c)
  BY DEF View
<1>2. callsView' = [callsView EXCEPT ![c] = View(c)]
  BY <1>1, ViewsFollow
<1>3. callsView' = callsView
  BY <1>2 DEF callsView
<1> QED
  BY <1>3, StoreFollows

\* A client whose operation takes effect, and that has the result.
LEMMA Effect ==
    ASSUME NEW c \in Clients, \A d \in Clients \ {c} : client'[d] = client[d],
           NEW p \in Pools, NEW op \in Ops(p), client[c].pool = p, client[c].op = op,
           Phase(c) = "called", Phase(c)' = "done", client'[c].pool = p, client'[c].op = op,
           client'[c].got = Atomic!Answer(Record(p), op),
           Record(p)' = Atomic!Updated(Record(p), op),
           \A q \in Pools \ {p} : Record(q)' = Record(q)
    PROVE  Atomic!Do(c)
<1>1. callsView[c] = [phase |-> "called", op |-> op, pool |-> p, result |-> <<>>]
  BY DEF callsView, View
<1>2. View(c)' = [phase |-> "done", op |-> op, pool |-> p, result |-> Atomic!Answer(Record(p), op)]
  BY DEF View
<1>3. storeView[p] = Record(p)
  BY DEF storeView
<1>4. storeView' = [storeView EXCEPT ![p] = Atomic!Updated(@, op)]
  <2> DEFINE new == Atomic!Updated(Record(p), op)
  <2>1. Record(p)' = new
    OBVIOUS
  <2>2. storeView' = [q \in Pools |-> Record(q)']
    BY DEF storeView
  <2>3. [storeView EXCEPT ![p] = Atomic!Updated(@, op)] = [storeView EXCEPT ![p] = new]
    BY <1>3
  <2>4. [storeView EXCEPT ![p] = new] = [q \in Pools |-> IF q = p THEN new ELSE Record(q)]
    BY DEF storeView
  <2> HIDE DEF new
  <2>5. \A q \in Pools : Record(q)' = IF q = p THEN new ELSE Record(q)
    BY <2>1
  <2> QED
    BY <2>2, <2>3, <2>4, <2>5
<1>5. callsView' = [callsView EXCEPT ![c].phase = "done", ![c].result = Atomic!Answer(Record(p), op)]
  <2> DEFINE answer == Atomic!Answer(Record(p), op)
  <2>1. callsView' = [callsView EXCEPT ![c] = View(c)']
    BY ViewsFollow
  <2>2. View(c)' = [phase |-> "done", op |-> op, pool |-> p, result |-> answer]
    BY <1>2
  <2> HIDE DEF answer
  <2>3. callsView = [d \in Clients |-> callsView[d]]
    BY DEF callsView
  <2>4. [callsView EXCEPT ![c].phase = "done", ![c].result = answer] =
          [callsView EXCEPT ![c] = [phase |-> "done", op |-> op, pool |-> p, result |-> answer]]
    <3> DEFINE once == [callsView EXCEPT ![c].phase = "done"]
               half == [phase |-> "done", op |-> op, pool |-> p, result |-> <<>>]
               full == [phase |-> "done", op |-> op, pool |-> p, result |-> answer]
    <3>1. once = [d \in Clients |-> IF d = c THEN half ELSE callsView[d]]
      BY <1>1, <2>3
    <3>2. [once EXCEPT ![c].result = answer] = [d \in Clients |-> IF d = c THEN full ELSE callsView[d]]
      <4> HIDE DEF once
      <4> QED
        BY <3>1
    <3>3. [callsView EXCEPT ![c] = full] = [d \in Clients |-> IF d = c THEN full ELSE callsView[d]]
      <4> HIDE DEF full
      <4> QED
        BY <2>3
    <3>4. [callsView EXCEPT ![c].phase = "done", ![c].result = answer] = [once EXCEPT ![c].result = answer]
      OBVIOUS
    <3> QED
      BY <3>2, <3>3, <3>4
  <2> QED
    BY <2>1, <2>2, <2>4 DEF answer
<1>6. callsView[c].phase = "called" /\ callsView[c].pool = p /\ callsView[c].op = op
  BY <1>1
<1>7. storeView' = [storeView EXCEPT ![callsView[c].pool] = Atomic!Updated(@, callsView[c].op)]
  BY <1>4, <1>6
<1>8. callsView' = [callsView EXCEPT
         ![c].phase = "done",
         ![c].result = Atomic!Answer(storeView[callsView[c].pool], callsView[c].op)]
  BY <1>3, <1>5, <1>6
<1> QED
  BY <1>6, <1>7, <1>8, AtomicSteps

\* Operations that read change no record, those that write return nothing.
LEMMA ReadsAndWrites ==
    ASSUME NEW p \in Pools, NEW op \in Ops(p)
    PROVE  /\ op.name \notin Writes => Atomic!Updated(Record(p), op) = Record(p)
           /\ op.name \in Writes => Atomic!Answer(Record(p), op) = <<>>
BY DEF Atomic!Updated, Atomic!Answer, Writes

\* A call is a call.
LEMMA CallImplements ==
    ASSUME IInv, NEW c \in Clients, Call(c)
    PROVE  Atomic!Call(c)
<1>1. PICK p \in Pools : \E op \in Ops(p) :
         /\ client' = [client EXCEPT ![c] = [Idle EXCEPT !.pc = "find", !.op = op, !.pool = p]]
         /\ UNCHANGED <<kv, locks>>
  BY DEF Call
<1>2. PICK op \in Ops(p) :
         /\ client' = [client EXCEPT ![c] = [Idle EXCEPT !.pc = "find", !.op = op, !.pool = p]]
         /\ UNCHANGED <<kv, locks>>
  BY <1>1
<1>3. /\ client'[c] = [pc |-> "find", op |-> op, pool |-> p, lock |-> NoLock, got |-> <<>>]
      /\ \A d \in Clients \ {c} : client'[d] = client[d]
  BY <1>2 DEF Idle, IInv, Shape
<1>4. View(c)' = [phase |-> "called", op |-> op, pool |-> p, result |-> <<>>]
  BY <1>3 DEF View, Phase
<1>5. callsView' = [callsView EXCEPT ![c] = [phase |-> "called", op |-> op, pool |-> p, result |-> <<>>]]
  BY <1>3, <1>4, ViewsFollow
<1>6. callsView[c].phase = "idle"
  BY DEF Call, callsView, View, Phase
<1>7. storeView' = storeView
  BY <1>2, StoreFollows
<1> QED
  BY <1>5, <1>6, <1>7, AtomicSteps

\* Unlocking returns.
LEMMA UnlockImplements ==
    ASSUME IInv, NEW c \in Clients, Unlock(c)
    PROVE  Atomic!Return(c)
<1>1. /\ client[c].pc = "unlock" /\ client'[c] = Idle
      /\ \A d \in Clients \ {c} : client'[d] = client[d]
      /\ UNCHANGED kv
  BY DEF Unlock, IInv, Shape
<1>2. View(c)' = Atomic!Idle
  BY <1>1 DEF View, Phase, Idle, Atomic!Idle
<1>3. callsView' = [callsView EXCEPT ![c] = Atomic!Idle]
  BY <1>1, <1>2, ViewsFollow
<1>4. callsView[c].phase = "done"
  BY <1>1 DEF callsView, View, Phase
<1>5. storeView' = storeView
  BY <1>1, StoreFollows
<1> QED
  BY <1>3, <1>4, <1>5, AtomicSteps

\* Getting the lock, and the reads of GetPoolState but the last, have no effect.
LEMMA Silent ==
    ASSUME IInv, NEW c \in Clients,
           \/ FindLock(c) \/ MakeLock(c) \/ Lock(c) \/ ReadSpacing(c) \/ ReadTick(c)
           \/ DoRead(c) /\ client'[c].pc = "spacing"
    PROVE  UNCHANGED <<storeView, callsView>>
<1>1. ClientOK(c)
  BY DEF IInv
<1>2. /\ client[c].pc \in {"find", "make", "lock", "read", "spacing", "tick"}
      /\ client'[c].pc \in {"make", "lock", "write", "read", "spacing", "tick", "states"}
      /\ client'[c].op = client[c].op /\ client'[c].pool = client[c].pool
      /\ \A d \in Clients \ {c} : client'[d] = client[d]
      /\ UNCHANGED kv
  <2> USE DEF IInv, Shape
  <2>1. CASE FindLock(c)
    BY <1>1, <2>1 DEF FindLock, ClientOK
  <2>2. CASE MakeLock(c)
    BY <1>1, <2>2 DEF MakeLock, ClientOK
  <2>3. CASE Lock(c)
    BY <1>1, <2>3 DEF Lock, To, ClientOK
  <2>4. CASE ReadSpacing(c)
    BY <1>1, <2>4 DEF ReadSpacing, ReadNext, ClientOK
  <2>5. CASE ReadTick(c)
    BY <1>1, <2>5 DEF ReadTick, ReadNext, ClientOK
  <2>6. CASE DoRead(c) /\ client'[c].pc = "spacing"
    BY <1>1, <2>6 DEF DoRead, ClientOK
  <2> QED
    BY <2>1, <2>2, <2>3, <2>4, <2>5, <2>6
<1>3. Phase(c) = "called" /\ Phase(c)' = "called"
  BY <1>2 DEF Phase
<1> QED
  BY <1>2, <1>3, Stutter

\* A write takes effect with its batch.
LEMMA WriteImplements ==
    ASSUME IInv, NEW c \in Clients, DoWrite(c)
    PROVE  Atomic!Do(c)
<1>1. PICK p \in Pools : \E op \in Ops(p) :
                 /\ p = client[c].pool /\ op = client[c].op
                 /\ Record(p)' = Atomic!Updated(Record(p), op)
                 /\ \A q \in Pools \ {p} : Record(q)' = Record(q)
  BY DoWriteStep
<1>2. PICK op \in Ops(p) :
                 /\ p = client[c].pool /\ op = client[c].op
                 /\ Record(p)' = Atomic!Updated(Record(p), op)
                 /\ \A q \in Pools \ {p} : Record(q)' = Record(q)
  BY <1>1
<1>3. ClientOK(c) /\ client[c].pc = "write" /\ client' = [client EXCEPT ![c].pc = "unlock"]
  BY DEF DoWrite, To, IInv
<1>4. op.name \in Writes /\ client[c].got = <<>>
  BY <1>2, <1>3 DEF ClientOK
<1>5. /\ client'[c].pc = "unlock" /\ client'[c].pool = p /\ client'[c].op = op
      /\ client'[c].got = <<>>
      /\ \A d \in Clients \ {c} : client'[d] = client[d]
  BY <1>2, <1>3, <1>4 DEF IInv, Shape, ClientOK
<1>6. Phase(c) = "called" /\ Phase(c)' = "done"
  BY <1>3, <1>5 DEF Phase
<1>7. Atomic!Answer(Record(p), op) = <<>>
  BY <1>4, ReadsAndWrites
<1> QED
  BY <1>2, <1>5, <1>6, <1>7, Effect

\* A read takes effect when its last key is read.
LEMMA ReadImplements ==
    ASSUME IInv, NEW c \in Clients, ClientOK(c),
           \/ DoRead(c) /\ client'[c].pc # "spacing"
           \/ ReadStates(c)
    PROVE  Atomic!Do(c)
<1>1. client[c].pc \in {"read", "states"} /\ UNCHANGED kv
  BY DEF DoRead, ReadStates, ReadNext
<1>2. PICK p \in Pools : p = client[c].pool
  BY <1>1 DEF ClientOK, Inside
<1>3. PICK op \in Ops(p) : op = client[c].op
  BY <1>1, <1>2 DEF ClientOK, Inside
<1>4. op.name \notin Writes
  BY <1>1, <1>3 DEF ClientOK, Writes
<1>5. KeysOK
  BY DEF IInv, DataOK
<1>6. /\ client'[c].pc = "unlock" /\ client'[c].pool = p /\ client'[c].op = op
      /\ client'[c].got = Atomic!Answer(Record(p), op)
      /\ \A d \in Clients \ {c} : client'[d] = client[d]
  <2>1. CASE DoRead(c) /\ client'[c].pc # "spacing"
    <3> DEFINE first == FirstRead(p, op)
               more == op.name = "GetPoolState" /\ first # <<>>
    <3>1. ~(op.name = "GetPoolState" /\ Height(p) # 0) => Atomic!Answer(Record(p), op) = first
      BY <1>4, <1>5, AnswerOfFirstRead
    <3>2. op.name = "GetPoolState" /\ Height(p) # 0 => first = <<Height(p)>>
      BY DEF FirstRead
    <3>3. client' = [client EXCEPT ![c].got = first, ![c].pc = IF more THEN "spacing" ELSE "unlock"]
      BY <1>2, <1>3, <2>1 DEF DoRead
    <3> HIDE DEF first
    <3>4. /\ client'[c].pc = IF more THEN "spacing" ELSE "unlock"
          /\ client'[c].pool = p /\ client'[c].op = op /\ client'[c].got = first
          /\ \A d \in Clients \ {c} : client'[d] = client[d]
      BY <1>2, <1>3, <3>3 DEF IInv, Shape, ClientOK
    <3>5. ~more
      BY <2>1, <3>4
    <3>6. <<Height(p)>> # <<>>
      OBVIOUS
    <3>7. ~(op.name = "GetPoolState" /\ Height(p) # 0)
      BY <3>2, <3>5, <3>6
    <3> QED
      BY <3>1, <3>4, <3>5, <3>7
  <2>2. CASE ReadStates(c)
    <3>1. /\ op.name = "GetPoolState" /\ Height(p) # 0
          /\ client[c].got = <<Height(p), Number(TickSpacingKey(p)), Number(CurrentTickKey(p))>>
      BY <1>2, <1>3, <2>2 DEF ReadStates, ReadNext, ClientOK
    <3>2. client' = [client EXCEPT ![c].got = Append(client[c].got, TickStates(p)), ![c].pc = "unlock"]
      BY <1>2, <2>2 DEF ReadStates, ReadNext
    <3>3. /\ client'[c].pc = "unlock" /\ client'[c].pool = p /\ client'[c].op = op
          /\ client'[c].got = Append(client[c].got, TickStates(p))
          /\ \A d \in Clients \ {c} : client'[d] = client[d]
      BY <1>2, <1>3, <3>2 DEF IInv, Shape, ClientOK
    <3>4. client'[c].got =
            <<Height(p), Number(TickSpacingKey(p)), Number(CurrentTickKey(p)), TickStates(p)>>
      BY <3>1, <3>3, OneMore
    <3>5. Atomic!Answer(Record(p), op) =
            <<Height(p), Number(TickSpacingKey(p)), Number(CurrentTickKey(p)), Atomic!Listed(States(p))>>
      BY <3>1, RecordParts DEF Atomic!Answer
    <3>6. TickStates(p) = Atomic!Listed(States(p))
      BY <1>5, TicksRead
    <3> QED
      BY <3>3, <3>4, <3>5, <3>6
  <2> QED
    BY <2>1, <2>2
<1>7. Phase(c) = "called" /\ Phase(c)' = "done"
  BY <1>1, <1>6 DEF Phase
<1>8. Record(p)' = Atomic!Updated(Record(p), op) /\ \A q \in Pools \ {p} : Record(q)' = Record(q)
  BY <1>1, <1>4, DataFrame, ReadsAndWrites
<1> QED
  BY <1>2, <1>3, <1>6, <1>7, <1>8, Effect

\* Every step of the store is one of AtomicStore, or none.
LEMMA StepImplements ==
    IInv /\ [Next]_vars => [Atomic!Next]_<<storeView, callsView>>
<1> SUFFICES ASSUME IInv, [Next]_vars
             PROVE  Atomic!Next \/ UNCHANGED <<storeView, callsView>>
  OBVIOUS
<1>1. ASSUME NEW c \in Clients, Step(c)
      PROVE  Atomic!Next \/ UNCHANGED <<storeView, callsView>>
  <2>1. ClientOK(c)
    BY DEF IInv
  <2>2. Call(c) => Atomic!Call(c)
    BY CallImplements
  <2>3. Unlock(c) => Atomic!Return(c)
    BY UnlockImplements
  <2>4. DoWrite(c) => Atomic!Do(c)
    BY WriteImplements
  <2>5. (DoRead(c) /\ client'[c].pc # "spacing") \/ ReadStates(c) => Atomic!Do(c)
    BY <2>1, ReadImplements
  <2>6. \/ FindLock(c) \/ MakeLock(c) \/ Lock(c) \/ ReadSpacing(c) \/ ReadTick(c)
        \/ DoRead(c) /\ client'[c].pc = "spacing"
        => UNCHANGED <<storeView, callsView>>
    BY Silent
  <2>7. Atomic!Call(c) \/ Atomic!Do(c) \/ Atomic!Return(c) => Atomic!Next
    BY DEF Atomic!Next
  <2> QED
    BY <1>1, <2>2, <2>3, <2>4, <2>5, <2>6, <2>7 DEF Step
<1>2. CASE UNCHANGED vars
  <2>1. UNCHANGED <<kv, client>>
    BY <1>2 DEF vars
  <2>2. storeView' = storeView
    BY <2>1, StoreFollows
  <2>3. callsView' = callsView
    BY <2>1 DEF callsView, View, Phase
  <2> QED
    BY <2>2, <2>3
<1> QED
  BY <1>1, <1>2 DEF Next

\* The database is an atomic one: under its locks and with its layout of keys
\* every operation of SafeDB takes effect at one moment, and a record is read
\* with its ticks in ascending order.
THEOREM StoreIsAtomic == Spec => StoreSpec
<1>1. Init => Atomic!Init
  <2> SUFFICES ASSUME Init PROVE Atomic!Init
    OBVIOUS
  <2>1. DOMAIN kv = {}
    BY EmptySeq DEF Init
  <2>2. ASSUME NEW p \in Pools PROVE Record(p) = Atomic!Fresh
    <3>1. Height(p) = 0 /\ Number(TickSpacingKey(p)) = 0 /\ Number(CurrentTickKey(p)) = 0
      BY <2>1 DEF Height, Number
    <3>2. StoredTicks(p) = {}
      BY <2>1 DEF StoredTicks
    <3>3. States(p) = <<>>
      BY <3>2 DEF States
    <3> QED
      BY <3>1, <3>3, RecordParts DEF Atomic!Fresh
  <2>3. ASSUME NEW c \in Clients PROVE View(c) = Atomic!Idle
    BY DEF Init, View, Phase, Idle, Atomic!Idle
  <2>4. storeView = [p \in Pools |-> Atomic!Fresh]
    BY <2>2 DEF storeView
  <2>5. callsView = [c \in Clients |-> Atomic!Idle]
    BY <2>3 DEF callsView
  <2> QED
    BY <2>4, <2>5 DEF Atomic!Init, storeView, callsView, View
<1> QED
  BY <1>1, StepImplements, Invariance, PTL DEF Spec, StoreSpec, Atomic!Spec, storeView, callsView, View
=============================================================================
