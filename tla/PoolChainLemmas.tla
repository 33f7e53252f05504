-------------------------- MODULE PoolChainLemmas --------------------------
(***************************************************************************)
(* Facts about chains and pool states that the proofs about the indexer    *)
(* rest on.                                                                *)
(***************************************************************************)
EXTENDS PoolChain, TLAPS

\* An event of a block of the chain is an event, its two ticks differ, and
\* its id is among the ids of its pool's events.
LEMMA EventOfChain ==
    ASSUME NEW c \in Seq(Blocks), Len(c) <= MaxHeight,
           NEW n \in 1..Len(c), NEW i \in 1..Len(c[n])
    PROVE  /\ c[n] \in Seq(Event)
           /\ c[n][i] \in Event
           /\ c[n][i].lower # c[n][i].upper
           /\ <<n, i>> \in Ids
           /\ <<n, i>> \in PoolEvents(c, c[n][i].pool)
           /\ At(c, <<n, i>>) = c[n][i]
<1>1. c[n] \in Blocks
  OBVIOUS
<1>2. c[n] \in Seq(Event) /\ Len(c[n]) <= MaxBlockEvents /\ c[n][i].lower # c[n][i].upper
  BY <1>1, ChainAssumption
<1>3. c[n][i] \in Event
  BY <1>2
<1>4. <<n, i>> \in Ids
  BY <1>2, ChainAssumption DEF Ids
<1> QED
  BY <1>2, <1>3, <1>4 DEF PoolEvents, At

\* An event of a pool lies in a block of the chain.
LEMMA PoolEventType ==
    ASSUME NEW c \in Seq(Blocks), NEW p, NEW id \in PoolEvents(c, p)
    PROVE  /\ id \in Ids
           /\ id = <<id[1], id[2]>>
           /\ id[1] \in 1..Len(c) /\ id[2] \in 1..Len(c[id[1]])
           /\ At(c, id) = c[id[1]][id[2]]
           /\ At(c, id) \in Event
           /\ At(c, id).pool = p
           /\ At(c, id).lower # At(c, id).upper
<1>1. /\ id \in Ids /\ id[1] \in Nat \ {0} /\ id[2] \in Nat \ {0}
      /\ id = <<id[1], id[2]>>
      /\ id[1] <= Len(c) /\ id[2] <= Len(c[id[1]]) /\ At(c, id).pool = p
  BY ChainAssumption DEF PoolEvents, Ids
<1>2. id[1] \in 1..Len(c) /\ c[id[1]] \in Blocks
  BY <1>1
<1>3. id[2] \in 1..Len(c[id[1]]) /\ c[id[1]] \in Seq(Event)
      /\ c[id[1]][id[2]].lower # c[id[1]][id[2]].upper
  BY <1>1, <1>2, ChainAssumption
<1>4. c[id[1]][id[2]] \in Event
  BY <1>3
<1> QED
  BY <1>1, <1>2, <1>3, <1>4 DEF At

\* A pool's state at a height is decided by its events up to that height.
LEMMA SameEvents ==
    ASSUME NEW c, NEW d, NEW p, NEW h, NEW k,
           EventsUpTo(c, p, h) = EventsUpTo(d, p, k),
           \A id \in EventsUpTo(c, p, h) : At(c, id) = At(d, id)
    PROVE  /\ NetAt(c, p, h) = NetAt(d, p, k)
           /\ \A x : IsTickAt(c, p, h, x) <=> IsTickAt(d, p, k, x)
           /\ \A t : Initialised(c, p, h, t) <=> Initialised(d, p, k, t)
<1>1. NetAt(c, p, h) = NetAt(d, p, k)
  BY DEF NetAt
<1>2. SwapsAt(c, p, h) = SwapsAt(d, p, k)
  BY DEF SwapsAt
<1>3. \A x : IsTickAt(c, p, h, x) <=> IsTickAt(d, p, k, x)
  BY <1>2 DEF IsTickAt
<1>4. \A t : Initialised(c, p, h, t) <=> Initialised(d, p, k, t)
  BY DEF Initialised
<1> QED
  BY <1>1, <1>3, <1>4

\* A new block changes neither the blocks below it nor their events.
LEMMA Extended ==
    ASSUME NEW c \in Seq(Blocks), NEW b \in Blocks, Len(c) < MaxHeight, NEW p
    PROVE  LET d == Append(c, b)
           IN  /\ d \in Seq(Blocks) /\ Len(d) = Len(c) + 1 /\ Len(d) <= MaxHeight
               /\ \A n \in 1..Len(c) : d[n] = c[n]
               /\ d[Len(c) + 1] = b
               /\ PoolEvents(c, p) \subseteq PoolEvents(d, p)
               /\ \A id \in PoolEvents(d, p) :
                     id \in PoolEvents(c, p) \/ id[1] = Len(c) + 1
               /\ \A id \in PoolEvents(c, p) : At(d, id) = At(c, id)
               /\ \A h \in Nat : h <= Len(c) =>
                     EventsUpTo(d, p, h) = EventsUpTo(c, p, h)
<1> DEFINE d == Append(c, b)
<1>1. d \in Seq(Blocks) /\ Len(d) = Len(c) + 1 /\ Len(d) <= MaxHeight /\ Len(c) \in Nat
  BY ChainAssumption
<1>2. \A n \in 1..Len(c) : d[n] = c[n]
  OBVIOUS
<1>3. d[Len(c) + 1] = b
  OBVIOUS
<1> HIDE DEF d
<1>4. \A id \in PoolEvents(c, p) : id \in PoolEvents(d, p) /\ At(d, id) = At(c, id)
  <2> SUFFICES ASSUME NEW id \in PoolEvents(c, p)
               PROVE  id \in PoolEvents(d, p) /\ At(d, id) = At(c, id)
    OBVIOUS
  <2>1. id \in Ids /\ id[1] \in 1..Len(c) /\ id[2] \in 1..Len(c[id[1]]) /\ At(c, id).pool = p
    BY PoolEventType
  <2>2. d[id[1]] = c[id[1]]
    BY <1>2, <2>1
  <2> QED
    BY <1>1, <2>1, <2>2 DEF PoolEvents, At
<1>5. \A id \in PoolEvents(d, p) : id \in PoolEvents(c, p) \/ id[1] = Len(c) + 1
  <2> SUFFICES ASSUME NEW id \in PoolEvents(d, p), id[1] # Len(c) + 1
               PROVE  id \in PoolEvents(c, p)
    OBVIOUS
  <2>1. id \in Ids /\ id[1] \in 1..Len(d) /\ id[2] \in 1..Len(d[id[1]]) /\ At(d, id).pool = p
    BY <1>1, PoolEventType
  <2>2. id[1] \in 1..Len(c) /\ d[id[1]] = c[id[1]]
    BY <1>1, <1>2, <2>1
  <2> QED
    BY <2>1, <2>2 DEF PoolEvents, At
<1>6. \A h \in Nat : h <= Len(c) => EventsUpTo(d, p, h) = EventsUpTo(c, p, h)
  <2> SUFFICES ASSUME NEW h \in Nat, h <= Len(c)
               PROVE  \A id : id \in EventsUpTo(d, p, h) <=> id \in EventsUpTo(c, p, h)
    OBVIOUS
  <2> QED
    BY <1>1, <1>4, <1>5 DEF EventsUpTo
<1> QED
  BY <1>1, <1>2, <1>3, <1>4, <1>5, <1>6 DEF d

\* Where no event of a pool lies between two heights, its state is the same.
LEMMA QuietBetween ==
    ASSUME NEW c \in Seq(Blocks), NEW p, NEW a \in Nat, NEW b \in Nat,
           \A id \in PoolEvents(c, p) :
              ~(a < id[1] /\ id[1] <= b) /\ ~(b < id[1] /\ id[1] <= a)
    PROVE  /\ EventsUpTo(c, p, a) = EventsUpTo(c, p, b)
           /\ NetAt(c, p, a) = NetAt(c, p, b)
           /\ \A x : IsTickAt(c, p, a, x) <=> IsTickAt(c, p, b, x)
<1>1. ASSUME NEW id \in PoolEvents(c, p)
      PROVE  id[1] <= a <=> id[1] <= b
  <2>1. id[1] \in Nat
    BY PoolEventType
  <2> QED
    BY <2>1
<1>2. EventsUpTo(c, p, a) = EventsUpTo(c, p, b)
  BY <1>1 DEF EventsUpTo
<1> QED
  BY <1>2, SameEvents

\* Net liquidities are integers; the current tick is a swap or the first one.
LEMMA StateType ==
    ASSUME NEW c \in Seq(Blocks), NEW p, NEW h
    PROVE  /\ NetAt(c, p, h) \in [Ticks -> [Ids -> Int]]
           /\ \A x : IsTickAt(c, p, h, x) => x \in Ids \cup {NoId}
<1>1. \A e, t : Contribution(e, t) \in Int
  BY DEF Contribution
<1>2. NetAt(c, p, h) \in [Ticks -> [Ids -> Int]]
  BY <1>1 DEF NetAt
<1>3. SwapsAt(c, p, h) \subseteq Ids
  BY DEF SwapsAt, EventsUpTo, PoolEvents
<1> QED
  BY <1>2, <1>3 DEF IsTickAt
=============================================================================
