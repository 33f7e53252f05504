----------------------------- MODULE PoolChain -----------------------------
(***************************************************************************)
(* The chain as the indexer sees it, and what a pool's state is at a       *)
(* height of it.                                                           *)
(*                                                                         *)
(* A chain c is a sequence of blocks, a block the sequence of Mint, Burn   *)
(* and Swap events that ParseBlock extracts from its receipts.  An event   *)
(* is named by its id <<height, index>>.                                   *)
(*                                                                         *)
(* Amounts are symbolic.  The net liquidity of a tick is a sum of amounts  *)
(* of events; here it is the formal sum, a function from event ids to the  *)
(* integer coefficient of that event's amount.  Two formal sums are equal  *)
(* exactly when the numbers are equal for every choice of the amounts, so  *)
(* a lost, repeated or wrongly signed contribution is always visible and   *)
(* never hidden by two amounts that happen to cancel.  For the same reason *)
(* a pool's current tick is named by the swap that set it.                 *)
(***************************************************************************)
EXTENDS Integers, Sequences

CONSTANTS
    Pools,          \* pool addresses
    Ticks,          \* tick indexes that positions use as bounds
    Blocks,         \* the blocks the chain may contain
    MaxHeight,      \* bound: the chain has at most this many blocks
    MaxBlockEvents  \* bound: a block has at most this many events

Event == [pool: Pools, type: {"mint", "burn", "swap"}, lower: Ticks, upper: Ticks]

ASSUME ChainAssumption ==
    /\ MaxHeight \in Nat \ {0}
    /\ MaxBlockEvents \in Nat
    /\ \A b \in Blocks :
          /\ b \in Seq(Event)
          /\ Len(b) <= MaxBlockEvents
          /\ \A i \in 1..Len(b) : b[i].lower # b[i].upper

Ids == (1..MaxHeight) \X (1..MaxBlockEvents)

\* No event: the current tick a pool was initialised with, before any swap.
NoId == <<0, 0>>

Before(x, y) == x[1] < y[1] \/ (x[1] = y[1] /\ x[2] < y[2])

At(c, id) == c[id[1]][id[2]]

PoolEvents(c, p) ==
    {id \in Ids : /\ id[1] <= Len(c)
                  /\ id[2] <= Len(c[id[1]])
                  /\ At(c, id).pool = p}

\* What a position change contributes to the net liquidity of tick t.
Contribution(e, t) ==
    LET s == IF e.type = "mint" THEN 1 ELSE -1
    IN  IF e.type = "swap" THEN 0
        ELSE IF t = e.lower THEN s ELSE IF t = e.upper THEN -s ELSE 0

\* The events of pool p in the blocks up to height h.
EventsUpTo(c, p, h) == {id \in PoolEvents(c, p) : id[1] <= h}

NetAt(c, p, h) ==
    LET sofar == EventsUpTo(c, p, h)
    IN  [t \in Ticks |-> [id \in Ids |->
            IF id \in sofar THEN Contribution(At(c, id), t) ELSE 0]]

SwapsAt(c, p, h) == {id \in EventsUpTo(c, p, h) : At(c, id).type = "swap"}

\* x names pool p's current tick at height h: the last swap so far.
IsTickAt(c, p, h, x) ==
    LET swaps == SwapsAt(c, p, h)
    IN  \/ x = NoId /\ swaps = {}
        \/ x \in swaps /\ \A y \in swaps : y = x \/ Before(y, x)

\* Tick t of p is initialised at height h.  Liquidity that some position
\* added is assumed never to be withdrawn down to zero, so a tick once
\* touched stays initialised.
Initialised(c, p, h, t) ==
    \E id \in EventsUpTo(c, p, h) : Contribution(At(c, id), t) # 0

EmptyNet == [t \in Ticks |-> [id \in Ids |-> 0]]
=============================================================================
