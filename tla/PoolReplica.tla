---------------------------- MODULE PoolReplica ----------------------------
(***************************************************************************)
(* What the indexer promises about each pool, without saying how: a pool   *)
(* is not tracked, or its replica is the chain's state of the pool at the  *)
(* height in view[p], or it has diverged from the chain.  A faithful       *)
(* replica starts at some height of the chain and then moves from each     *)
(* block that has an event of the pool to the next such block.  It may be  *)
(* loaded again at another height, in either direction, but only where     *)
(* that passes over no event of the pool.                                  *)
(***************************************************************************)
EXTENDS PoolChain

CONSTANT Diverged

VARIABLES chain, view

Init ==
    /\ chain \in {<<b>> : b \in Blocks}
    /\ view = [p \in Pools |-> 0]

\* The view once the replicas of the pools in S stopped following the chain,
\* for good.
Lose(S) == [p \in Pools |-> IF p \in S THEN Diverged ELSE view[p]]

\* The chain gets a block, which may be one that will never be handled.
Grow ==
    /\ \E b \in Blocks : chain' = Append(chain, b)
    /\ \E S \in SUBSET Pools : view' = Lose(S)

\* No event of p lies between the heights a and b.
Quiet(p, a, b) ==
    \A id \in PoolEvents(chain, p) :
       ~(a < id[1] /\ id[1] <= b) /\ ~(b < id[1] /\ id[1] <= a)

\* Pool p is loaded, or loaded again, at a height of the chain.
Load(p) ==
    /\ view[p] # Diverged
    /\ \E h \in 1..Len(chain) :
          /\ view[p] = 0 \/ Quiet(p, view[p], h)
          /\ view' = [view EXCEPT ![p] = h]
    /\ UNCHANGED chain

\* The replica takes in the events of its next block.
Advance(p) ==
    /\ view[p] \notin {0, Diverged}
    /\ \E id \in PoolEvents(chain, p) :
          /\ id[1] > view[p]
          /\ \A x \in PoolEvents(chain, p) : x[1] <= view[p] \/ x[1] >= id[1]
          /\ view' = [view EXCEPT ![p] = id[1]]
    /\ UNCHANGED chain

Diverge ==
    /\ \E S \in SUBSET Pools : view' = Lose(S)
    /\ UNCHANGED chain

Next ==
    \/ Grow
    \/ \E p \in Pools : Load(p) \/ Advance(p)
    \/ Diverge

Spec == Init /\ [][Next]_<<chain, view>>
=============================================================================
