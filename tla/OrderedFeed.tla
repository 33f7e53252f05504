---------------------------- MODULE OrderedFeed ----------------------------
(***************************************************************************)
(* What the crawling pipeline promises the reactor: in each life of the    *)
(* process it is given the blocks from a first height on, one at a time,   *)
(* each once, in order, and none that the node has not announced; the      *)
(* height of a block is stored when it is finished, and a new life goes on *)
(* with the block after it; and when the reactor is told that there is no  *)
(* more, nothing it should still be given is left behind.                  *)
(***************************************************************************)
EXTENDS Integers

CONSTANT Configured  \* heights the operator may order a life to begin with

VARIABLES
    head,    \* the node's head
    finish,  \* the last block finished, 0 if none
    life,    \* the process is "down", "up", or "over": told that there is no more
    turn,    \* the block the reactor is given next, in this life
    owed     \* the first block that is not yet accepted for it

Init ==
    /\ head \in Nat
    /\ finish = 0 /\ life = "down" /\ turn = 0 /\ owed = 0

First == IF finish = 0 THEN head ELSE finish + 1

Start ==
    /\ life = "down" /\ life' = "up"
    /\ turn' \in Configured \cup {First}
    /\ owed' >= turn' /\ (owed' = turn' \/ owed' <= head + 1)
    /\ UNCHANGED <<head, finish>>

\* New blocks are announced or accepted: a promise to feed them.
Announce ==
    /\ head' >= head
    /\ \/ owed' = owed
       \/ life = "up" /\ owed' > owed /\ owed' <= head' + 1
    /\ UNCHANGED <<finish, life, turn>>

Feed ==
    /\ life = "up"
    /\ turn < owed
    /\ finish' = turn
    /\ turn' = turn + 1
    /\ UNCHANGED <<head, life, owed>>

End ==
    /\ life = "up" /\ life' = "over"
    /\ turn = owed
    /\ UNCHANGED <<head, finish, turn, owed>>

\* What was accepted and not fed is forgotten.
Exit ==
    /\ life # "down" /\ life' = "down"
    /\ turn' = 0 /\ owed' = 0
    /\ UNCHANGED <<head, finish>>

Next == Start \/ Announce \/ Feed \/ End \/ Exit

Spec == Init /\ [][Next]_<<head, finish, life, turn, owed>>
=============================================================================
