-------------------------- MODULE MCEventReactor --------------------------
(* Small instances of EventReactor for TLC. *)
EXTENDS EventReactor

CONSTANTS p1, p2, t1, t2

Mint(p)  == [pool |-> p, type |-> "mint", lower |-> t1, upper |-> t2]
Burn(p)  == [pool |-> p, type |-> "burn", lower |-> t1, upper |-> t2]
Swap(p)  == [pool |-> p, type |-> "swap", lower |-> t1, upper |-> t2]

\* One pool; blocks without, with one and with two events of it.
OnePoolBlocks == {<<>>, <<Mint(p1)>>, <<Swap(p1)>>, <<Burn(p1), Swap(p1)>>}

\* One pool; at most one event of it in a block.
OneEventBlocks == {<<>>, <<Mint(p1)>>, <<Swap(p1)>>, <<Burn(p1)>>}

\* Two pools that share blocks.
TwoPoolBlocks == {<<>>, <<Mint(p1), Swap(p2)>>, <<Swap(p1)>>}

\* At most one event of each pool in a block.
SingleEventBlocks == {<<>>, <<Mint(p1)>>, <<Swap(p1), Mint(p2)>>, <<Burn(p2)>>}
=============================================================================
