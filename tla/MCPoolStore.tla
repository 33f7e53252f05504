---------------------------- MODULE MCPoolStore ----------------------------
(* A small instance of PoolStore for TLC: one pool that is read and written *)
(* in every way, and one whose keys are next to its keys.                   *)
EXTENDS PoolStore, TLC

SomeRecord == [height |-> 1, spacing |-> 1, tick |-> -1, states |-> -1 :> 1]

SomeOps(p) ==
    IF p = 1
    THEN {[name |-> "SetTickState", states |-> 1 :> 1],
          [name |-> "SetCurrentTick", tick |-> 1], [name |-> "SetTickSpacing", spacing |-> 1],
          [name |-> "SetHeight", height |-> 2], [name |-> "SetPoolState", record |-> SomeRecord],
          [name |-> "DeletePoolState"],
          [name |-> "GetHeight"], [name |-> "GetCurrentTick"], [name |-> "GetTickSpacing"],
          [name |-> "GetTickState", tick |-> -1], [name |-> "GetTickStates"],
          [name |-> "GetPoolState"]}
    ELSE {[name |-> "SetTickState", states |-> -1 :> 1]}
=============================================================================
