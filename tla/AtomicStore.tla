---------------------------- MODULE AtomicStore ----------------------------
(***************************************************************************)
(* What the pool database promises its callers: every operation takes      *)
(* effect at one moment between its call and its return, on a map from     *)
(* pools to records.  In particular a record is read as it was at one      *)
(* moment, its ticks in ascending order.                                   *)
(***************************************************************************)
EXTENDS SortedMaps

CONSTANTS
    Pools, Clients,
    Ops(_),    \* the operations that may be called on a pool
    LastTick   \* the greatest tick

VARIABLES
    store,  \* per pool its record
    calls   \* per client its call: "idle", "called" or "done", and the result

Fresh == [height |-> 0, spacing |-> 0, tick |-> 0, states |-> <<>>]

Idle == [phase |-> "idle", op |-> <<>>, pool |-> 0, result |-> <<>>]

\* The ticks of a record, ascending, each with its value.
Listed(states) ==
    LET ticks == InOrder(DOMAIN states, <)
    IN  [i \in 1..Len(ticks) |-> <<ticks[i], states[ticks[i]]>>]

\* The record after an operation.  Deletion leaves the greatest tick.
Updated(rec, op) ==
    CASE op.name = "SetTickState"    -> [rec EXCEPT !.states = With(@, op.states)]
      [] op.name = "SetCurrentTick"  -> [rec EXCEPT !.tick = op.tick]
      [] op.name = "SetTickSpacing"  -> [rec EXCEPT !.spacing = op.spacing]
      [] op.name = "SetHeight"       -> [rec EXCEPT !.height = op.height]
      [] op.name = "SetPoolState"    -> [op.record EXCEPT !.states = With(rec.states, @)]
      [] op.name = "DeletePoolState" ->
            [Fresh EXCEPT !.states = [t \in DOMAIN rec.states \cap {LastTick} |-> rec.states[t]]]
      [] OTHER -> rec

\* What an operation returns; nothing for a tick or a pool that is not there.
Answer(rec, op) ==
    CASE op.name = "GetHeight"      -> <<rec.height>>
      [] op.name = "GetTickSpacing" -> <<rec.spacing>>
      [] op.name = "GetCurrentTick" -> <<rec.tick>>
      [] op.name = "GetTickState"   ->
            IF op.tick \in DOMAIN rec.states THEN <<rec.states[op.tick]>> ELSE <<>>
      [] op.name = "GetTickStates"  -> <<Listed(rec.states)>>
      [] op.name = "GetPoolState" /\ rec.height # 0 ->
            <<rec.height, rec.spacing, rec.tick, Listed(rec.states)>>
      [] OTHER -> <<>>

Init ==
    /\ store = [p \in Pools |-> Fresh]
    /\ calls = [c \in Clients |-> Idle]

Call(c) ==
    /\ calls[c].phase = "idle"
    /\ \E p \in Pools : \E op \in Ops(p) :
          calls' = [calls EXCEPT ![c] =
                      [phase |-> "called", op |-> op, pool |-> p, result |-> <<>>]]
    /\ UNCHANGED store

Do(c) ==
    LET call == calls[c]
    IN  /\ call.phase = "called"
        /\ store' = [store EXCEPT ![call.pool] = Updated(@, call.op)]
        /\ calls' = [calls EXCEPT ![c].phase = "done",
                                  ![c].result = Answer(store[call.pool], call.op)]

Return(c) ==
    /\ calls[c].phase = "done"
    /\ calls' = [calls EXCEPT ![c] = Idle]
    /\ UNCHANGED store

Next == \E c \in Clients : Call(c) \/ Do(c) \/ Return(c)

Spec == Init /\ [][Next]_<<store, calls>>
=============================================================================
