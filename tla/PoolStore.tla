----------------------------- MODULE PoolStore -----------------------------
(***************************************************************************)
(* The pool database: SafeDB over the layout of keys in RocksDB.           *)
(*                                                                         *)
(* A pool's record is spread over the keys of a sorted map: one for its    *)
(* height, one for its spacing, one for its current tick and one for each  *)
(* tick that has a state, found by a range scan.  An operation first gets  *)
(* the pool's lock from a table, making it when there is none, and holds   *)
(* it, shared or exclusive, while it reads or writes the keys.  A write is *)
(* one batch, a scan one iterator, and both are atomic in RocksDB; the     *)
(* four reads of GetPoolState are not.                                     *)
(*                                                                         *)
(* Addresses are numbers.  A key is <<prefix, address, tick>>, compared    *)
(* like its bytes, with 0 for the tick in the keys that have none.         *)
(***************************************************************************)
EXTENDS SortedMaps

CONSTANTS
    Pools,    \* the pools' addresses
    Clients,  \* the goroutines that use the database
    Ops(_),   \* the operations that may be called on a pool
    MaxTick,  \* the greatest tick; the smallest is its negative
    IntSize   \* 2^32

ASSUME StoreAssumption ==
    /\ Pools \subseteq Nat
    /\ MaxTick \in Nat
    /\ IntSize \in Nat /\ IntSize % 2 = 0 /\ 2 * MaxTick < IntSize

VARIABLES
    kv,      \* what RocksDB holds: a function on the keys that are there
    locks,   \* the lock table: per pool the client that made its lock
    client   \* per client: its operation, its next step, what it has read

vars == <<kv, locks, client>>

NoLock == "no lock"

Ticks == -MaxTick..MaxTick

Idle == [pc |-> "idle", op |-> <<>>, pool |-> 0, lock |-> NoLock, got |-> <<>>]

-----------------------------------------------------------------------------
(* Integers and keys in bytes. *)

Half == IntSize \div 2

Int32(n) == ((n + Half) % IntSize) - Half

Bytes(n) == n % IntSize

\* Bug: the bytes are not taken for a signed integer.
FromBytesUnsigned(b) == b

FromBytes(b) == Int32(b)

\* Bug: the bytes of negative ticks are greater than those of positive ones.
OrderedBytesPlain(n) == n % IntSize

OrderedBytes(n) == (n + Half) % IntSize

FromOrderedBytes(b) == Int32(b - Half)

TickStateKey(p, t) == <<2, p, OrderedBytes(t)>>
CurrentTickKey(p) == <<3, p, 0>>
TickSpacingKey(p) == <<4, p, 0>>
PoolHeightKey(p)  == <<5, p, 0>>

KeyLess(k, l) ==
    \/ k[1] < l[1]
    \/ k[1] = l[1] /\ k[2] < l[2]
    \/ k[1] = l[1] /\ k[2] = l[2] /\ k[3] < l[3]

\* What the callers pass: ticks of the pool contract, heights, a spacing that is
\* positive as an integer, and for states any values on such ticks.
IsStates(s) == DOMAIN s \subseteq Ticks /\ s = [t \in DOMAIN s |-> s[t]]

IsRecord(r) ==
    /\ r = [height |-> r.height, spacing |-> r.spacing, tick |-> r.tick, states |-> r.states]
    /\ r.height \in Nat /\ r.spacing \in 0..Half-1 /\ r.tick \in Ticks /\ IsStates(r.states)

ASSUME CallersAssumption ==
    /\ NoLock \notin Clients
    /\ \A p \in Pools : \A op \in Ops(p) :
          \/ op.name = "SetTickState" /\ IsStates(op.states)
          \/ op.name = "SetCurrentTick" /\ op.tick \in Ticks
          \/ op.name = "SetTickSpacing" /\ op.spacing \in 0..Half-1
          \/ op.name = "SetHeight" /\ op.height \in Nat
          \/ op.name = "SetPoolState" /\ IsRecord(op.record)
          \/ op.name = "GetTickState" /\ op.tick \in Ticks
          \/ op.name \in {"DeletePoolState", "GetHeight", "GetTickSpacing", "GetCurrentTick",
                          "GetTickStates", "GetPoolState"}

-----------------------------------------------------------------------------
(* RocksDB: reads, a range scan, a batch. *)

Get(k) == IF k \in DOMAIN kv THEN <<kv[k]>> ELSE <<>>

\* A missing number is read as zero, and so is a missing height.
Number(k) == IF k \in DOMAIN kv THEN FromBytes(kv[k]) ELSE 0

Height(p) == IF PoolHeightKey(p) \in DOMAIN kv THEN kv[PoolHeightKey(p)] ELSE 0

\* The iterator starts at from and stops after to.
Between(from, to) == {k \in DOMAIN kv : ~KeyLess(k, from) /\ ~KeyLess(to, k)}

TickStates(p) ==
    LET keys == InOrder(Between(TickStateKey(p, -MaxTick), TickStateKey(p, MaxTick)), KeyLess)
    IN  [i \in 1..Len(keys) |-> <<FromOrderedBytes(keys[i][3]), kv[keys[i]]>>]

\* DeleteRange, unlike the iterator, leaves the end of the range.
Deleted(p) ==
    (Between(TickStateKey(p, -MaxTick), TickStateKey(p, MaxTick)) \ {TickStateKey(p, MaxTick)})
       \cup {PoolHeightKey(p), TickSpacingKey(p), CurrentTickKey(p)}

TickEntries(p, states) ==
    [k \in {TickStateKey(p, t) : t \in DOMAIN states} |->
       states[CHOOSE t \in DOMAIN states : TickStateKey(p, t) = k]]

NumberEntries(p, record) ==
    [k \in {PoolHeightKey(p), CurrentTickKey(p), TickSpacingKey(p)} |->
       CASE k = PoolHeightKey(p)  -> record.height
         [] k = CurrentTickKey(p) -> Bytes(record.tick)
         [] k = TickSpacingKey(p) -> Bytes(record.spacing)]

\* What an operation puts.
Entries(p, op) ==
    CASE op.name = "SetTickState"   -> TickEntries(p, op.states)
      [] op.name = "SetCurrentTick" -> [k \in {CurrentTickKey(p)} |-> Bytes(op.tick)]
      [] op.name = "SetTickSpacing" -> [k \in {TickSpacingKey(p)} |-> Bytes(op.spacing)]
      [] op.name = "SetHeight"      -> [k \in {PoolHeightKey(p)} |-> op.height]
      [] op.name = "SetPoolState"   -> With(NumberEntries(p, op.record),
                                            TickEntries(p, op.record.states))
      [] OTHER -> <<>>

Write(p, op) ==
    LET removed == IF op.name = "DeletePoolState" THEN Deleted(p) ELSE {}
    IN  kv' = With([k \in DOMAIN kv \ removed |-> kv[k]], Entries(p, op))

Writes == {"SetTickState", "SetCurrentTick", "SetTickSpacing", "SetHeight",
           "SetPoolState", "DeletePoolState"}

IsWrite(c) == client[c].op.name \in Writes

-----------------------------------------------------------------------------
(* getOrCreateLock and the lock. *)

To(c, step) == client' = [client EXCEPT ![c].pc = step]

Call(c) ==
    /\ client[c].pc = "idle"
    /\ \E p \in Pools : \E op \in Ops(p) :
          client' = [client EXCEPT ![c] = [Idle EXCEPT !.pc = "find", !.op = op, !.pool = p]]
    /\ UNCHANGED <<kv, locks>>

\* Under the table's read lock: look the pool's lock up.
FindLock(c) ==
    /\ client[c].pc = "find"
    /\ LET lock == locks[client[c].pool]
       IN  client' = [client EXCEPT ![c].pc = IF lock = NoLock THEN "make" ELSE "lock",
                                    ![c].lock = lock]
    /\ UNCHANGED <<kv, locks>>

\* Bug: a lock made meanwhile by another goroutine is replaced.
MakeLockUnchecked(c) ==
    /\ client[c].pc = "make"
    /\ locks' = [locks EXCEPT ![client[c].pool] = c]
    /\ client' = [client EXCEPT ![c].pc = "lock", ![c].lock = c]
    /\ UNCHANGED kv

\* Under the table's write lock: look again, then make it.
MakeLock(c) ==
    /\ client[c].pc = "make"
    /\ LET p == client[c].pool
       IN  locks' = [locks EXCEPT ![p] = IF @ = NoLock THEN c ELSE @]
    /\ client' = [client EXCEPT ![c].pc = "lock", ![c].lock = locks'[client[c].pool]]
    /\ UNCHANGED kv

Inside == {"write", "read", "spacing", "tick", "states", "unlock"}

Holds(c) == client[c].pc \in Inside

SameLock(c, d) == client[c].pool = client[d].pool /\ client[c].lock = client[d].lock

\* Bug: writers take the lock shared.
MayHoldShared(c) == TRUE

\* Readers share the lock, a writer holds it alone.
MayHold(c) ==
    \A d \in Clients \ {c} : Holds(d) /\ SameLock(c, d) => ~IsWrite(c) /\ ~IsWrite(d)

Lock(c) ==
    /\ client[c].pc = "lock"
    /\ MayHold(c)
    /\ To(c, IF IsWrite(c) THEN "write" ELSE "read")
    /\ UNCHANGED <<kv, locks>>

Unlock(c) ==
    /\ client[c].pc = "unlock"
    /\ client' = [client EXCEPT ![c] = Idle]
    /\ UNCHANGED <<kv, locks>>

-----------------------------------------------------------------------------
(* The operations under the lock. *)

DoWrite(c) ==
    /\ client[c].pc = "write"
    /\ Write(client[c].pool, client[c].op)
    /\ To(c, "unlock")
    /\ UNCHANGED locks

\* What is read first, and last but for GetPoolState of a pool that has a height.
FirstRead(p, op) ==
    CASE op.name = "GetTickSpacing" -> <<Number(TickSpacingKey(p))>>
      [] op.name = "GetCurrentTick" -> <<Number(CurrentTickKey(p))>>
      [] op.name = "GetTickState"   -> Get(TickStateKey(p, op.tick))
      [] op.name = "GetTickStates"  -> <<TickStates(p)>>
      [] op.name = "GetPoolState" /\ Height(p) = 0 -> <<>>
      [] OTHER -> <<Height(p)>>

DoRead(c) ==
    /\ client[c].pc = "read"
    /\ LET got == FirstRead(client[c].pool, client[c].op)
           more == client[c].op.name = "GetPoolState" /\ got # <<>>
       IN  client' = [client EXCEPT ![c].got = got, ![c].pc = IF more THEN "spacing" ELSE "unlock"]
    /\ UNCHANGED <<kv, locks>>

\* One more read of GetPoolState.
ReadNext(c, step, value, then) ==
    /\ client[c].pc = step
    /\ client' = [client EXCEPT ![c].got = Append(@, value), ![c].pc = then]
    /\ UNCHANGED <<kv, locks>>

ReadSpacing(c) == ReadNext(c, "spacing", Number(TickSpacingKey(client[c].pool)), "tick")
ReadTick(c)    == ReadNext(c, "tick", Number(CurrentTickKey(client[c].pool)), "states")
ReadStates(c)  == ReadNext(c, "states", TickStates(client[c].pool), "unlock")

-----------------------------------------------------------------------------
Init ==
    /\ kv = <<>>
    /\ locks = [p \in Pools |-> NoLock]
    /\ client = [c \in Clients |-> Idle]

Step(c) ==
    \/ Call(c) \/ FindLock(c) \/ MakeLock(c) \/ Lock(c) \/ Unlock(c)
    \/ DoWrite(c) \/ DoRead(c) \/ ReadSpacing(c) \/ ReadTick(c) \/ ReadStates(c)

Next == \E c \in Clients : Step(c)

Spec == Init /\ [][Next]_vars

-----------------------------------------------------------------------------
(* What the store promises. *)

\* The keys are those of the pools, and what was read has its type.
TypeOK ==
    /\ DOMAIN kv \subseteq UNION {{CurrentTickKey(p), TickSpacingKey(p), PoolHeightKey(p)}
                                    \cup {TickStateKey(p, t) : t \in Ticks} : p \in Pools}
    /\ locks \in [Pools -> Clients \cup {NoLock}]
    /\ \A c \in Clients :
          /\ client[c].pc \in {"idle", "find", "make", "lock"} \cup Inside
          /\ client[c].pc \in {"lock"} \cup Inside => client[c].lock \in Clients
          /\ client[c].pc = "states" =>
                client[c].got[1] \in Nat /\ client[c].got[2] \in Nat /\ client[c].got[3] \in Ticks

\* A pool has one lock for good, so whoever changes it is alone with it.
\* (getOrCreateLock looks twice)
MutualExclusion ==
    \A c, d \in Clients :
       c # d /\ Holds(c) /\ Holds(d) /\ client[c].pool = client[d].pool
          => ~IsWrite(c) /\ ~IsWrite(d)

\* What GetPoolState has read of a pool is still so when it reads on, so the
\* record it returns never is half old and half new.  (SafeDB.GetPoolState)
ReadsAreStable ==
    \A c \in Clients :
       LET p == client[c].pool
           got == client[c].got
       IN  /\ client[c].pc \in {"spacing", "tick", "states"} => got[1] = Height(p)
           /\ client[c].pc \in {"tick", "states"} => got[2] = Number(TickSpacingKey(p))
           /\ client[c].pc = "states" => got[3] = Number(CurrentTickKey(p))

\* The store is atomic.  A read takes effect when its last key is read, a
\* write with its batch.
Record(p) ==
    [height |-> Height(p), spacing |-> Number(TickSpacingKey(p)),
     tick |-> Number(CurrentTickKey(p)),
     states |-> [t \in {t \in Ticks : TickStateKey(p, t) \in DOMAIN kv} |->
                   kv[TickStateKey(p, t)]]]

Phase(c) ==
    CASE client[c].pc = "idle" -> "idle"
      [] client[c].pc = "unlock" -> "done"
      [] OTHER -> "called"

Atomic == INSTANCE AtomicStore WITH
    LastTick <- MaxTick,
    store <- [p \in Pools |-> Record(p)],
    calls <- [c \in Clients |->
                [phase |-> Phase(c), op |-> client[c].op, pool |-> client[c].pool,
                 result |-> IF Phase(c) = "done" THEN client[c].got ELSE <<>>]]

\* Every operation takes effect at one moment on the whole record of its pool.
StoreSpec == Atomic!Spec
=============================================================================
