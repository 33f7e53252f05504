--------------------------- MODULE EventReactor ---------------------------
(***************************************************************************)
(* The indexing loop and everything that writes the pool database.         *)
(*                                                                         *)
(* One goroutine, the reactor, takes the blocks in order and applies the   *)
(* events of each (ReactBlockEvent).  A pool it has no height for is first *)
(* loaded through the lens contract (poolStateGetter.GetPoolState).  Every *)
(* HTTP request runs the same GetPoolState in a goroutine of its own, so   *)
(* an API handler may write the database too.  The process may die between *)
(* any two of these steps and start again from the database.               *)
(*                                                                         *)
(* One action is one access to what the goroutines share.  SafeDB makes    *)
(* each database operation atomic (its per pool lock is held for one       *)
(* operation only), and GetPoolState and SetPoolState read and write the   *)
(* whole record of a pool under it.                                        *)
(***************************************************************************)
EXTENDS PoolChain

CONSTANTS
    Handlers,     \* the API goroutines that may serve one pool at a time
    FromHeights,  \* values the operator may configure as from_height; 0 is none
    MaxLag,       \* bound: how far the HTTP node is behind the WebSocket node
    MaxCrashes,   \* bound: how often the process dies
    WriteErrors   \* whether a write to the database may fail

ASSUME ReactorAssumption ==
    /\ FromHeights \subseteq Nat
    /\ MaxLag \in Nat
    /\ MaxCrashes \in Nat
    /\ WriteErrors \in BOOLEAN

VARIABLES
    chain,     \* the blocks of the chain so far
    listed,    \* the pools Redis knows as unfiltered V3 pairs
    memory,    \* the pools whose pair is in the process's memory cache
    db,        \* per pool: replica height (0: untracked), net liquidity, tick
    finish,    \* the height below which the indexer has handled every block
    pc,        \* what the reactor does next
    next,      \* the block the reactor handles or waits for
    idx,       \* the event of that block it handles
    snap,      \* the lens snapshot the reactor holds
    read,      \* the tick value GetTickState returned
    api,       \* per pool and handler: what the handler does next, its snapshot
    crashes,   \* how often the process died
    pending,   \* history: the event of a pool that is only partly in db
    fault      \* history: why a pool's replica may have left the chain

shared == <<chain, listed, memory, db, finish>>
local  == <<next, idx, snap, read>>
vars   == <<shared, pc, local, api, crashes, pending, fault>>

Steps == {"boot", "event", "pair", "load", "call", "save", "readLower",
          "writeLower", "readUpper", "writeUpper", "swap", "mark"}

\* The event is being applied: between the height check and SetHeight.
Applying == {"readLower", "writeLower", "readUpper", "writeUpper", "swap", "mark"}

Tracked(p) == db[p].height # 0

Id == <<next, idx>>
Event_ == At(chain, Id)
Pool == Event_.pool

\* There is an event to handle, not the end of the block.
HasEvent == idx <= Len(chain[next])

\* The reactor is past event id and does not come back to it: it handled it in
\* this life of the process or, by the finish height, in an earlier one, or the
\* height it started from lies beyond it.
Passed(id) ==
    \/ id[1] < next
    \/ id[1] = next /\ id[2] < idx
    \/ id[1] <= finish

\* Some event of p lies in the blocks after a up to b.
EventsIn(p, a, b) == \E id \in PoolEvents(chain, p) : a < id[1] /\ id[1] <= b

\* The first cause sticks.
Blame(p, why) == [fault EXCEPT ![p] = IF @ = "none" THEN why ELSE @]

ZeroSum == [id \in Ids |-> 0]
NoSnap == [height |-> 0, tick |-> NoId, ticks |-> {}, net |-> EmptyNet]

Init ==
    /\ chain \in {<<b>> : b \in Blocks}
    /\ listed = {}
    /\ memory = {}
    /\ db = [p \in Pools |-> [height |-> 0, tick |-> NoId, net |-> EmptyNet]]
    /\ finish = 0
    /\ pc = "boot"
    /\ next = 0
    /\ idx = 1
    /\ snap = NoSnap
    /\ read = ZeroSum
    /\ api = [r \in Pools \X Handlers |-> [pc |-> "idle", snap |-> NoSnap]]
    /\ crashes = 0
    /\ pending = [p \in Pools |-> NoId]
    /\ fault = [p \in Pools |-> "none"]

-----------------------------------------------------------------------------
(* The chain, Redis and the memory cache's expiry. *)

\* A block below the height a reactor was configured to start from is never
\* handled, so a pool tracked by then loses its events.
Unseen(b, p) ==
    /\ Len(chain) + 1 < next
    /\ Tracked(p)
    /\ \E i \in 1..Len(b) : b[i].pool = p

NewBlock ==
    /\ Len(chain) < MaxHeight
    /\ \E b \in Blocks :
          /\ chain' = Append(chain, b)
          /\ fault' = [p \in Pools |->
                         IF fault[p] = "none" /\ Unseen(b, p) THEN "gap" ELSE fault[p]]
    /\ UNCHANGED <<listed, memory, db, finish, pc, local, api, crashes, pending>>

ListPair(p) ==
    /\ p \notin listed
    /\ listed' = listed \cup {p}
    /\ UNCHANGED <<chain, memory, db, finish, pc, local, api, crashes, pending, fault>>

\* The pair is filtered in Redis; a copy in memory stays until it expires.
DelistPair(p) ==
    /\ p \in listed
    /\ listed' = listed \ {p}
    /\ UNCHANGED <<chain, memory, db, finish, pc, local, api, crashes, pending, fault>>

ExpirePair(p) ==
    /\ p \in memory
    /\ memory' = memory \ {p}
    /\ UNCHANGED <<chain, listed, db, finish, pc, local, api, crashes, pending, fault>>

-----------------------------------------------------------------------------
(* Start up. *)

\* Bug: the block after the last finished one is taken for handled.
FromHeightSkipsOne(configured, finished) ==
    IF configured # 0 THEN configured
    ELSE IF finished # 0 THEN finished + 2 ELSE Len(chain)

FromHeight(configured, finished) ==
    IF configured # 0 THEN configured
    ELSE IF finished # 0 THEN finished + 1 ELSE Len(chain)

\* Without a finish height to go on from, the blocks below the configured
\* height or the head are not handled, though an API handler or an earlier run
\* may have stored a pool's state before them.
Boot(configured) ==
    /\ pc = "boot"
    /\ next' = FromHeight(configured, finish)
    /\ idx' = 1
    /\ pc' = "event"
    /\ fault' = [p \in Pools |->
                   IF /\ fault[p] = "none" /\ Tracked(p)
                      /\ configured # 0 \/ finish = 0
                      /\ EventsIn(p, db[p].height, next' - 1)
                   THEN "gap" ELSE fault[p]]
    /\ UNCHANGED <<shared, snap, read, api, crashes, pending>>

-----------------------------------------------------------------------------
(* What a lens call returns and what SetPoolState stores. *)

\* The lens runs at the head of the HTTP node, at most MaxLag blocks behind,
\* and returns the pool as it is after that block.
Snapshots(p) ==
    LET calls == {k \in (1..Len(chain)) \X (Ids \cup {NoId}) :
                    k[1] + MaxLag >= Len(chain) /\ IsTickAt(chain, p, k[1], k[2])}
    IN  {[height |-> k[1], tick |-> k[2], net |-> NetAt(chain, p, k[1]),
          ticks |-> {t \in Ticks : Initialised(chain, p, k[1], t)}] : k \in calls}

\* Bug: the batch leaves out the current tick.
SetPoolStateNoTick(p, s) ==
    db' = [db EXCEPT ![p] =
             [height |-> s.height, tick |-> db[p].tick,
              net |-> [t \in Ticks |-> IF t \in s.ticks THEN s.net[t] ELSE db[p].net[t]]]]

\* Bug: the batch leaves out the height.
SetPoolStateNoHeight(p, s) ==
    db' = [db EXCEPT ![p] =
             [height |-> db[p].height, tick |-> s.tick,
              net |-> [t \in Ticks |-> IF t \in s.ticks THEN s.net[t] ELSE db[p].net[t]]]]

\* One batch: height, tick and every tick of the snapshot; a tick the
\* snapshot does not have keeps what the database holds.
SetPoolState(p, s) ==
    db' = [db EXCEPT ![p] =
             [height |-> s.height, tick |-> s.tick,
              net |-> [t \in Ticks |-> IF t \in s.ticks THEN s.net[t] ELSE db[p].net[t]]]]

\* Storing snapshot s moves p's replica over an event without applying it:
\* one the reactor has passed, one between the old height and the new, or
\* the one it is applying.
SaveFault(p, s) ==
    IF ~Tracked(p)
    THEN IF \E id \in PoolEvents(chain, p) : Passed(id) /\ id[1] > s.height
         THEN "gap" ELSE "none"
    ELSE IF \/ EventsIn(p, s.height, db[p].height)
            \/ EventsIn(p, db[p].height, s.height)
            \/ pc \in Applying /\ Pool = p
         THEN "overwrite" ELSE "none"

Save(p, s) ==
    /\ SetPoolState(p, s)
    /\ fault' = Blame(p, SaveFault(p, s))
    /\ pending' = [pending EXCEPT ![p] = NoId]

-----------------------------------------------------------------------------
(* ReactBlockEvent: one event after the other. *)

FirstStep(type) == IF type = "swap" THEN "swap" ELSE "readLower"

SkipEvent ==
    /\ pc' = "event"
    /\ idx' = idx + 1

\* Bug: > for >=, a block the replica has is applied once more.
DispatchAgain(height) ==
    IF height > next
    THEN SkipEvent
    ELSE /\ pc' = FirstStep(Event_.type)
         /\ idx' = idx

\* Bug: the height is compared with the block before, the next one is skipped.
DispatchEarly(height) ==
    IF height >= next - 1
    THEN SkipEvent
    ELSE /\ pc' = FirstStep(Event_.type)
         /\ idx' = idx

\* height >= blockEvent.Height: the replica has this block already.
Dispatch(height) ==
    IF height >= next
    THEN SkipEvent
    ELSE /\ pc' = FirstStep(Event_.type)
         /\ idx' = idx

\* Bug: a pool without a height is taken to be at height 0.
GetHeightZero ==
    /\ pc = "event"
    /\ next <= Len(chain)
    /\ HasEvent
    /\ Dispatch(db[Pool].height)
    /\ UNCHANGED <<shared, next, snap, read, api, crashes, pending, fault>>

GetHeight ==
    /\ pc = "event"
    /\ next <= Len(chain)
    /\ HasEvent
    /\ IF Tracked(Pool)
       THEN Dispatch(db[Pool].height)
       ELSE pc' = "pair" /\ idx' = idx
    /\ UNCHANGED <<shared, next, snap, read, api, crashes, pending, fault>>

\* GetPair finds the pair in memory or in Redis, and remembers it.
FindPair(p) ==
    /\ p \in memory \cup listed
    /\ memory' = memory \cup {p}

PairFound ==
    /\ pc = "pair"
    /\ FindPair(Pool)
    /\ pc' = "load"
    /\ UNCHANGED <<chain, listed, db, finish, local, api, crashes, pending, fault>>

\* Bug: a missing pair is looked up until it is found.
PairMissingRetry ==
    /\ pc = "pair"
    /\ Pool \notin memory
    /\ pc' = "event"
    /\ UNCHANGED <<shared, local, api, crashes, pending, fault>>

\* No such pair, a filtered one, or Redis failed: the event is skipped.
PairMissing ==
    /\ pc = "pair"
    /\ Pool \notin memory
    /\ SkipEvent
    /\ fault' = IF Tracked(Pool) /\ db[Pool].height < next
                THEN Blame(Pool, "skip") ELSE fault
    /\ UNCHANGED <<shared, next, snap, read, api, crashes, pending>>

LoadStored ==
    /\ pc = "load"
    /\ IF Tracked(Pool)
       THEN Dispatch(db[Pool].height)
       ELSE pc' = "call" /\ idx' = idx
    /\ UNCHANGED <<shared, next, snap, read, api, crashes, pending, fault>>

CallLens ==
    /\ pc = "call"
    /\ snap' \in Snapshots(Pool)
    /\ pc' = "save"
    /\ UNCHANGED <<shared, next, idx, read, api, crashes, pending, fault>>

SaveSnapshot ==
    /\ pc = "save"
    /\ Save(Pool, snap)
    /\ Dispatch(snap.height)
    /\ snap' = NoSnap
    /\ UNCHANGED <<chain, listed, memory, finish, next, read, api, crashes>>

-----------------------------------------------------------------------------
(* reactEvent and SetHeight. *)

\* reactTick reads a tick's net liquidity ...
ReadTick(t) ==
    /\ read' = db[Pool].net[t]
    /\ UNCHANGED <<shared, next, idx, snap, api, crashes, pending, fault>>

\* ... adds the event's amount, positive or negative, and stores it.
AddLiquidity(sum, sign) == [sum EXCEPT ![Id] = @ + sign]

\* Bug: the tick is stored together with the block's height.
SetTickStateAndHeight(t, sum) ==
    /\ LET net == [db[Pool].net EXCEPT ![t] = sum]
       IN  db' = [db EXCEPT ![Pool].net = net, ![Pool].height = next]
    /\ fault' = fault

SetTickState(t, sum) ==
    /\ LET net == [db[Pool].net EXCEPT ![t] = sum]
       IN  db' = [db EXCEPT ![Pool].net = net]
    /\ fault' = fault

\* The error of a write is dropped, and the event goes on without it.
WriteFails ==
    /\ WriteErrors
    /\ fault' = Blame(Pool, "io")
    /\ db' = db

WriteTick(t, sign) ==
    /\ SetTickState(t, AddLiquidity(read, sign)) \/ WriteFails
    /\ pending' = [pending EXCEPT ![Pool] = Id]
    /\ read' = ZeroSum
    /\ UNCHANGED <<chain, listed, memory, finish, next, idx, snap, api, crashes>>

\* Bug: a mint takes away the liquidity it adds.
LowerSignOfBurn == -1

LowerSign == IF Event_.type = "mint" THEN 1 ELSE -1

ReadLower  == pc = "readLower"  /\ pc' = "writeLower" /\ ReadTick(Event_.lower)
WriteLower == pc = "writeLower" /\ pc' = "readUpper"  /\ WriteTick(Event_.lower, LowerSign)
ReadUpper  == pc = "readUpper"  /\ pc' = "writeUpper" /\ ReadTick(Event_.upper)
WriteUpper == pc = "writeUpper" /\ pc' = "mark"       /\ WriteTick(Event_.upper, -LowerSign)

SetCurrentTick ==
    /\ db' = [db EXCEPT ![Pool].tick = Id]
    /\ fault' = fault

ReactSwap ==
    /\ pc = "swap"
    /\ SetCurrentTick \/ WriteFails
    /\ pending' = [pending EXCEPT ![Pool] = Id]
    /\ pc' = "mark"
    /\ UNCHANGED <<chain, listed, memory, finish, local, api, crashes>>

\* Bug: the height stored is that of the block after.
SetHeightAfter ==
    /\ db' = [db EXCEPT ![Pool].height = next + 1]
    /\ fault' = IF \E j \in idx+1..Len(chain[next]) : chain[next][j].pool = Pool
                THEN Blame(Pool, "repeat") ELSE fault

\* Every later event of the pool in this block will find its height here.
SetHeight ==
    /\ db' = [db EXCEPT ![Pool].height = next]
    /\ fault' = IF \E j \in idx+1..Len(chain[next]) : chain[next][j].pool = Pool
                THEN Blame(Pool, "repeat") ELSE fault

Mark ==
    /\ pc = "mark"
    /\ SetHeight \/ WriteFails
    /\ pending' = [pending EXCEPT ![Pool] = NoId]
    /\ SkipEvent
    /\ UNCHANGED <<chain, listed, memory, finish, next, snap, read, api, crashes>>

\* Bug: the events of the next block are counted from zero.
FinishBlockFromZero ==
    /\ pc = "event"
    /\ next <= Len(chain)
    /\ ~HasEvent
    /\ finish' = next
    /\ next' = next + 1
    /\ idx' = 0
    /\ UNCHANGED <<chain, listed, memory, db, pc, snap, read, api, crashes, pending, fault>>

FinishBlock ==
    /\ pc = "event"
    /\ next <= Len(chain)
    /\ ~HasEvent
    /\ finish' = next
    /\ next' = next + 1
    /\ idx' = 1
    /\ UNCHANGED <<chain, listed, memory, db, pc, snap, read, api, crashes, pending, fault>>

\* The dispatcher polls: no new head has been announced.
AwaitHead ==
    /\ pc = "event"
    /\ next > Len(chain)
    /\ UNCHANGED vars

-----------------------------------------------------------------------------
(* HandlerPoolState: the API's own run of GetPoolState. *)

ApiTo(r, step, s) == api' = [api EXCEPT ![r] = [pc |-> step, snap |-> s]]

\* A request whose pair is not found fails without touching anything.
ApiRequest(r) ==
    /\ api[r].pc = "idle"
    /\ FindPair(r[1])
    /\ ApiTo(r, "load", NoSnap)
    /\ UNCHANGED <<chain, listed, db, finish, pc, local, crashes, pending, fault>>

\* The pool is stored and the handler answers, or the lens is asked.
ApiLoad(r) ==
    /\ api[r].pc = "load"
    /\ ApiTo(r, IF Tracked(r[1]) THEN "idle" ELSE "call", NoSnap)
    /\ UNCHANGED <<shared, pc, local, crashes, pending, fault>>

ApiCall(r) ==
    /\ api[r].pc = "call"
    /\ \E s \in Snapshots(r[1]) : ApiTo(r, "save", s)
    /\ UNCHANGED <<shared, pc, local, crashes, pending, fault>>

ApiSave(r) ==
    /\ api[r].pc = "save"
    /\ Save(r[1], api[r].snap)
    /\ ApiTo(r, "idle", NoSnap)
    /\ UNCHANGED <<chain, listed, memory, finish, pc, local, crashes>>

\* The database, the lens or the batch reported an error: status 500.
ApiFail(r) ==
    /\ api[r].pc # "idle"
    /\ ApiTo(r, "idle", NoSnap)
    /\ UNCHANGED <<shared, pc, local, crashes, pending, fault>>

-----------------------------------------------------------------------------
(* The process dies: killed, a panic of the reactor, or Log.Fatal after    *)
(* ReactBlockEvent returned an error.  A position change of which a tick   *)
(* is written will be applied again from its first tick.                   *)

HalfApplied ==
    \/ pc \in {"readUpper", "writeUpper"}
    \/ pc = "mark" /\ Event_.type # "swap"

Crash ==
    /\ pc # "boot"
    /\ crashes < MaxCrashes
    /\ crashes' = crashes + 1
    /\ fault' = IF HalfApplied THEN Blame(Pool, "torn") ELSE fault
    /\ pc' = "boot"
    /\ next' = 0
    /\ idx' = 1
    /\ snap' = NoSnap
    /\ read' = ZeroSum
    /\ memory' = {}
    /\ api' = [r \in Pools \X Handlers |-> [pc |-> "idle", snap |-> NoSnap]]
    /\ UNCHANGED <<chain, listed, db, finish, pending>>

-----------------------------------------------------------------------------
Reactor ==
    \/ GetHeight \/ PairFound \/ PairMissing \/ LoadStored \/ CallLens \/ SaveSnapshot
    \/ ReadLower \/ WriteLower \/ ReadUpper \/ WriteUpper
    \/ ReactSwap \/ Mark \/ FinishBlock

Api(r) == ApiRequest(r) \/ ApiLoad(r) \/ ApiCall(r) \/ ApiSave(r) \/ ApiFail(r)

Next ==
    \/ NewBlock
    \/ \E p \in Pools : ListPair(p) \/ DelistPair(p) \/ ExpirePair(p)
    \/ \E f \in FromHeights : Boot(f)
    \/ Reactor
    \/ AwaitHead
    \/ \E r \in Pools \X Handlers : Api(r)
    \/ Crash

Spec == Init /\ [][Next]_vars

\* The goroutine that runs main and the one that runs the reactor are
\* scheduled: every wait of theirs ends, by an answer or by an error; the
\* retries of a lens call give up after five minutes, but an attempt that the
\* node never answers is not cut off, and assumed not to happen.
Fairness == WF_vars(\E f \in FromHeights : Boot(f)) /\ WF_vars(Reactor)

FairSpec == Spec /\ Fairness

-----------------------------------------------------------------------------
(* What the indexer promises. *)

Net == [Ticks -> [Ids -> Int]]
Snap == [height: Nat, tick: Ids \cup {NoId}, ticks: SUBSET Ticks, net: Net]
Faults == {"none", "gap", "skip", "overwrite", "repeat", "torn", "io"}

\* The variables keep their types.
TypeOK ==
    /\ chain \in Seq(Blocks) /\ Len(chain) \in 1..MaxHeight
    /\ listed \subseteq Pools
    /\ memory \subseteq Pools
    /\ db \in [Pools -> [height: Nat, tick: Ids \cup {NoId}, net: Net]]
    /\ finish \in Nat
    /\ pc \in Steps
    /\ next \in Nat /\ idx \in Nat \ {0}
    /\ snap \in Snap
    /\ read \in [Ids -> Int]
    /\ api \in [Pools \X Handlers -> [pc: {"idle", "load", "call", "save"}, snap: Snap]]
    /\ crashes \in 0..MaxCrashes
    /\ pending \in [Pools -> Ids \cup {NoId}]
    /\ fault \in [Pools -> Faults]

\* The record of pool p is the chain's state of p at the height it names.
Exact(p) ==
    /\ db[p].height <= Len(chain)
    /\ db[p].net = NetAt(chain, p, db[p].height)
    /\ IsTickAt(chain, p, db[p].height, db[p].tick)

Faultless(p) == Tracked(p) /\ fault[p] = "none"

\* Whatever the interleaving of the reactor, the API handlers and crashes, a
\* replica is the chain's state at its height, between two events and unless
\* one of the named faults happened to it.  (ReactBlockEvent, SetPoolState)
ReplicaExact == \A p \in Pools : Faultless(p) /\ pending[p] = NoId => Exact(p)

\* No event the reactor is past is missing from a tracked pool's replica:
\* each is in a block the replica's height covers.  (ReactBlockEvent skips
\* events on a missing pair and on height >= blockEvent.Height.)
NothingLost ==
    \A p \in Pools : Faultless(p) =>
       \A id \in PoolEvents(chain, p) : Passed(id) => id[1] <= db[p].height

\* A partly applied event is the pool's first one after the replica's
\* height, so replaying it after a crash starts where it was left.
PendingIsNext ==
    \A p \in Pools : Faultless(p) /\ pending[p] # NoId =>
       /\ pending[p] \in PoolEvents(chain, p)
       /\ pending[p][1] > db[p].height
       /\ \A id \in PoolEvents(chain, p) :
             id[1] > db[p].height => id = pending[p] \/ Before(pending[p], id)

\* A pool without a height has nothing in the database, so its first
\* snapshot is stored over an empty record and no stale tick survives it.
UntrackedIsEmpty ==
    \A p \in Pools : ~Tracked(p) => db[p].net = EmptyNet /\ pending[p] = NoId

\* The indexer keeps following: once it has finished a block, each block the
\* chain gets is finished in turn, crashes included.  (PutInput, main)
FollowsTheChain ==
    \A h \in 1..MaxHeight : (finish # 0 /\ Len(chain) >= h) ~> (finish >= h)

\* The readme calls what a request returns the pool's raw state: the ticks,
\* their net liquidity and the current tick at the height it names.  Four
\* readings of that, by what may come between.

\* The reactor has finished a block and not begun the next.
Settled == pc = "event" /\ idx = 1 /\ next = finish + 1

\* First: between two blocks, whatever events the last one had.
\* (ReactBlockEvent, the height check and SetHeight)
ReplicaMatchesChain == Settled => \A p \in Pools : Tracked(p) => Exact(p)

\* Second: after a snapshot was stored over a replica that had moved on while
\* it was being fetched.  (GetPoolState, check then SetPoolState)
OverwriteIsExact ==
    \A p \in Pools : fault[p] = "overwrite" /\ pending[p] = NoId => Exact(p)

\* Third: after a crash inside a Mint or Burn, once the restarted reactor has
\* replayed it.  (reactEvent, two reactTick calls and SetHeight)
ReplayIsExact == \A p \in Pools : fault[p] = "torn" /\ pending[p] = NoId => Exact(p)

\* Fourth: whenever a request reads a stored pool, the net liquidity it gets is
\* that of some height, whichever it names.  (HandlerPoolState, GetPoolState)
ServedMatchesChain ==
    [][\A r \in Pools \X Handlers :
          ApiLoad(r) /\ Tracked(r[1]) =>
             \E h \in 1..Len(chain) : db[r[1]].net = NetAt(chain, r[1], h)]_vars

-----------------------------------------------------------------------------
(* Each pool's replica implements PoolReplica. *)

Gone == -1

view == [p \in Pools |-> IF fault[p] # "none" THEN Gone ELSE db[p].height]

Replica == INSTANCE PoolReplica WITH Diverged <- Gone

\* A replica moves as PoolReplica allows: from block to block over no event,
\* reloaded only where that passes over none, or it has a fault for good.
ReplicaSpec == Replica!Spec

-----------------------------------------------------------------------------
(* The reactor as the other end of the pipeline's ordered feed. *)

Life == IF pc = "boot" THEN "down" ELSE "up"

\* All blocks of the chain are promised from the start of a life on.
Promised == IF pc = "boot" THEN 0 ELSE IF next > Len(chain) THEN next ELSE Len(chain) + 1

Feed == INSTANCE OrderedFeed WITH
    Configured <- FromHeights \ {0},
    head <- Len(chain), life <- Life, turn <- next, owed <- Promised

\* The reactor goes on with the block after the last one it finished, in whatever
\* step it died, or with the configured one, and finishes one after the other:
\* the heights it takes are those that OrderedFeed, and so BlockPipeline, gives
\* it.  (SetFinishHeight, GetFromHeight)
FedInOrder == Feed!Spec
=============================================================================
