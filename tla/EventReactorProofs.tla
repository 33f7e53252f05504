------------------------ MODULE EventReactorProofs ------------------------
(***************************************************************************)
(* Proofs about EventReactor, for every set of pools, ticks, blocks and    *)
(* handlers and every bound.                                               *)
(*                                                                         *)
(* First the types, together with where the reactor stands (AtEvent), then *)
(* the inductive invariant IInv.  Its core is PoolInv(p): the stored net   *)
(* liquidity of a faultless pool is made of exactly the contributions of   *)
(* the events up to its height and of the half of a pending one that was   *)
(* written.  That is what ReplicaExact leaves open while an event is being *)
(* applied.  ApplyInv says what the reactor knows of the pool whose event  *)
(* it is applying, SnapInv what a snapshot is until it is stored.          *)
(***************************************************************************)
EXTENDS EventReactor, PoolChainLemmas

\* At least one tick of a Mint or Burn is written, or a Swap's tick.
Half == {"readUpper", "writeUpper", "mark"}

\* What the steps rely on: the reactor stands at an event of the block.
Standing == next \in 1..Len(chain) /\ idx \in 1..Len(chain[next])

\* Where the reactor stands in each of its steps.
AtEvent ==
    /\ pc # "boot" => next >= 1
    /\ pc \notin {"boot", "event"} => Standing
    /\ next > Len(chain) => idx = 1
    /\ finish <= Len(chain)

\* The steps of a position change and of a swap are of such an event.
Phase ==
    /\ pc \in {"readLower", "writeLower", "readUpper", "writeUpper"} => Event_.type # "swap"
    /\ pc = "swap" => Event_.type = "swap"

\* s is the chain's state of p at some height.
SnapOf(p, s) ==
    /\ s.height \in 1..Len(chain)
    /\ s.net = NetAt(chain, p, s.height)
    /\ s.ticks = {t \in Ticks : Initialised(chain, p, s.height, t)}
    /\ IsTickAt(chain, p, s.height, s.tick)

\* The snapshots about to be stored are such states.
SnapInv ==
    /\ pc = "save" => SnapOf(Pool, snap)
    /\ \A r \in Pools \X Handlers : api[r].pc = "save" => SnapOf(r[1], api[r].snap)

\* While an event is applied its pool is stored below this block, the first
\* half that is written is pending, and what was read is still stored.
ApplyInv ==
    pc \in Applying =>
       /\ Tracked(Pool)
       /\ fault[Pool] = "none" =>
             /\ db[Pool].height < next
             /\ pc \in Half => pending[Pool] = Id
             /\ pc = "writeLower" => read = db[Pool].net[Event_.lower]
             /\ pc = "writeUpper" => read = db[Pool].net[Event_.upper]

\* The half of a pending event that is in the database.
Done(t) == pc = "mark" \/ (pc \in Half /\ t = Event_.lower)

\* The net liquidity that p's record holds, half an event included.
Holds(p) ==
    [t \in Ticks |-> [id \in Ids |->
        IF \/ id \in EventsUpTo(chain, p, db[p].height)
           \/ id = pending[p] /\ Done(t)
        THEN Contribution(At(chain, id), t) ELSE 0]]

\* What is so for a pool whose replica has no fault.
PoolInv(p) ==
    /\ db[p].height \in 1..Len(chain)
    /\ \A id \in PoolEvents(chain, p) : Passed(id) => id[1] <= db[p].height
    /\ pending[p] # NoId =>
          /\ pending[p] \in PoolEvents(chain, p)
          /\ pending[p][1] > db[p].height
          /\ \A id \in PoolEvents(chain, p) :
                id[1] > db[p].height => id = pending[p] \/ Before(pending[p], id)
          /\ \/ At(chain, pending[p]).type = "swap"
             \/ pc \in Half /\ Pool = p /\ Id = pending[p]
    /\ db[p].net = Holds(p)
    /\ IF pending[p] # NoId /\ At(chain, pending[p]).type = "swap"
       THEN db[p].tick = pending[p]
       ELSE IsTickAt(chain, p, db[p].height, db[p].tick)

\* The inductive invariant, beside Typed.
IInv ==
    /\ Phase
    /\ SnapInv
    /\ ApplyInv
    /\ UntrackedIsEmpty
    /\ \A p \in Pools : Faultless(p) => PoolInv(p)

USE DEF shared, local, vars

-----------------------------------------------------------------------------
(* Types. *)

Typed == TypeOK /\ AtEvent

\* Where the reactor stands at an event, it is one of the chain.
LEMMA EventHere ==
    ASSUME Typed, Standing
    PROVE  /\ Event_ \in Event /\ Event_.lower # Event_.upper
           /\ Pool \in Pools /\ Id \in Ids /\ Id \in PoolEvents(chain, Pool)
           /\ Event_ = chain[next][idx] /\ At(chain, Id) = Event_
           /\ Id[1] = next /\ Id[2] = idx
<1>1. /\ chain \in Seq(Blocks) /\ Len(chain) <= MaxHeight
      /\ next \in 1..Len(chain) /\ idx \in 1..Len(chain[next])
  BY ChainAssumption DEF Typed, TypeOK, Standing
<1>2. Event_ = chain[next][idx]
  BY DEF Event_, At, Id
<1> QED
  BY <1>1, <1>2, EventOfChain DEF Id, Pool, Event, Event_

\* What an event's parts are.
LEMMA EventType ==
    ASSUME Typed, pc \notin {"boot", "event"}
    PROVE  /\ Standing
           /\ Event_ \in Event /\ Event_.lower # Event_.upper
           /\ Pool \in Pools /\ Id \in Ids /\ Id \in PoolEvents(chain, Pool)
           /\ Event_ = chain[next][idx] /\ At(chain, Id) = Event_
           /\ Id[1] = next /\ Id[2] = idx
BY EventHere DEF Typed, AtEvent

\* A lens call returns a snapshot of the pool.
LEMMA SnapshotType ==
    ASSUME TypeOK, NEW p \in Pools, NEW s \in Snapshots(p)
    PROVE  s \in Snap /\ SnapOf(p, s)
<1>1. PICK h \in 1..Len(chain), x \in Ids \cup {NoId} :
         /\ s = [height |-> h, tick |-> x, net |-> NetAt(chain, p, h),
                 ticks |-> {t \in Ticks : Initialised(chain, p, h, t)}]
         /\ IsTickAt(chain, p, h, x)
  BY DEF Snapshots
<1>2. chain \in Seq(Blocks)
  BY DEF TypeOK
<1>3. NetAt(chain, p, h) \in Net
  BY <1>2, StateType DEF Net
<1>4. s \in Snap
  BY <1>1, <1>3 DEF Snap
<1> QED
  BY <1>1, <1>4 DEF SnapOf

\* The empty sums and the empty snapshot have their types.
LEMMA EmptyType == ZeroSum \in [Ids -> Int] /\ EmptyNet \in Net /\ NoSnap \in Snap
BY DEF ZeroSum, EmptyNet, Net, NoSnap, Snap, NoId

\* Every step keeps the types and leaves the reactor at an event.
LEMMA TypedInit == Init => Typed
<1> SUFFICES ASSUME Init PROVE Typed
  OBVIOUS
<1>1. PICK b \in Blocks : chain = <<b>>
  BY DEF Init
<1>2. <<b>> \in Seq(Blocks) /\ Len(<<b>>) = 1
  OBVIOUS
<1>3. chain \in Seq(Blocks) /\ Len(chain) \in 1..MaxHeight
  BY <1>1, <1>2, ChainAssumption
<1> QED
  BY <1>3, EmptyType, ReactorAssumption
     DEF Init, Typed, TypeOK, AtEvent, Standing, Steps, Faults

\* Blaming keeps the type of fault.
LEMMA BlameType ==
    ASSUME TypeOK, NEW p \in Pools, NEW why \in Faults
    PROVE  Blame(p, why) \in [Pools -> Faults]
BY DEF Blame, TypeOK

\* A failed write keeps the types.
LEMMA WriteFailsType ==
    ASSUME TypeOK, Pool \in Pools, WriteFails
    PROVE  /\ db' \in [Pools -> [height: Nat, tick: Ids \cup {NoId}, net: Net]]
           /\ fault' \in [Pools -> Faults]
BY BlameType DEF WriteFails, TypeOK, Faults

\* A handler's step keeps the type of api.
LEMMA ApiToType ==
    ASSUME TypeOK, NEW r \in Pools \X Handlers, NEW s \in Snap,
           NEW step \in {"idle", "load", "call", "save"}, ApiTo(r, step, s)
    PROVE  api' \in [Pools \X Handlers ->
                      [pc: {"idle", "load", "call", "save"}, snap: Snap]]
BY DEF ApiTo, TypeOK

\* Storing a snapshot keeps the types.
LEMMA TypedSave ==
    ASSUME TypeOK, NEW p \in Pools, NEW s \in Snap, Save(p, s)
    PROVE  /\ db' \in [Pools -> [height: Nat, tick: Ids \cup {NoId}, net: Net]]
           /\ fault' \in [Pools -> Faults]
           /\ pending' \in [Pools -> Ids \cup {NoId}]
<1>1. [t \in Ticks |-> IF t \in s.ticks THEN s.net[t] ELSE db[p].net[t]] \in Net
  BY DEF TypeOK, Snap, Net
<1>2. db' \in [Pools -> [height: Nat, tick: Ids \cup {NoId}, net: Net]]
  BY <1>1 DEF Save, SetPoolState, TypeOK, Snap
<1>3. fault' \in [Pools -> Faults]
  <2>1. SaveFault(p, s) \in Faults
    BY DEF SaveFault, Faults
  <2> QED
    BY <2>1 DEF Save, Blame, TypeOK
<1>4. pending' \in [Pools -> Ids \cup {NoId}]
  BY DEF Save, TypeOK
<1> QED
  BY <1>2, <1>3, <1>4

\* GetHeight happens at an event.
LEMMA GetHeightStanding == Typed /\ GetHeight => Standing
<1> SUFFICES ASSUME Typed, GetHeight PROVE Standing
  OBVIOUS
<1>1. next \in 1..Len(chain)
  BY DEF GetHeight, Typed, TypeOK, AtEvent, Standing
<1>2. chain[next] \in Seq(Event)
  BY <1>1, ChainAssumption DEF Typed, TypeOK
<1> QED
  BY <1>1, <1>2 DEF GetHeight, HasEvent, Typed, TypeOK, Standing

\* Every step keeps the types and where the reactor may stand.
LEMMA TypedStep == Typed /\ [Next]_vars => Typed'
<1> SUFFICES ASSUME Typed, [Next]_vars PROVE Typed'
  OBVIOUS
<1> USE EmptyType, ReactorAssumption, ChainAssumption
<1>1. CASE NewBlock
  <2>1. PICK b \in Blocks :
           /\ chain' = Append(chain, b)
           /\ fault' = [p \in Pools |->
                         IF fault[p] = "none" /\ Unseen(b, p) THEN "gap" ELSE fault[p]]
    BY <1>1 DEF NewBlock
  <2>2. /\ chain' \in Seq(Blocks) /\ Len(chain') = Len(chain) + 1
        /\ Len(chain') \in 1..MaxHeight
        /\ \A n \in 1..Len(chain) : chain'[n] = chain[n]
    BY <1>1, <2>1 DEF NewBlock, Typed, TypeOK
  <2>3. fault' \in [Pools -> Faults]
    BY <2>1 DEF Typed, TypeOK, Faults
  <2>4. TypeOK'
    BY <1>1, <2>2, <2>3 DEF NewBlock, Typed, TypeOK
  <2>5. AtEvent'
    BY <1>1, <2>2 DEF NewBlock, Typed, TypeOK, AtEvent, Standing
  <2> QED
    BY <2>4, <2>5 DEF Typed
<1>2. ASSUME NEW p \in Pools, ListPair(p) \/ DelistPair(p) \/ ExpirePair(p)
      PROVE  Typed'
  BY <1>2 DEF ListPair, DelistPair, ExpirePair, Typed, TypeOK, AtEvent, Standing
<1>3. ASSUME NEW f \in FromHeights, Boot(f)
      PROVE  Typed'
  <2>1. next' \in Nat /\ next' >= 1
    BY <1>3 DEF Boot, FromHeight, Typed, TypeOK
  <2>2. fault' \in [Pools -> Faults]
    BY <1>3 DEF Boot, Typed, TypeOK, Faults
  <2> QED
    BY <1>3, <2>1, <2>2 DEF Boot, Typed, TypeOK, AtEvent, Standing, Steps
<1>4. CASE GetHeight
  <2>1. Standing
    BY <1>4, GetHeightStanding
  <2>2. pc' \in Steps /\ idx' \in Nat \ {0} /\ (pc' \notin {"boot", "event"} => idx' = idx)
    BY <1>4, <2>1 DEF GetHeight, Dispatch, SkipEvent, FirstStep, Steps, Typed, TypeOK
  <2> QED
    BY <1>4, <2>1, <2>2 DEF GetHeight, Typed, TypeOK, AtEvent, Standing
<1>5. CASE PairFound
  BY <1>5, EventType DEF PairFound, FindPair, Typed, TypeOK, AtEvent, Standing, Steps
<1>6. CASE PairMissing
  <2>1. fault' \in [Pools -> Faults]
    BY <1>6 DEF PairMissing, Blame, Typed, TypeOK, Faults
  <2> QED
    BY <1>6, <2>1 DEF PairMissing, SkipEvent, Typed, TypeOK, AtEvent, Standing, Steps
<1>7. CASE LoadStored
  <2>1. pc' \in Steps /\ idx' \in Nat \ {0} /\ (pc' \notin {"boot", "event"} => idx' = idx)
    BY <1>7 DEF LoadStored, Dispatch, SkipEvent, FirstStep, Steps, Typed, TypeOK
  <2> QED
    BY <1>7, <2>1 DEF LoadStored, Typed, TypeOK, AtEvent, Standing
<1>8. CASE CallLens
  <2>1. snap' \in Snap
    BY <1>8, EventType, SnapshotType DEF CallLens, Typed
  <2> QED
    BY <1>8, <2>1 DEF CallLens, Typed, TypeOK, AtEvent, Standing, Steps
<1>9. CASE SaveSnapshot
  <2>1. pc' \in Steps /\ idx' \in Nat \ {0} /\ (pc' \notin {"boot", "event"} => idx' = idx)
    BY <1>9 DEF SaveSnapshot, Dispatch, SkipEvent, FirstStep, Steps, Typed, TypeOK
  <2>2. Pool \in Pools
    BY <1>9, EventType DEF SaveSnapshot
  <2>3. snap \in Snap /\ Save(Pool, snap)
    BY <1>9 DEF SaveSnapshot, Typed, TypeOK
  <2>4. /\ db' \in [Pools -> [height: Nat, tick: Ids \cup {NoId}, net: Net]]
        /\ fault' \in [Pools -> Faults]
        /\ pending' \in [Pools -> Ids \cup {NoId}]
    BY <2>2, <2>3, TypedSave DEF Typed
  <2> QED
    <3>1. AtEvent'
      BY <1>9, <2>1 DEF SaveSnapshot, Typed, TypeOK, AtEvent, Standing
    <3>2. TypeOK'
      BY <1>9, <2>1, <2>4 DEF SaveSnapshot, Typed, TypeOK
    <3> QED
      BY <3>1, <3>2 DEF Typed
<1>10. CASE ReadLower \/ ReadUpper
  <2>1. Event_ \in Event /\ Pool \in Pools
    BY <1>10, EventType DEF ReadLower, ReadUpper
  <2>2. read' \in [Ids -> Int]
    BY <1>10, <2>1 DEF ReadLower, ReadUpper, ReadTick, Typed, TypeOK, Net, Event
  <2> QED
    BY <1>10, <2>2 DEF ReadLower, ReadUpper, ReadTick, Typed, TypeOK, AtEvent, Standing, Steps
<1>11. CASE WriteLower \/ WriteUpper
  <2>1. Pool \in Pools /\ Id \in Ids /\ Event_ \in Event
    BY <1>11, EventType DEF WriteLower, WriteUpper
  <2>2. PICK t \in Ticks, sign \in Int : WriteTick(t, sign)
    BY <1>11, <2>1 DEF WriteLower, WriteUpper, LowerSign, Event
  <2>3. AddLiquidity(read, sign) \in [Ids -> Int]
    BY <2>1, <2>2 DEF AddLiquidity, Typed, TypeOK
  <2>4. /\ db' \in [Pools -> [height: Nat, tick: Ids \cup {NoId}, net: Net]]
        /\ fault' \in [Pools -> Faults]
    <3>1. CASE WriteFails
      BY <2>1, <3>1, WriteFailsType DEF Typed
    <3>2. CASE SetTickState(t, AddLiquidity(read, sign))
      <4>1. [db[Pool].net EXCEPT ![t] = AddLiquidity(read, sign)] \in Net
        BY <2>1, <2>3 DEF Typed, TypeOK, Net
      <4> QED
        BY <2>1, <3>2, <4>1 DEF SetTickState, Typed, TypeOK
    <3> QED
      BY <2>2, <3>1, <3>2 DEF WriteTick
  <2>5. pending' \in [Pools -> Ids \cup {NoId}] /\ read' \in [Ids -> Int]
    BY <2>1, <2>2 DEF WriteTick, Typed, TypeOK
  <2>6. pc' \in Steps /\ pc \notin {"boot", "event"} /\ pc' # "boot"
    BY <1>11 DEF WriteLower, WriteUpper, Steps
  <2> QED
    BY <2>2, <2>4, <2>5, <2>6 DEF WriteTick, Typed, TypeOK, AtEvent, Standing
<1>12. CASE ReactSwap
  <2>1. Pool \in Pools /\ Id \in Ids
    BY <1>12, EventType DEF ReactSwap
  <2>2. /\ db' \in [Pools -> [height: Nat, tick: Ids \cup {NoId}, net: Net]]
        /\ fault' \in [Pools -> Faults]
        /\ pending' \in [Pools -> Ids \cup {NoId}]
    <3>1. CASE WriteFails
      BY <1>12, <2>1, <3>1, WriteFailsType DEF ReactSwap, Typed, TypeOK
    <3>2. CASE SetCurrentTick
      BY <1>12, <2>1, <3>2 DEF ReactSwap, SetCurrentTick, Typed, TypeOK
    <3> QED
      BY <1>12, <3>1, <3>2 DEF ReactSwap
  <2> QED
    BY <1>12, <2>2 DEF ReactSwap, Typed, TypeOK, AtEvent, Standing, Steps
<1>13. CASE Mark
  <2>1. Pool \in Pools
    BY <1>13, EventType DEF Mark
  <2>2. /\ db' \in [Pools -> [height: Nat, tick: Ids \cup {NoId}, net: Net]]
        /\ fault' \in [Pools -> Faults]
        /\ pending' \in [Pools -> Ids \cup {NoId}]
    <3>1. CASE WriteFails
      BY <1>13, <2>1, <3>1, WriteFailsType DEF Mark, Typed, TypeOK
    <3>2. CASE SetHeight
      <4>1. fault' = Blame(Pool, "repeat") \/ fault' = fault
        BY <3>2 DEF SetHeight
      <4>2. fault' \in [Pools -> Faults]
        BY <2>1, <4>1, BlameType DEF Typed, TypeOK, Faults
      <4>3. db' \in [Pools -> [height: Nat, tick: Ids \cup {NoId}, net: Net]]
        BY <2>1, <3>2 DEF SetHeight, Typed, TypeOK
      <4> QED
        BY <1>13, <4>2, <4>3 DEF Mark, Typed, TypeOK
    <3> QED
      BY <1>13, <3>1, <3>2 DEF Mark
  <2> QED
    BY <1>13, <2>2 DEF Mark, SkipEvent, Typed, TypeOK, AtEvent, Standing, Steps
<1>14. CASE FinishBlock
  BY <1>14 DEF FinishBlock, Typed, TypeOK, AtEvent, Standing, Steps
<1>15. CASE AwaitHead
  BY <1>15 DEF AwaitHead, Typed, TypeOK, AtEvent, Standing
<1>16. ASSUME NEW r \in Pools \X Handlers, Api(r)
       PROVE  Typed'
  <2>0. r[1] \in Pools
    OBVIOUS
  <2>1. CASE ApiRequest(r) \/ ApiLoad(r) \/ ApiFail(r)
    <3>1. api' \in [Pools \X Handlers ->
                     [pc: {"idle", "load", "call", "save"}, snap: Snap]]
      <4>1. PICK step \in {"idle", "load", "call"} : ApiTo(r, step, NoSnap)
        BY <2>1 DEF ApiRequest, ApiLoad, ApiFail
      <4> QED
        BY <4>1, ApiToType DEF Typed
    <3> QED
      BY <2>0, <2>1, <3>1
         DEF ApiRequest, ApiLoad, ApiFail, FindPair, Typed, TypeOK, AtEvent, Standing
  <2>2. CASE ApiCall(r)
    <3>1. PICK s \in Snap : ApiTo(r, "save", s)
      BY <2>0, <2>2, SnapshotType DEF ApiCall, Typed
    <3> QED
      BY <2>2, <3>1 DEF ApiCall, ApiTo, Typed, TypeOK, AtEvent, Standing
  <2>3. CASE ApiSave(r)
    <3>1. api[r].snap \in Snap /\ Save(r[1], api[r].snap)
      BY <2>3 DEF ApiSave, Typed, TypeOK
    <3>2. /\ db' \in [Pools -> [height: Nat, tick: Ids \cup {NoId}, net: Net]]
          /\ fault' \in [Pools -> Faults]
          /\ pending' \in [Pools -> Ids \cup {NoId}]
      BY <2>0, <3>1, TypedSave DEF Typed
    <3> QED
      BY <2>3, <3>2 DEF ApiSave, ApiTo, Typed, TypeOK, AtEvent, Standing
  <2> QED
    BY <1>16, <2>1, <2>2, <2>3 DEF Api
<1>17. CASE Crash
  <2>1. fault' \in [Pools -> Faults]
    BY <1>17 DEF Crash, Blame, Typed, TypeOK, Faults
  <2> QED
    BY <1>17, <2>1 DEF Crash, Typed, TypeOK, AtEvent, Standing, Steps
<1>18. CASE UNCHANGED vars
  BY <1>18 DEF Typed, TypeOK, AtEvent, Standing
<1> QED
  BY <1>1, <1>2, <1>3, <1>4, <1>5, <1>6, <1>7, <1>8, <1>9, <1>10, <1>11, <1>12,
     <1>13, <1>14, <1>15, <1>16, <1>17, <1>18 DEF Next, Reactor

\* The variables of EventReactor keep their types.
THEOREM TypeCorrect == Spec => []TypeOK
<1>1. Typed => TypeOK
  BY DEF Typed
<1> QED
  BY <1>1, TypedInit, TypedStep, PTL DEF Spec

-----------------------------------------------------------------------------
(* The replica of a pool across one step. *)

\* An event id is a pair of positive numbers, and NoId is none.
LEMMA IdFacts == /\ NoId \notin Ids
                 /\ \A id \in Ids : id[1] \in Nat \ {0} /\ id[2] \in Nat \ {0}
                                    /\ id = <<id[1], id[2]>>
BY ChainAssumption DEF NoId, Ids

\* A swap moves no liquidity, so a pending swap, like none, leaves the net
\* liquidity that of the replica's height.
LEMMA HoldsExact ==
    ASSUME Typed, NEW p \in Pools,
           pending[p] = NoId \/ At(chain, pending[p]).type = "swap"
    PROVE  Holds(p) = NetAt(chain, p, db[p].height)
<1>1. \A e, t : e.type = "swap" => Contribution(e, t) = 0
  BY DEF Contribution
<1> QED
  BY <1>1, IdFacts DEF Holds, NetAt

\* A step that leaves p's record, and the half applied event if it is p's,
\* keeps PoolInv(p) when it passes only events the replica covers.
LEMMA PoolFrame ==
    ASSUME Typed, NEW p \in Pools, PoolInv(p), chain' = chain, db'[p] = db[p],
           pending'[p] = pending[p],
           \A id \in PoolEvents(chain, p) : Passed(id)' => id[1] <= db[p].height,
           pending[p] # NoId /\ At(chain, pending[p]).type # "swap" =>
              next' = next /\ idx' = idx /\ pc' \in Half /\ (pc' = "mark" <=> pc = "mark")
    PROVE  PoolInv(p)'
<1>1. ASSUME pending[p] # NoId, At(chain, pending[p]).type # "swap"
      PROVE  /\ Pool' = Pool /\ Id' = Id /\ Event_' = Event_
             /\ \A t : Done(t)' <=> Done(t)
  <2>1. Pool' = Pool /\ Id' = Id /\ Event_' = Event_
    BY <1>1 DEF Pool, Event_, Id
  <2>2. pc \in Half
    BY <1>1 DEF PoolInv
  <2> QED
    BY <1>1, <2>1, <2>2 DEF Done
<1>2. Holds(p)' = Holds(p)
  <2>1. CASE pending[p] # NoId /\ At(chain, pending[p]).type # "swap"
    BY <1>1, <2>1 DEF Holds
  <2>2. CASE pending[p] = NoId \/ At(chain, pending[p]).type = "swap"
    <3>1. \A e, t : e.type = "swap" => Contribution(e, t) = 0
      BY DEF Contribution
    <3> QED
      BY <2>2, <3>1, IdFacts DEF Holds
  <2> QED
    BY <2>1, <2>2
<1>3. db'[p].net = Holds(p)'
  BY <1>2 DEF PoolInv
<1>4. pending'[p] # NoId =>
         \/ At(chain', pending'[p]).type = "swap"
         \/ pc' \in Half /\ Pool' = p /\ Id' = pending'[p]
  BY <1>1 DEF PoolInv
<1> QED
  BY <1>3, <1>4 DEF PoolInv

\* The step passes the event the reactor stands at and no other one.
LEMMA PassedByOne ==
    ASSUME Typed, Standing, UNCHANGED <<chain, finish, next>>, idx' \in {idx, idx + 1},
           NEW p \in Pools, NEW id \in PoolEvents(chain, p), Passed(id)'
    PROVE  Passed(id) \/ (id = Id /\ p = Pool /\ idx' = idx + 1)
<1>1. chain \in Seq(Blocks)
  BY DEF Typed, TypeOK
<1>2. id[1] \in Nat /\ id[2] \in Nat /\ id = <<id[1], id[2]>> /\ At(chain, id).pool = p
  BY <1>1, PoolEventType
<1>3. CASE id[1] = next /\ id[2] = idx /\ idx' = idx + 1
  BY <1>2, <1>3 DEF Id, Pool, Event_
<1>4. CASE ~(id[1] = next /\ id[2] = idx /\ idx' = idx + 1)
  <2>1. next \in Nat /\ idx \in Nat
    BY DEF Typed, TypeOK
  <2> QED
    BY <1>2, <1>4, <2>1 DEF Passed
<1> QED
  BY <1>3, <1>4

\* Standing at an event of p beyond the replica's height, the reactor is at
\* the first event of p that the replica does not have.
LEMMA FirstAfter ==
    ASSUME Typed, Standing, PoolInv(Pool), db[Pool].height < next
    PROVE  /\ \A id \in PoolEvents(chain, Pool) :
                 id[1] > db[Pool].height => id = Id \/ Before(Id, id)
           /\ pending[Pool] # NoId => pending[Pool] = Id
<1>1. Id \in PoolEvents(chain, Pool) /\ Id[1] = next /\ Id[2] = idx
  BY EventHere
<1>2. chain \in Seq(Blocks) /\ next \in Nat /\ idx \in Nat
  BY DEF Typed, TypeOK
<1>3. db[Pool].height \in Nat
  BY EventHere DEF Typed, TypeOK
<1>4. ASSUME NEW id \in PoolEvents(chain, Pool), id[1] > db[Pool].height
      PROVE  id = Id \/ Before(Id, id)
  <2>1. id[1] \in Nat /\ id[2] \in Nat /\ id = <<id[1], id[2]>>
    BY <1>2, PoolEventType
  <2>2. ~Passed(id)
    BY <1>3, <1>4, <2>1 DEF PoolInv
  <2> QED
    BY <1>1, <1>2, <2>1, <2>2 DEF Passed, Before, Id
<1>5. ASSUME pending[Pool] # NoId
      PROVE  pending[Pool] = Id
  <2>1. /\ pending[Pool] \in PoolEvents(chain, Pool)
        /\ pending[Pool][1] > db[Pool].height
        /\ Id = pending[Pool] \/ Before(pending[Pool], Id)
    BY <1>1, <1>5 DEF PoolInv
  <2>2. pending[Pool] = Id \/ Before(Id, pending[Pool])
    BY <1>4, <2>1
  <2>3. pending[Pool][1] \in Nat /\ pending[Pool][2] \in Nat
    BY <1>2, <2>1, PoolEventType
  <2> QED
    BY <1>1, <1>2, <2>1, <2>2, <2>3 DEF Before
<1> QED
  BY <1>4, <1>5

\* A pool without a fault after a step had none before.
LEMMA FaultsStick ==
    ASSUME Typed, NEW p \in Pools, NEW q, NEW why \in Faults \ {"none"},
           fault' = Blame(q, why), fault'[p] = "none"
    PROVE  fault[p] = "none" /\ p # q
BY DEF Blame, Typed, TypeOK, Faults

-----------------------------------------------------------------------------
(* The invariant across each step. *)

Kept == UNCHANGED <<chain, db, finish, pending>>

\* Steps of the chain's surroundings, of an API handler before it stores
\* anything, and of the reactor before it applies anything.
LEMMA LocalStep ==
    ASSUME Typed, IInv, Kept, UNCHANGED <<fault, next, idx, read>>, SnapInv',
           pc' = pc \/ (pc \notin Applying /\ pc' \notin Applying)
    PROVE  IInv'
<1>1. Event_' = Event_ /\ Pool' = Pool /\ Id' = Id
  BY DEF Kept, Event_, Pool, Id
<1>2. Phase' /\ ApplyInv' /\ UntrackedIsEmpty'
  BY <1>1 DEF Kept, IInv, Phase, ApplyInv, UntrackedIsEmpty, Applying, Tracked
<1>3. ASSUME NEW p \in Pools, Faultless(p)'
      PROVE  PoolInv(p)'
  <2>1. PoolInv(p)
    BY <1>3 DEF Kept, IInv, Faultless, Tracked
  <2>2. \A id \in PoolEvents(chain, p) : Passed(id)' => id[1] <= db[p].height
    BY <2>1 DEF Kept, PoolInv, Passed
  <2> QED
    BY <2>1, <2>2, PoolFrame DEF Kept, PoolInv, Half, Applying
<1> QED
  BY <1>2, <1>3 DEF IInv

\* The height check lets an event through or skips it.
LEMMA DispatchStep ==
    ASSUME Typed, IInv, Kept, UNCHANGED <<fault, next, api>>, Standing,
           pc \notin Applying, Tracked(Pool), Dispatch(db[Pool].height)
    PROVE  IInv'
<1>1. Event_ \in Event /\ Pool \in Pools
  BY EventHere
<1>2. \/ db[Pool].height >= next /\ pc' = "event" /\ idx' = idx + 1
      \/ db[Pool].height < next /\ pc' = "swap" /\ idx' = idx /\ Event_.type = "swap"
      \/ db[Pool].height < next /\ pc' = "readLower" /\ idx' = idx /\ Event_.type # "swap"
  BY <1>1 DEF Dispatch, SkipEvent, FirstStep, Typed, TypeOK
<1>3. Phase' /\ ApplyInv'
  BY <1>2 DEF Kept, Phase, ApplyInv, Applying, Half, Event_, Id, Pool, Tracked
<1>4. SnapInv' /\ UntrackedIsEmpty'
  BY <1>2 DEF Kept, IInv, SnapInv, SnapOf, UntrackedIsEmpty, Tracked
<1>5. ASSUME NEW p \in Pools, Faultless(p)'
      PROVE  PoolInv(p)'
  <2>1. PoolInv(p)
    BY <1>5 DEF Kept, IInv, Faultless, Tracked
  <2>2. ASSUME NEW id \in PoolEvents(chain, p), Passed(id)'
        PROVE  id[1] <= db[p].height
    <3>1. CASE Passed(id)
      BY <2>1, <3>1 DEF PoolInv
    <3>2. CASE id = Id /\ p = Pool /\ idx' = idx + 1
      <4>1. db[p].height >= next /\ id[1] = next
        BY <1>2, <3>2, EventHere DEF Typed, TypeOK
      <4> QED
        BY <4>1 DEF Typed, TypeOK
    <3> QED
      BY <1>2, <2>2, <3>1, <3>2, PassedByOne DEF Kept
  <2> QED
    BY <2>1, <2>2, PoolFrame DEF Kept, PoolInv, Half, Applying
<1> QED
  BY <1>3, <1>4, <1>5 DEF IInv

\* A new block adds events after every replica's height; a pool whose event
\* will never be handled is blamed.
LEMMA NewBlockStep == Typed /\ IInv /\ NewBlock => IInv'
<1> SUFFICES ASSUME Typed, IInv, NewBlock PROVE IInv'
  OBVIOUS
<1>1. PICK b \in Blocks :
         /\ chain' = Append(chain, b)
         /\ fault' = [p \in Pools |->
                       IF fault[p] = "none" /\ Unseen(b, p) THEN "gap" ELSE fault[p]]
  BY DEF NewBlock
<1> DEFINE d == Append(chain, b)
<1>2. chain \in Seq(Blocks) /\ Len(chain) < MaxHeight /\ Len(chain) \in Nat
  BY DEF NewBlock, Typed, TypeOK
<1>3. /\ Len(d) = Len(chain) + 1 /\ d \in Seq(Blocks)
      /\ \A n \in 1..Len(chain) : d[n] = chain[n]
      /\ d[Len(chain) + 1] = b
  BY <1>2, <1>1, Extended
<1>4. ASSUME NEW p
      PROVE  /\ PoolEvents(chain, p) \subseteq PoolEvents(d, p)
             /\ \A id \in PoolEvents(d, p) :
                   id \in PoolEvents(chain, p) \/ id[1] = Len(chain) + 1
             /\ \A id \in PoolEvents(chain, p) : At(d, id) = At(chain, id)
             /\ \A h \in Nat : h <= Len(chain) =>
                   /\ EventsUpTo(d, p, h) = EventsUpTo(chain, p, h)
                   /\ NetAt(chain, p, h) = NetAt(d, p, h)
                   /\ \A x : IsTickAt(chain, p, h, x) <=> IsTickAt(d, p, h, x)
                   /\ \A t : Initialised(chain, p, h, t) <=> Initialised(d, p, h, t)
  <2>1. /\ PoolEvents(chain, p) \subseteq PoolEvents(d, p)
        /\ \A id \in PoolEvents(d, p) :
              id \in PoolEvents(chain, p) \/ id[1] = Len(chain) + 1
        /\ \A id \in PoolEvents(chain, p) : At(d, id) = At(chain, id)
        /\ \A h \in Nat : h <= Len(chain) =>
              EventsUpTo(d, p, h) = EventsUpTo(chain, p, h)
    BY <1>2, Extended
  <2>2. ASSUME NEW h \in Nat, h <= Len(chain)
        PROVE  /\ NetAt(chain, p, h) = NetAt(d, p, h)
               /\ \A x : IsTickAt(chain, p, h, x) <=> IsTickAt(d, p, h, x)
               /\ \A t : Initialised(chain, p, h, t) <=> Initialised(d, p, h, t)
    <3>1. EventsUpTo(chain, p, h) = EventsUpTo(d, p, h)
      BY <2>1, <2>2
    <3>2. \A id \in EventsUpTo(chain, p, h) : At(chain, id) = At(d, id)
      BY <2>1 DEF EventsUpTo
    <3> QED
      BY <3>1, <3>2, SameEvents
  <2> QED
    BY <2>1, <2>2
<1> HIDE DEF d
<1>5. chain' = d /\ UNCHANGED <<db, finish, pc, next, idx, snap, read, api, pending>>
  BY <1>1 DEF NewBlock, d
<1>6. Standing => Event_' = Event_ /\ Pool' = Pool
  BY <1>3, <1>5 DEF Standing, Event_, Pool, Id, At
<1>7. \A p \in Pools : fault'[p] = "none" => fault[p] = "none" /\ ~Unseen(b, p)
  BY <1>1
<1>8. Phase'
  BY <1>5, <1>6 DEF IInv, Phase, Typed, AtEvent
<1>9. ApplyInv'
  <2>1. pc \in Applying => Standing /\ Pool \in Pools
    BY EventType DEF Applying
  <2> QED
    BY <1>5, <1>6, <1>7, <2>1 DEF IInv, ApplyInv, Tracked, Id
<1>10. SnapInv'
  <2>1. ASSUME NEW p, NEW s, SnapOf(p, s)
        PROVE  SnapOf(p, s)'
    <3>1. s.height \in Nat /\ s.height <= Len(chain) /\ s.height \in 1..Len(d)
      BY <1>2, <1>3, <2>1 DEF SnapOf
    <3> QED
      BY <1>4, <1>5, <2>1, <3>1 DEF SnapOf
  <2>2. pc = "save" => Standing
    BY DEF Typed, AtEvent
  <2>3. pc' = "save" => SnapOf(Pool, snap)'
    <3> SUFFICES ASSUME pc' = "save" PROVE SnapOf(Pool, snap)'
      OBVIOUS
    <3>1. SnapOf(Pool, snap) /\ Pool' = Pool /\ snap' = snap
      BY <1>5, <1>6, <2>2 DEF IInv, SnapInv
    <3>2. snap.height \in Nat /\ snap.height <= Len(chain) /\ snap.height \in 1..Len(d)
      BY <1>2, <1>3, <3>1 DEF SnapOf
    <3> QED
      BY <1>4, <1>5, <3>1, <3>2 DEF SnapOf
  <2>4. ASSUME NEW r \in Pools \X Handlers, api'[r].pc = "save"
        PROVE  SnapOf(r[1], api[r].snap)'
    <3>1. SnapOf(r[1], api[r].snap) /\ api' = api
      BY <1>5, <2>4 DEF IInv, SnapInv
    <3>2. /\ api[r].snap.height \in Nat /\ api[r].snap.height <= Len(chain)
          /\ api[r].snap.height \in 1..Len(d)
      BY <1>2, <1>3, <3>1 DEF SnapOf
    <3> QED
      BY <1>4, <1>5, <3>1, <3>2 DEF SnapOf
  <2> QED
    BY <2>3, <2>4 DEF SnapInv
<1>11. UntrackedIsEmpty'
  BY <1>5 DEF IInv, UntrackedIsEmpty, Tracked
<1>12. ASSUME NEW p \in Pools, Faultless(p)'
       PROVE  PoolInv(p)'
  <2>1. PoolInv(p) /\ ~Unseen(b, p) /\ Tracked(p)
    BY <1>5, <1>7, <1>12 DEF IInv, Faultless, Tracked
  <2>2. db[p].height \in Nat /\ db[p].height <= Len(chain) /\ db[p].height \in 1..Len(d)
    BY <1>2, <1>3, <2>1 DEF PoolInv
  <2>3. ASSUME NEW id \in PoolEvents(d, p), Passed(id)'
        PROVE  id[1] <= db[p].height
    <3>1. CASE id \in PoolEvents(chain, p)
      BY <1>5, <2>1, <2>3, <3>1 DEF PoolInv, Passed
    <3>2. CASE id[1] = Len(chain) + 1
      <4>1. id[2] \in 1..Len(b) /\ b[id[2]].pool = p
        BY <1>3, <3>2, PoolEventType
      <4>2. next <= Len(chain) + 1
        BY <2>1, <4>1, <1>2 DEF Unseen, Typed, TypeOK
      <4>3. next = Len(chain) + 1 /\ id[2] < idx
        BY <1>2, <1>5, <2>3, <3>2, <4>2 DEF Passed, Typed, TypeOK, AtEvent
      <4>4. idx = 1
        BY <1>2, <4>3 DEF Typed, AtEvent
      <4> QED
        BY <4>1, <4>3, <4>4
    <3> QED
      BY <1>4, <3>1, <3>2
  <2>4. ASSUME pending[p] # NoId
        PROVE  /\ pending[p] \in PoolEvents(d, p)
               /\ At(d, pending[p]) = At(chain, pending[p])
               /\ pending[p][1] > db[p].height
               /\ \A id \in PoolEvents(d, p) :
                     id[1] > db[p].height => id = pending[p] \/ Before(pending[p], id)
    <3>1. /\ pending[p] \in PoolEvents(chain, p) /\ pending[p][1] > db[p].height
          /\ \A id \in PoolEvents(chain, p) :
                id[1] > db[p].height => id = pending[p] \/ Before(pending[p], id)
      BY <2>1, <2>4 DEF PoolInv
    <3>2. pending[p][1] \in 1..Len(chain)
      BY <1>2, <3>1, PoolEventType
    <3>3. \A id : id[1] = Len(chain) + 1 => Before(pending[p], id)
      BY <1>2, <3>2 DEF Before
    <3> QED
      BY <1>4, <3>1, <3>3
  <2>5. ASSUME pending[p] # NoId, At(chain, pending[p]).type # "swap"
        PROVE  Pool' = Pool /\ Id' = Id /\ Event_' = Event_ /\ pc \in Half
    <3>1. pc \in Half
      BY <2>1, <2>5 DEF PoolInv
    <3>2. Standing
      BY <3>1, EventType DEF Half
    <3> QED
      BY <1>5, <1>6, <3>1, <3>2 DEF Id
  <2>6. Holds(p)' = Holds(p)
    <3>1. EventsUpTo(d, p, db[p].height) = EventsUpTo(chain, p, db[p].height)
      BY <1>4, <2>2
    <3>2. \A id \in EventsUpTo(chain, p, db[p].height) : At(d, id) = At(chain, id)
      BY <1>4 DEF EventsUpTo
    <3>3. pending[p] # NoId => At(d, pending[p]) = At(chain, pending[p])
      BY <2>4
    <3>4. CASE pending[p] # NoId /\ At(chain, pending[p]).type # "swap"
      <4>1. \A t : Done(t)' <=> Done(t)
        BY <1>5, <2>5, <3>4 DEF Done
      <4> QED
        BY <1>5, <3>1, <3>2, <3>3, <4>1, <3>4 DEF Holds
    <3>5. CASE pending[p] = NoId \/ At(chain, pending[p]).type = "swap"
      <4>1. \A e, t : e.type = "swap" => Contribution(e, t) = 0
        BY DEF Contribution
      <4> QED
        BY <1>5, <3>1, <3>2, <3>3, <3>5, <4>1, IdFacts DEF Holds
    <3> QED
      BY <3>4, <3>5
  <2>7. db'[p].height \in 1..Len(chain')
    BY <1>5, <2>2
  <2>8. \A id \in PoolEvents(chain', p) : Passed(id)' => id[1] <= db'[p].height
    BY <1>5, <2>3
  <2>9. pending'[p] # NoId =>
          /\ pending'[p] \in PoolEvents(chain', p)
          /\ pending'[p][1] > db'[p].height
          /\ \A id \in PoolEvents(chain', p) :
                id[1] > db'[p].height => id = pending'[p] \/ Before(pending'[p], id)
          /\ \/ At(chain', pending'[p]).type = "swap"
             \/ pc' \in Half /\ Pool' = p /\ Id' = pending'[p]
    BY <1>5, <2>1, <2>4, <2>5 DEF PoolInv
  <2>10. db'[p].net = Holds(p)'
    BY <1>5, <2>1, <2>6 DEF PoolInv
  <2>11. IF pending'[p] # NoId /\ At(chain', pending'[p]).type = "swap"
         THEN db'[p].tick = pending'[p]
         ELSE IsTickAt(chain', p, db'[p].height, db'[p].tick)
    BY <1>4, <1>5, <2>1, <2>2, <2>4 DEF PoolInv
  <2> QED
    BY <2>7, <2>8, <2>9, <2>10, <2>11 DEF PoolInv
<1> QED
  BY <1>8, <1>9, <1>10, <1>11, <1>12 DEF IInv

\* A start passes no event that a faultless pool lacks.
LEMMA BootStep == ASSUME Typed, IInv, NEW f \in FromHeights, Boot(f) PROVE IInv'
<1>1. Kept /\ pc = "boot" /\ pc' = "event" /\ UNCHANGED api /\ idx' = 1 /\ next' \in Nat
  BY ReactorAssumption DEF Boot, Kept, FromHeight, Typed, TypeOK
<1>2. Phase' /\ ApplyInv' /\ SnapInv' /\ UntrackedIsEmpty'
  BY <1>1 DEF Kept, IInv, Phase, ApplyInv, Applying, SnapInv, SnapOf, UntrackedIsEmpty, Tracked
<1>3. ASSUME NEW p \in Pools, Faultless(p)'
      PROVE  PoolInv(p)'
  <2>1. /\ fault[p] = "none" /\ Tracked(p)
        /\ f # 0 \/ finish = 0 => ~EventsIn(p, db[p].height, next' - 1)
    BY <1>1, <1>3 DEF Boot, Faultless, Tracked, Kept
  <2>2. PoolInv(p)
    BY <2>1 DEF IInv, Faultless
  <2>3. ASSUME NEW id \in PoolEvents(chain, p), Passed(id)'
        PROVE  id[1] <= db[p].height
    <3>1. id[1] \in Nat /\ id[2] \in Nat \ {0}
      BY PoolEventType DEF Typed, TypeOK
    <3>2. CASE id[1] <= finish
      BY <2>2, <3>2 DEF PoolInv, Passed
    <3>3. CASE ~(id[1] <= finish)
      <4>1. id[1] <= next' - 1
        BY <1>1, <2>3, <3>1, <3>3 DEF Passed, Kept
      <4>2. f # 0 \/ finish = 0
        BY <3>1, <3>3, <4>1 DEF Boot, FromHeight, Typed, TypeOK
      <4> QED
        BY <2>1, <3>1, <4>1, <4>2 DEF EventsIn, Typed, TypeOK
    <3> QED
      BY <3>2, <3>3
  <2>4. pending[p] # NoId => At(chain, pending[p]).type = "swap"
    BY <1>1, <2>2 DEF PoolInv, Half
  <2> QED
    BY <1>1, <2>2, <2>3, <2>4, PoolFrame DEF Kept
<1> QED
  BY <1>2, <1>3 DEF IInv

\* Looking at the pool's height only skips what the replica has.
LEMMA GetHeightStep == ASSUME Typed, IInv, GetHeight PROVE IInv'
<1>1. Standing /\ Kept /\ UNCHANGED <<fault, next, api>> /\ pc = "event"
  BY GetHeightStanding DEF GetHeight, Kept
<1>2. CASE Tracked(Pool)
  BY <1>1, <1>2, DispatchStep DEF GetHeight, Applying
<1>3. CASE ~Tracked(Pool)
  <2>1. pc' = "pair" /\ UNCHANGED <<idx, read>>
    BY <1>3 DEF GetHeight
  <2>2. SnapInv'
    BY <1>1, <2>1 DEF Kept, IInv, SnapInv, SnapOf
  <2> QED
    BY <1>1, <2>1, <2>2, LocalStep DEF Applying
<1> QED
  BY <1>2, <1>3

\* So does finding that a handler stored the pool meanwhile.
LEMMA LoadStoredStep == ASSUME Typed, IInv, LoadStored PROVE IInv'
<1>1. Standing /\ Kept /\ UNCHANGED <<fault, next, api>> /\ pc = "load"
  BY EventType DEF LoadStored, Kept
<1>2. CASE Tracked(Pool)
  BY <1>1, <1>2, DispatchStep DEF LoadStored, Applying
<1>3. CASE ~Tracked(Pool)
  <2>1. pc' = "call" /\ UNCHANGED <<idx, read>>
    BY <1>3 DEF LoadStored
  <2>2. SnapInv'
    BY <1>1, <2>1 DEF Kept, IInv, SnapInv, SnapOf
  <2> QED
    BY <1>1, <2>1, <2>2, LocalStep DEF Applying
<1> QED
  BY <1>2, <1>3

\* A lens call returns the chain's state at a height.
LEMMA CallLensStep == ASSUME Typed, IInv, CallLens PROVE IInv'
<1>1. Kept /\ UNCHANGED <<fault, next, idx, read, api>> /\ pc = "call" /\ pc' = "save"
  BY DEF CallLens, Kept
<1>2. Pool \in Pools /\ snap' \in Snapshots(Pool)
  BY EventType DEF CallLens
<1>3. SnapOf(Pool, snap')
  <2>1. PICK s \in Snapshots(Pool) : snap' = s
    BY <1>2
  <2> QED
    BY <1>2, <2>1, SnapshotType DEF Typed
<1>4. SnapInv'
  <2>1. SnapOf(Pool, snap)'
    BY <1>1, <1>3 DEF Kept, SnapOf, Pool, Event_, Id
  <2>2. \A r \in Pools \X Handlers : api'[r].pc = "save" => SnapOf(r[1], api[r].snap)'
    BY <1>1 DEF Kept, IInv, SnapInv, SnapOf
  <2> QED
    BY <2>1, <2>2 DEF SnapInv
<1> QED
  BY <1>1, <1>4, LocalStep DEF Applying

\* Skipping an event of a stored pool that lacks it is blamed.
LEMMA PairMissingStep == ASSUME Typed, IInv, PairMissing PROVE IInv'
<1>1. /\ Kept /\ UNCHANGED <<next, api>> /\ pc = "pair" /\ pc' = "event"
      /\ idx' = idx + 1 /\ Standing
  BY EventType DEF PairMissing, SkipEvent, Kept
<1>2. Phase' /\ ApplyInv' /\ SnapInv' /\ UntrackedIsEmpty'
  BY <1>1 DEF Kept, IInv, Phase, ApplyInv, Applying, SnapInv, SnapOf, UntrackedIsEmpty, Tracked
<1>3. ASSUME NEW p \in Pools, Faultless(p)'
      PROVE  PoolInv(p)'
  <2>1. fault[p] = "none" /\ (Tracked(Pool) /\ db[Pool].height < next => p # Pool)
    BY <1>3, FaultsStick DEF PairMissing, Faultless, Faults
  <2>2. PoolInv(p) /\ Tracked(p)
    BY <1>1, <1>3, <2>1 DEF Kept, IInv, Faultless, Tracked
  <2>3. ASSUME NEW id \in PoolEvents(chain, p), Passed(id)'
        PROVE  id[1] <= db[p].height
    <3>1. CASE Passed(id)
      BY <2>2, <3>1 DEF PoolInv
    <3>2. CASE id = Id /\ p = Pool
      BY <2>1, <2>2, <3>2, <1>1, EventHere DEF Typed, TypeOK
    <3> QED
      BY <1>1, <2>3, <3>1, <3>2, PassedByOne DEF Kept
  <2>4. pending[p] # NoId => At(chain, pending[p]).type = "swap"
    BY <1>1, <2>2 DEF PoolInv, Half
  <2> QED
    BY <1>1, <2>2, <2>3, <2>4, PoolFrame DEF Kept
<1> QED
  BY <1>2, <1>3 DEF IInv

\* A finished block's events were all passed before.
LEMMA FinishBlockStep == ASSUME Typed, IInv, FinishBlock PROVE IInv'
<1>1. /\ UNCHANGED <<chain, db, pending, fault, api>> /\ finish' = next /\ pc = "event" /\ pc' = "event"
      /\ next' = next + 1 /\ idx' = 1 /\ next \in 1..Len(chain)
  BY DEF FinishBlock, Typed, TypeOK, AtEvent
<1>2. Phase' /\ ApplyInv' /\ SnapInv' /\ UntrackedIsEmpty'
  BY <1>1 DEF IInv, Phase, ApplyInv, Applying, SnapInv, SnapOf, UntrackedIsEmpty, Tracked
<1>3. ASSUME NEW p \in Pools, Faultless(p)'
      PROVE  PoolInv(p)'
  <2>1. PoolInv(p)
    BY <1>1, <1>3 DEF IInv, Faultless, Tracked
  <2>2. ASSUME NEW id \in PoolEvents(chain, p), Passed(id)'
        PROVE  id[1] <= db[p].height
    <3>1. id[1] \in Nat /\ id[2] \in 1..Len(chain[id[1]])
      BY PoolEventType DEF Typed, TypeOK
    <3>2. id[1] < next \/ (id[1] = next /\ id[2] \in 1..Len(chain[next]))
      BY <1>1, <2>2, <3>1 DEF Passed, Typed, TypeOK
    <3>3. chain[next] \in Seq(Event)
      BY <1>1, ChainAssumption DEF Typed, TypeOK
    <3>4. Passed(id)
      BY <3>1, <3>2, <3>3 DEF FinishBlock, HasEvent, Passed, Typed, TypeOK
    <3> QED
      BY <2>1, <3>4 DEF PoolInv
  <2>3. pending[p] # NoId => At(chain, pending[p]).type = "swap"
    BY <1>1, <2>1 DEF PoolInv, Half
  <2> QED
    BY <1>1, <2>1, <2>2, <2>3, PoolFrame
<1> QED
  BY <1>2, <1>3 DEF IInv

\* A crash loses no more than the reactor's place, and a half applied
\* position change is blamed.
LEMMA CrashStep == ASSUME Typed, IInv, Crash PROVE IInv'
<1>1. /\ Kept /\ pc # "boot" /\ pc' = "boot" /\ next' = 0 /\ idx' = 1
      /\ \A r \in Pools \X Handlers : api'[r].pc = "idle"
  BY DEF Crash, Kept
<1>2. Phase' /\ ApplyInv' /\ SnapInv' /\ UntrackedIsEmpty'
  BY <1>1 DEF Kept, IInv, Phase, ApplyInv, Applying, SnapInv, UntrackedIsEmpty, Tracked
<1>3. ASSUME NEW p \in Pools, Faultless(p)'
      PROVE  PoolInv(p)'
  <2>1. fault[p] = "none" /\ (HalfApplied => p # Pool)
    BY <1>3, FaultsStick DEF Crash, Faultless, Faults
  <2>2. PoolInv(p)
    BY <1>1, <1>3, <2>1 DEF Kept, IInv, Faultless, Tracked
  <2>3. ASSUME NEW id \in PoolEvents(chain, p), Passed(id)'
        PROVE  id[1] <= db[p].height
    <3>1. id[1] \in Nat \ {0}
      BY PoolEventType DEF Typed, TypeOK
    <3>2. Passed(id)
      BY <1>1, <2>3, <3>1 DEF Passed, Kept
    <3> QED
      BY <2>2, <3>2 DEF PoolInv
  <2>4. pending[p] # NoId => At(chain, pending[p]).type = "swap"
    <3>1. ASSUME pc \in Half, Pool = p, Id = pending[p]
          PROVE  At(chain, pending[p]).type = "swap"
      BY <2>1, <3>1, EventType DEF HalfApplied, Half
    <3> QED
      BY <2>2, <3>1 DEF PoolInv
  <2> QED
    BY <1>1, <2>2, <2>3, <2>4, PoolFrame DEF Kept
<1> QED
  BY <1>2, <1>3 DEF IInv

\* Reading a tick tells the reactor what is stored.
LEMMA ReadStep == ASSUME Typed, IInv, ReadLower \/ ReadUpper PROVE IInv'
<1>1. Kept /\ UNCHANGED <<fault, next, idx, snap, api>> /\ pc' # "save"
  BY DEF ReadLower, ReadUpper, ReadTick, Kept
<1>2. Event_' = Event_ /\ Pool' = Pool /\ Id' = Id
  BY <1>1 DEF Kept, Event_, Pool, Id
<1>3. Phase'
  BY <1>2 DEF IInv, Phase, ReadLower, ReadUpper
<1>4. ApplyInv'
  BY <1>1, <1>2 DEF Kept, IInv, ApplyInv, Applying, Half, Tracked, ReadLower, ReadUpper, ReadTick
<1>5. SnapInv' /\ UntrackedIsEmpty'
  BY <1>1 DEF Kept, IInv, SnapInv, SnapOf, UntrackedIsEmpty, Tracked
<1>6. ASSUME NEW p \in Pools, Faultless(p)'
      PROVE  PoolInv(p)'
  <2>1. PoolInv(p)
    BY <1>1, <1>6 DEF Kept, IInv, Faultless, Tracked
  <2>2. \A id \in PoolEvents(chain, p) : Passed(id)' => id[1] <= db[p].height
    BY <1>1, <2>1 DEF Kept, PoolInv, Passed
  <2>3. pc \in Half => pc' \in Half /\ (pc' = "mark" <=> pc = "mark")
    BY DEF ReadLower, ReadUpper, Half
  <2> QED
    BY <1>1, <2>1, <2>2, <2>3, PoolFrame DEF Kept, PoolInv
<1> QED
  BY <1>3, <1>4, <1>5, <1>6 DEF IInv

\* A snapshot that storing it leaves without a fault makes the replica exact.
LEMMA SavedPool ==
    ASSUME Typed, NEW p \in Pools, NEW s \in Snap, SnapOf(p, s), Save(p, s),
           chain' = chain, UntrackedIsEmpty, Faultless(p) => PoolInv(p),
           fault'[p] = "none",
           \A id \in PoolEvents(chain, p) : Passed(id)' => Passed(id) \/ id[1] <= s.height
    PROVE  PoolInv(p)'
<1>1. chain \in Seq(Blocks) /\ s.height \in 1..Len(chain) /\ s.height \in Nat
  BY DEF Typed, TypeOK, SnapOf
<1>2. fault[p] = "none" /\ SaveFault(p, s) = "none"
  BY DEF Save, Blame, Typed, TypeOK
<1>3. /\ db'[p].height = s.height /\ db'[p].tick = s.tick /\ pending'[p] = NoId
      /\ db'[p].net = [t \in Ticks |-> IF t \in s.ticks THEN s.net[t] ELSE db[p].net[t]]
  BY DEF Save, SetPoolState, Typed, TypeOK
<1>4. ASSUME NEW id \in PoolEvents(chain, p), Passed(id)'
      PROVE  id[1] <= s.height
  <2>1. id[1] \in Nat
    BY <1>1, PoolEventType
  <2>2. CASE ~Tracked(p)
    BY <1>1, <1>2, <1>4, <2>1, <2>2 DEF SaveFault
  <2>3. CASE Tracked(p)
    <3>1. Passed(id) => id[1] <= db[p].height
      BY <1>2, <2>3 DEF Faultless, PoolInv
    <3>2. ~EventsIn(p, s.height, db[p].height)
      BY <1>2, <2>3 DEF SaveFault
    <3> QED
      BY <1>1, <1>4, <2>1, <3>1, <3>2 DEF EventsIn, Typed, TypeOK
  <2> QED
    BY <2>2, <2>3
<1>5. db'[p].net = NetAt(chain, p, s.height)
  <2>1. CASE ~Tracked(p)
    <3>1. db[p].net = EmptyNet
      BY <2>1 DEF UntrackedIsEmpty
    <3>2. \A t \in Ticks : t \notin s.ticks =>
             \A id \in EventsUpTo(chain, p, s.height) : Contribution(At(chain, id), t) = 0
      BY DEF SnapOf, Initialised
    <3> QED
      BY <1>3, <3>1, <3>2 DEF SnapOf, EmptyNet, NetAt
  <2>2. CASE Tracked(p)
    <3>1. ~EventsIn(p, s.height, db[p].height) /\ ~EventsIn(p, db[p].height, s.height)
          /\ ~(pc \in Applying /\ Pool = p)
      BY <1>2, <2>2 DEF SaveFault
    <3>2. PoolInv(p)
      BY <1>2, <2>2 DEF Faultless
    <3>3. pending[p] = NoId \/ At(chain, pending[p]).type = "swap"
      BY <3>1, <3>2 DEF PoolInv, Half, Applying
    <3>4. db[p].net = NetAt(chain, p, db[p].height)
      BY <3>2, <3>3, HoldsExact DEF PoolInv
    <3>5. db[p].height \in Nat
      BY DEF Typed, TypeOK
    <3>6. NetAt(chain, p, db[p].height) = NetAt(chain, p, s.height)
      BY <1>1, <3>1, <3>5, QuietBetween DEF EventsIn
    <3> QED
      BY <1>3, <3>4, <3>6 DEF SnapOf, NetAt
  <2> QED
    BY <2>1, <2>2
<1>6. Holds(p)' = NetAt(chain, p, s.height)
  BY <1>3, IdFacts DEF Holds, NetAt
<1> QED
  BY <1>1, <1>3, <1>4, <1>5, <1>6 DEF PoolInv, SnapOf

\* The reactor stores a snapshot and checks its height.
LEMMA SaveSnapshotStep == ASSUME Typed, IInv, SaveSnapshot PROVE IInv'
<1>1. /\ chain' = chain /\ UNCHANGED <<finish, next, api>> /\ pc = "save" /\ Standing
      /\ Pool \in Pools /\ Event_ \in Event
  BY EventType DEF SaveSnapshot
<1>2. Save(Pool, snap) /\ SnapOf(Pool, snap) /\ snap \in Snap
  BY <1>1 DEF SaveSnapshot, IInv, SnapInv, Typed, TypeOK
<1>3. \/ snap.height >= next /\ pc' = "event" /\ idx' = idx + 1
      \/ snap.height < next /\ pc' = "swap" /\ idx' = idx /\ Event_.type = "swap"
      \/ snap.height < next /\ pc' = "readLower" /\ idx' = idx /\ Event_.type # "swap"
  BY <1>1, <1>2 DEF SaveSnapshot, Dispatch, SkipEvent, FirstStep, Typed, TypeOK, Snap
<1>4. db'[Pool].height = snap.height /\ snap.height # 0 /\ pending'[Pool] = NoId
  BY <1>1, <1>2 DEF Save, SetPoolState, SnapOf, Typed, TypeOK
<1>5. \A p \in Pools : p # Pool =>
         db'[p] = db[p] /\ pending'[p] = pending[p] /\ fault'[p] = fault[p]
  BY <1>1, <1>2 DEF Save, SetPoolState, Blame, Typed, TypeOK
<1>6. Phase' /\ ApplyInv'
  <2>1. idx' = idx => Event_' = Event_ /\ Pool' = Pool
    BY <1>1 DEF Event_, Pool, Id
  <2> QED
    BY <1>1, <1>3, <1>4, <2>1 DEF Phase, ApplyInv, Applying, Half, Tracked
<1>7. SnapInv'
  BY <1>1, <1>3 DEF IInv, SnapInv, SnapOf
<1>8. UntrackedIsEmpty'
  BY <1>4, <1>5 DEF IInv, UntrackedIsEmpty, Tracked
<1>9. ASSUME NEW p \in Pools, Faultless(p)'
      PROVE  PoolInv(p)'
  <2>1. ASSUME NEW id \in PoolEvents(chain, p), Passed(id)'
        PROVE  Passed(id) \/ (id = Id /\ p = Pool /\ idx' = idx + 1)
    BY <1>1, <1>3, <2>1, PassedByOne
  <2>2. CASE p = Pool
    <3>1. \A id \in PoolEvents(chain, p) :
             Passed(id)' => Passed(id) \/ id[1] <= snap.height
      BY <1>1, <1>2, <1>3, <2>1, EventHere DEF Typed, TypeOK, Snap
    <3> QED
      BY <1>1, <1>2, <1>9, <2>2, <3>1, SavedPool DEF IInv, Faultless
  <2>3. CASE p # Pool
    <3>1. PoolInv(p)
      BY <1>5, <1>9, <2>3 DEF IInv, Faultless, Tracked
    <3>2. \A id \in PoolEvents(chain, p) : Passed(id)' => id[1] <= db[p].height
      BY <2>1, <2>3, <3>1 DEF PoolInv
    <3>3. pending[p] # NoId => At(chain, pending[p]).type = "swap"
      BY <2>3, <3>1 DEF PoolInv
    <3> QED
      BY <1>1, <1>5, <2>3, <3>1, <3>2, <3>3, PoolFrame
  <2> QED
    BY <2>2, <2>3
<1> QED
  BY <1>6, <1>7, <1>8, <1>9 DEF IInv

\* A handler stores a snapshot, whatever the reactor does.
LEMMA ApiSaveStep ==
    ASSUME Typed, IInv, NEW r \in Pools \X Handlers, ApiSave(r) PROVE IInv'
<1> DEFINE q == r[1]
           s == api[r].snap
<1>1. q \in Pools /\ s \in Snap /\ api[r].pc = "save" /\ Save(q, s)
  BY DEF ApiSave, Typed, TypeOK
<1>2. SnapOf(q, s)
  BY <1>1 DEF IInv, SnapInv
<1>3. UNCHANGED <<chain, finish, pc, next, idx, snap, read>>
  BY DEF ApiSave
<1>4. \A x \in Pools \X Handlers : api'[x].pc = "save" => api'[x] = api[x]
  BY DEF ApiSave, ApiTo, Typed, TypeOK
<1> HIDE DEF s, q
<1>5. db'[q].height = s.height /\ s.height # 0 /\ pending'[q] = NoId
  BY <1>1, <1>2 DEF Save, SetPoolState, SnapOf, Typed, TypeOK
<1>6. \A p \in Pools : p # q =>
         db'[p] = db[p] /\ pending'[p] = pending[p] /\ fault'[p] = fault[p]
  BY <1>1 DEF Save, SetPoolState, Blame, Typed, TypeOK
<1>7. Event_' = Event_ /\ Pool' = Pool /\ Id' = Id
  BY <1>3 DEF Event_, Pool, Id
<1>8. Phase'
  BY <1>3, <1>7 DEF IInv, Phase
<1>9. ApplyInv'
  <2>0. pc \in Applying => Tracked(Pool)'
    BY <1>5, <1>6, <1>7, EventType DEF IInv, ApplyInv, Applying, Tracked
  <2>1. SUFFICES ASSUME pc \in Applying, fault'[Pool] = "none"
                 PROVE  Pool # q /\ Pool \in Pools
    BY <1>3, <1>6, <1>7, <2>0 DEF IInv, ApplyInv, Tracked
  <2>2. Pool \in Pools
    BY <2>1, EventType DEF Applying
  <2>3. ASSUME Pool = q
        PROVE  FALSE
    <3>1. fault[q] = "none" /\ SaveFault(q, s) = "none"
      BY <1>1, <2>1, <2>3 DEF Save, Blame, Typed, TypeOK
    <3>2. Tracked(q)
      BY <2>1, <2>3, <3>1 DEF IInv, ApplyInv
    <3> QED
      BY <2>1, <2>3, <3>1, <3>2 DEF SaveFault
  <2> QED
    BY <2>2, <2>3
<1>10. SnapInv'
  BY <1>3, <1>4, <1>7 DEF IInv, SnapInv, SnapOf
<1>11. UntrackedIsEmpty'
  BY <1>5, <1>6 DEF IInv, UntrackedIsEmpty, Tracked
<1>12. ASSUME NEW p \in Pools, Faultless(p)'
       PROVE  PoolInv(p)'
  <2>1. CASE p = q
    BY <1>1, <1>2, <1>3, <1>12, <2>1, SavedPool DEF IInv, Faultless, Passed
  <2>2. CASE p # q
    <3>1. PoolInv(p)
      BY <1>6, <1>12, <2>2 DEF IInv, Faultless, Tracked
    <3>2. \A id \in PoolEvents(chain, p) : Passed(id)' => id[1] <= db[p].height
      BY <1>3, <3>1 DEF PoolInv, Passed
    <3> QED
      BY <1>3, <1>6, <2>2, <3>1, <3>2, PoolFrame DEF PoolInv
  <2> QED
    BY <2>1, <2>2
<1> QED
  BY <1>8, <1>9, <1>10, <1>11, <1>12 DEF IInv

\* A step that applies part of the event touches no pool but the event's.
LEMMA OtherPool ==
    ASSUME Typed, Standing, UNCHANGED <<chain, finish, next>>, idx' \in {idx, idx + 1},
           NEW p \in Pools, p # Pool, PoolInv(p), db'[p] = db[p],
           pending'[p] = pending[p]
    PROVE  PoolInv(p)'
<1>1. \A id \in PoolEvents(chain, p) : Passed(id)' => id[1] <= db[p].height
  BY PassedByOne DEF PoolInv
<1>2. pending[p] # NoId => At(chain, pending[p]).type = "swap"
  BY DEF PoolInv
<1> QED
  BY <1>1, <1>2, PoolFrame

\* The amount an event adds to its lower tick; the upper one gets the opposite.
LEMMA Signs ==
    ASSUME Event_ \in Event, Event_.lower # Event_.upper, Event_.type # "swap"
    PROVE  /\ LowerSign \in {1, -1}
           /\ Contribution(Event_, Event_.lower) = LowerSign
           /\ Contribution(Event_, Event_.upper) = -LowerSign
           /\ \A t : t # Event_.lower /\ t # Event_.upper => Contribution(Event_, t) = 0
BY DEF Contribution, LowerSign, Event

\* The event's contribution is not yet in a tick that it has not reached.
LEMMA NotYet ==
    ASSUME Typed, Standing, PoolInv(Pool), db[Pool].height < next, NEW t \in Ticks,
           pending[Pool] = NoId \/ ~Done(t)
    PROVE  db[Pool].net[t][Id] = 0
<1>1. Id \in Ids /\ Id[1] = next /\ Pool \in Pools
  BY EventHere
<1>2. Id \notin EventsUpTo(chain, Pool, db[Pool].height)
  BY <1>1 DEF EventsUpTo, Typed, TypeOK
<1>3. Holds(Pool)[t][Id] = 0
  BY <1>1, <1>2, IdFacts DEF Holds
<1> QED
  BY <1>3 DEF PoolInv

\* Pool p's net liquidity when the ticks in S have the event's contribution.
HalfNet(p, S) ==
    [t \in Ticks |-> [id \in Ids |->
        IF id \in EventsUpTo(chain, p, db[p].height) \/ (id = Id /\ t \in S)
        THEN Contribution(At(chain, id), t) ELSE 0]]

\* Adding the event's contribution to tick t leaves in the database the state
\* of the replica's height and the event's contribution to t and to S.
LEMMA HalfHolds ==
    ASSUME NEW p \in Pools, NEW t \in Ticks, NEW S, NEW sign,
           chain' = chain, Id' = Id, Id \in Ids, At(chain, Id) = Event_,
           db'[p].height = db[p].height, pending'[p] = Id,
           db[p].net = HalfNet(p, S), sign = Contribution(Event_, t),
           db'[p].net = [db[p].net EXCEPT ![t] = [@ EXCEPT ![Id] = sign]],
           \A u \in Ticks : \/ Done(u)' <=> u \in S \cup {t}
                          \/ Contribution(Event_, u) = 0
    PROVE  db'[p].net = Holds(p)'
<1> DEFINE before == HalfNet(p, S)
           after == db'[p].net
<1>1. \A u \in Ticks : before[u] \in [Ids -> Int]
  <2>1. \A e, u : Contribution(e, u) \in Int
    BY DEF Contribution
  <2> QED
    BY <2>1 DEF HalfNet
<1>2. after = [u \in Ticks |-> IF u = t THEN [before[t] EXCEPT ![Id] = sign]
                              ELSE before[u]]
  BY DEF HalfNet
<1>3. after = [u \in Ticks |-> [id \in Ids |->
                 IF u = t /\ id = Id THEN sign ELSE before[u][id]]]
  BY <1>1, <1>2
<1>4. \A u \in Ticks, id \in Ids : before[u][id] =
         IF id \in EventsUpTo(chain, p, db[p].height) \/ (id = Id /\ u \in S)
         THEN Contribution(At(chain, id), u) ELSE 0
  BY DEF HalfNet
<1>5. Holds(p)' = [u \in Ticks |-> [id \in Ids |->
         IF id \in EventsUpTo(chain, p, db[p].height) \/ (id = Id /\ Done(u)')
         THEN Contribution(At(chain, id), u) ELSE 0]]
  BY DEF Holds
<1> DEFINE held == Holds(p)'
<1> HIDE DEF before, after, held
<1>6. after = held
  <2>1. ASSUME NEW u \in Ticks, NEW id \in Ids
        PROVE  (IF u = t /\ id = Id THEN sign ELSE before[u][id])
                = IF id \in EventsUpTo(chain, p, db[p].height) \/ (id = Id /\ Done(u)')
                  THEN Contribution(At(chain, id), u) ELSE 0
    BY <1>4, <2>1
  <2>2. held = [u \in Ticks |-> [id \in Ids |->
         IF id \in EventsUpTo(chain, p, db[p].height) \/ (id = Id /\ Done(u)')
         THEN Contribution(At(chain, id), u) ELSE 0]]
    BY <1>5 DEF held
  <2> QED
    BY <1>3, <2>1, <2>2
<1> QED
  BY <1>6 DEF after, held

\* Writing a tick adds the event's contribution to it.
LEMMA WrittenNet ==
    ASSUME Typed, Standing, NEW t \in Ticks, NEW sign \in Int,
           SetTickState(t, AddLiquidity(read, sign)),
           read = db[Pool].net[t], db[Pool].net[t][Id] = 0
    PROVE  /\ db'[Pool].height = db[Pool].height /\ db'[Pool].tick = db[Pool].tick
           /\ db'[Pool].net = [db[Pool].net EXCEPT ![t] = [@ EXCEPT ![Id] = sign]]
<1>1. Pool \in Pools /\ Id \in Ids
  BY EventHere
<1>2. db[Pool].net[t] \in [Ids -> Int]
  BY <1>1 DEF Typed, TypeOK, Net
<1>3. AddLiquidity(read, sign) = [db[Pool].net[t] EXCEPT ![Id] = sign]
  BY <1>1, <1>2 DEF AddLiquidity
<1> QED
  BY <1>1, <1>3 DEF SetTickState, Typed, TypeOK, Net

\* Writing a tick leaves the pools' heights.
LEMMA SetTickStateHeight ==
    ASSUME Typed, Pool \in Pools, NEW t \in Ticks, NEW sum,
           SetTickState(t, sum) \/ db' = db
    PROVE  db'[Pool].height = db[Pool].height
<1>1. CASE SetTickState(t, sum)
  BY <1>1 DEF SetTickState, Typed, TypeOK
<1> QED
  BY <1>1

\* The lower tick of a position change is written, which begins it.
LEMMA WriteLowerStep == ASSUME Typed, IInv, WriteLower PROVE IInv'
<1>1. /\ Standing /\ Event_ \in Event /\ Event_.lower # Event_.upper
      /\ Pool \in Pools /\ Id \in Ids /\ Id \in PoolEvents(chain, Pool)
      /\ At(chain, Id) = Event_ /\ Id[1] = next
  BY EventType DEF WriteLower
<1>2. /\ chain' = chain /\ UNCHANGED <<finish, next, idx, snap, api>>
      /\ pc = "writeLower" /\ pc' = "readUpper" /\ Event_.type # "swap"
      /\ pending' = [pending EXCEPT ![Pool] = Id]
  BY DEF WriteLower, WriteTick, IInv, Phase
<1>3. Event_' = Event_ /\ Pool' = Pool /\ Id' = Id
  BY <1>2 DEF Event_, Pool, Id
<1>4. Event_.lower \in Ticks /\ Event_.upper \in Ticks /\ LowerSign \in Int
  BY <1>1, <1>2, Signs DEF Event
<1>5. \/ SetTickState(Event_.lower, AddLiquidity(read, LowerSign)) /\ fault' = fault
      \/ fault' = Blame(Pool, "io") /\ db' = db
  BY DEF WriteLower, WriteTick, SetTickState, WriteFails
<1>6. \A p \in Pools : p # Pool => db'[p] = db[p] /\ pending'[p] = pending[p]
  BY <1>1, <1>2, <1>5 DEF SetTickState, Typed, TypeOK
<1>7. \A p \in Pools : Tracked(p)' <=> Tracked(p)
  <2>1. db'[Pool].height = db[Pool].height
    BY <1>1, <1>4, <1>5, SetTickStateHeight
  <2> QED
    BY <1>6, <2>1 DEF Tracked
<1>8. ASSUME fault'[Pool] = "none"
      PROVE  /\ SetTickState(Event_.lower, AddLiquidity(read, LowerSign))
             /\ fault[Pool] = "none" /\ PoolInv(Pool) /\ Tracked(Pool)
             /\ db[Pool].height < next /\ read = db[Pool].net[Event_.lower]
             /\ pending[Pool] = NoId
  <2>1. SetTickState(Event_.lower, AddLiquidity(read, LowerSign)) /\ fault[Pool] = "none"
    BY <1>1, <1>5, <1>8, FaultsStick DEF Faults
  <2>2. /\ Tracked(Pool) /\ db[Pool].height < next
        /\ read = db[Pool].net[Event_.lower]
    BY <1>2, <2>1 DEF IInv, ApplyInv, Applying
  <2>3. PoolInv(Pool)
    BY <1>1, <2>1, <2>2 DEF IInv, Faultless
  <2>4. pending[Pool] = NoId
    <3>1. pending[Pool] # NoId => pending[Pool] = Id
      BY <1>1, <2>2, <2>3, FirstAfter
    <3> QED
      BY <1>1, <1>2, <2>3, <3>1 DEF PoolInv, Half
  <2> QED
    BY <2>1, <2>2, <2>3, <2>4
<1>9. Phase'
  BY <1>2, <1>3 DEF Phase
<1>10. fault'[Pool] = "none" =>
          /\ db'[Pool].height = db[Pool].height /\ db'[Pool].tick = db[Pool].tick
          /\ db'[Pool].net = [db[Pool].net EXCEPT ![Event_.lower] = [@ EXCEPT ![Id] = LowerSign]]
  BY <1>1, <1>4, <1>8, NotYet, WrittenNet
<1>11. ApplyInv'
  <2>1. Tracked(Pool)'
    BY <1>1, <1>2, <1>3, <1>7 DEF IInv, ApplyInv, Applying
  <2>2. pending'[Pool] = Id
    BY <1>1, <1>2 DEF Typed, TypeOK
  <2> QED
    BY <1>2, <1>3, <1>8, <1>10, <2>1, <2>2 DEF ApplyInv
<1>12. SnapInv'
  BY <1>2 DEF IInv, SnapInv, SnapOf
<1>13. UntrackedIsEmpty'
  <2>1. ASSUME NEW p \in Pools, ~Tracked(p)'
        PROVE  db'[p].net = EmptyNet /\ pending'[p] = NoId
    <3>1. ~Tracked(p)
      BY <1>7, <2>1
    <3>2. p # Pool
      BY <1>2, <3>1 DEF IInv, ApplyInv, Applying
    <3> QED
      BY <1>6, <3>1, <3>2 DEF IInv, UntrackedIsEmpty
  <2> QED
    BY <2>1 DEF UntrackedIsEmpty
<1>14. ASSUME NEW p \in Pools, Faultless(p)'
       PROVE  PoolInv(p)'
  <2>1. CASE p # Pool
    <3>1. fault[p] = "none" /\ Tracked(p)
      BY <1>5, <1>7, <1>14, <2>1, FaultsStick DEF Faultless, Faults
    <3> QED
      BY <1>1, <1>2, <1>6, <2>1, <3>1, OtherPool DEF IInv, Faultless
  <2>2. CASE p = Pool
    <3>0. fault'[Pool] = "none"
      BY <1>14, <2>2 DEF Faultless
    <3>1. PoolInv(Pool) /\ db[Pool].height < next /\ pending[Pool] = NoId
      BY <1>8, <3>0
    <3>2. \A id \in PoolEvents(chain, Pool) :
             id[1] > db[Pool].height => id = Id \/ Before(Id, id)
      BY <1>1, <3>1, FirstAfter
    <3>3. pending'[Pool] = Id /\ Id # NoId /\ Id[1] > db[Pool].height
      BY <1>1, <1>2, <3>1, IdFacts DEF Typed, TypeOK
    <3>4. db'[Pool].net = Holds(Pool)'
      <4>1. db[Pool].net = HalfNet(Pool, {})
        BY <1>1, <3>1, HoldsExact DEF PoolInv, NetAt, HalfNet
      <4>2. Contribution(Event_, Event_.lower) = LowerSign
        BY <1>1, <1>2, Signs
      <4>3. \A u \in Ticks : Done(u)' <=> u \in {} \cup {Event_.lower}
        BY <1>2, <1>3 DEF Done, Half
      <4>4. db'[Pool].height = db[Pool].height
        BY <1>10, <3>0
      <4>5. db'[Pool].net = [db[Pool].net EXCEPT ![Event_.lower] = [@ EXCEPT ![Id] = LowerSign]]
        BY <1>10, <3>0
      <4>6. Pool \in Pools /\ Event_.lower \in Ticks /\ Id \in Ids
            /\ At(chain, Id) = Event_ /\ chain' = chain /\ pending'[Pool] = Id
        BY <1>1, <1>2, <1>4, <3>3
      <4> HIDE DEF Pool, Event_, Id
      <4> QED
        BY <1>3, <4>1, <4>2, <4>3, <4>4, <4>5, <4>6, HalfHolds
    <3>5. \A id \in PoolEvents(chain, Pool) : Passed(id)' => id[1] <= db'[Pool].height
      BY <1>2, <1>10, <3>0, <3>1 DEF PoolInv, Passed
    <3>6. /\ db'[Pool].height \in 1..Len(chain')
          /\ IsTickAt(chain', Pool, db'[Pool].height, db'[Pool].tick)
      BY <1>2, <1>10, <3>0, <3>1 DEF PoolInv
    <3>7. /\ pending'[Pool] \in PoolEvents(chain', Pool)
          /\ pending'[Pool][1] > db'[Pool].height
          /\ At(chain', pending'[Pool]).type # "swap"
          /\ pc' \in Half /\ Id' = pending'[Pool]
          /\ \A id \in PoolEvents(chain', Pool) :
                id[1] > db'[Pool].height => id = pending'[Pool] \/ Before(pending'[Pool], id)
      BY <1>1, <1>2, <1>3, <1>10, <3>0, <3>2, <3>3 DEF Half
    <3> QED
      BY <1>2, <1>3, <2>2, <3>4, <3>5, <3>6, <3>7 DEF PoolInv
  <2> QED
    BY <2>1, <2>2
<1> QED
  BY <1>9, <1>11, <1>12, <1>13, <1>14 DEF IInv

\* The upper tick is written, which leaves only the height to store.
LEMMA WriteUpperStep == ASSUME Typed, IInv, WriteUpper PROVE IInv'
<1>1. /\ Standing /\ Event_ \in Event /\ Event_.lower # Event_.upper
      /\ Pool \in Pools /\ Id \in Ids /\ Id \in PoolEvents(chain, Pool)
      /\ At(chain, Id) = Event_ /\ Id[1] = next
  BY EventType DEF WriteUpper
<1>2. /\ chain' = chain /\ UNCHANGED <<finish, next, idx, snap, api>>
      /\ pc = "writeUpper" /\ pc' = "mark" /\ Event_.type # "swap"
      /\ pending' = [pending EXCEPT ![Pool] = Id]
  BY DEF WriteUpper, WriteTick, IInv, Phase
<1>3. Event_' = Event_ /\ Pool' = Pool /\ Id' = Id
  BY <1>2 DEF Event_, Pool, Id
<1>4. Event_.lower \in Ticks /\ Event_.upper \in Ticks /\ -LowerSign \in Int
  BY <1>1, <1>2, Signs DEF Event
<1>5. \/ SetTickState(Event_.upper, AddLiquidity(read, -LowerSign)) /\ fault' = fault
      \/ fault' = Blame(Pool, "io") /\ db' = db
  BY DEF WriteUpper, WriteTick, SetTickState, WriteFails
<1>6. \A p \in Pools : p # Pool => db'[p] = db[p] /\ pending'[p] = pending[p]
  BY <1>1, <1>2, <1>5 DEF SetTickState, Typed, TypeOK
<1>7. \A p \in Pools : Tracked(p)' <=> Tracked(p)
  <2>1. db'[Pool].height = db[Pool].height
    BY <1>1, <1>4, <1>5, SetTickStateHeight
  <2> QED
    BY <1>6, <2>1 DEF Tracked
<1>8. ASSUME fault'[Pool] = "none"
      PROVE  /\ SetTickState(Event_.upper, AddLiquidity(read, -LowerSign))
             /\ fault[Pool] = "none" /\ PoolInv(Pool) /\ Tracked(Pool)
             /\ db[Pool].height < next /\ read = db[Pool].net[Event_.upper]
             /\ pending[Pool] = Id
  <2>1. SetTickState(Event_.upper, AddLiquidity(read, -LowerSign)) /\ fault[Pool] = "none"
    BY <1>1, <1>5, <1>8, FaultsStick DEF Faults
  <2>2. /\ Tracked(Pool) /\ db[Pool].height < next
        /\ read = db[Pool].net[Event_.upper]
    BY <1>2, <2>1 DEF IInv, ApplyInv, Applying
  <2>3. PoolInv(Pool)
    BY <1>1, <2>1, <2>2 DEF IInv, Faultless
  <2>4. pending[Pool] = Id
    BY <1>2, <2>1 DEF IInv, ApplyInv, Applying, Half
  <2> QED
    BY <2>1, <2>2, <2>3, <2>4
<1>9. Phase'
  BY <1>2, <1>3 DEF Phase
<1>10. fault'[Pool] = "none" =>
          /\ db'[Pool].height = db[Pool].height /\ db'[Pool].tick = db[Pool].tick
          /\ db'[Pool].net = [db[Pool].net EXCEPT ![Event_.upper] = [@ EXCEPT ![Id] = -LowerSign]]
  <2>1. ~Done(Event_.upper)
    BY <1>1, <1>2 DEF Done
  <2> QED
    BY <1>1, <1>4, <1>8, <2>1, NotYet, WrittenNet
<1>11. ApplyInv'
  <2>1. Tracked(Pool)'
    BY <1>1, <1>2, <1>3, <1>7 DEF IInv, ApplyInv, Applying
  <2>2. pending'[Pool] = Id
    BY <1>1, <1>2 DEF Typed, TypeOK
  <2> QED
    BY <1>2, <1>3, <1>8, <1>10, <2>1, <2>2 DEF ApplyInv
<1>12. SnapInv'
  BY <1>2 DEF IInv, SnapInv, SnapOf
<1>13. UntrackedIsEmpty'
  <2>1. ASSUME NEW p \in Pools, ~Tracked(p)'
        PROVE  db'[p].net = EmptyNet /\ pending'[p] = NoId
    <3>1. ~Tracked(p)
      BY <1>7, <2>1
    <3>2. p # Pool
      BY <1>2, <3>1 DEF IInv, ApplyInv, Applying
    <3> QED
      BY <1>6, <3>1, <3>2 DEF IInv, UntrackedIsEmpty
  <2> QED
    BY <2>1 DEF UntrackedIsEmpty
<1>14. ASSUME NEW p \in Pools, Faultless(p)'
       PROVE  PoolInv(p)'
  <2>1. CASE p # Pool
    <3>1. fault[p] = "none" /\ Tracked(p)
      BY <1>5, <1>7, <1>14, <2>1, FaultsStick DEF Faultless, Faults
    <3> QED
      BY <1>1, <1>2, <1>6, <2>1, <3>1, OtherPool DEF IInv, Faultless
  <2>2. CASE p = Pool
    <3>0. fault'[Pool] = "none"
      BY <1>14, <2>2 DEF Faultless
    <3>1. PoolInv(Pool) /\ db[Pool].height < next /\ pending[Pool] = Id
      BY <1>8, <3>0
    <3>2. \A id \in PoolEvents(chain, Pool) :
             id[1] > db[Pool].height => id = Id \/ Before(Id, id)
      BY <1>1, <3>1, FirstAfter
    <3>3. pending'[Pool] = Id /\ Id # NoId /\ Id[1] > db[Pool].height
      BY <1>1, <1>2, <3>1, IdFacts DEF Typed, TypeOK
    <3>4. db'[Pool].net = Holds(Pool)'
      <4>1. db[Pool].net = HalfNet(Pool, {Event_.lower})
        BY <1>1, <1>2, <3>1 DEF PoolInv, Holds, HalfNet, Done, Half
      <4>2. Contribution(Event_, Event_.upper) = -LowerSign
        BY <1>1, <1>2, Signs
      <4>3. \A u \in Ticks : \/ Done(u)' <=> u \in {Event_.lower} \cup {Event_.upper}
                           \/ Contribution(Event_, u) = 0
        BY <1>1, <1>2, Signs DEF Done
      <4>4. db'[Pool].height = db[Pool].height
        BY <1>10, <3>0
      <4>5. db'[Pool].net = [db[Pool].net EXCEPT ![Event_.upper] = [@ EXCEPT ![Id] = -LowerSign]]
        BY <1>10, <3>0
      <4>6. Pool \in Pools /\ Event_.upper \in Ticks /\ Id \in Ids
            /\ At(chain, Id) = Event_ /\ chain' = chain /\ pending'[Pool] = Id
        BY <1>1, <1>2, <1>4, <3>3
      <4> DEFINE S == {Event_.lower}
                 sign == -LowerSign
                 t == Event_.upper
      <4>7. /\ db[Pool].net = HalfNet(Pool, S) /\ sign = Contribution(Event_, t)
            /\ db'[Pool].net = [db[Pool].net EXCEPT ![t] = [@ EXCEPT ![Id] = sign]]
            /\ \A u \in Ticks : (Done(u)' <=> u \in S \cup {t}) \/ Contribution(Event_, u) = 0
            /\ t \in Ticks
        BY <4>1, <4>2, <4>3, <4>5, <4>6
      <4> HIDE DEF Pool, Event_, Id, S, sign, t
      <4> QED
        BY <1>3, <4>4, <4>6, <4>7, HalfHolds
    <3>5. \A id \in PoolEvents(chain, Pool) : Passed(id)' => id[1] <= db'[Pool].height
      BY <1>2, <1>10, <3>0, <3>1 DEF PoolInv, Passed
    <3>6. /\ db'[Pool].height \in 1..Len(chain')
          /\ IsTickAt(chain', Pool, db'[Pool].height, db'[Pool].tick)
      BY <1>1, <1>2, <1>10, <3>0, <3>1 DEF PoolInv
    <3>7. /\ pending'[Pool] \in PoolEvents(chain', Pool)
          /\ pending'[Pool][1] > db'[Pool].height
          /\ At(chain', pending'[Pool]).type # "swap"
          /\ pc' \in Half /\ Id' = pending'[Pool]
          /\ \A id \in PoolEvents(chain', Pool) :
                id[1] > db'[Pool].height => id = pending'[Pool] \/ Before(pending'[Pool], id)
      BY <1>1, <1>2, <1>3, <1>10, <3>0, <3>2, <3>3 DEF Half
    <3> QED
      BY <1>2, <1>3, <2>2, <3>4, <3>5, <3>6, <3>7 DEF PoolInv
  <2> QED
    BY <2>1, <2>2
<1> QED
  BY <1>9, <1>11, <1>12, <1>13, <1>14 DEF IInv

\* A swap's tick is written.
LEMMA ReactSwapStep == ASSUME Typed, IInv, ReactSwap PROVE IInv'
<1>1. /\ Standing /\ Event_ \in Event
      /\ Pool \in Pools /\ Id \in Ids /\ Id \in PoolEvents(chain, Pool)
      /\ At(chain, Id) = Event_ /\ Id[1] = next
  BY EventType DEF ReactSwap
<1>2. /\ chain' = chain /\ UNCHANGED <<finish, next, idx, snap, api>>
      /\ pc = "swap" /\ pc' = "mark" /\ Event_.type = "swap"
      /\ pending' = [pending EXCEPT ![Pool] = Id]
  BY DEF ReactSwap, IInv, Phase
<1>3. Event_' = Event_ /\ Pool' = Pool /\ Id' = Id
  BY <1>2 DEF Event_, Pool, Id
<1>4. \/ db' = [db EXCEPT ![Pool].tick = Id] /\ fault' = fault
      \/ fault' = Blame(Pool, "io") /\ db' = db
  BY DEF ReactSwap, SetCurrentTick, WriteFails
<1>5. /\ \A p \in Pools : p # Pool => db'[p] = db[p] /\ pending'[p] = pending[p]
      /\ db'[Pool].height = db[Pool].height /\ db'[Pool].net = db[Pool].net
      /\ pending'[Pool] = Id
  BY <1>1, <1>2, <1>4 DEF Typed, TypeOK
<1>6. \A p \in Pools : Tracked(p)' <=> Tracked(p)
  BY <1>5 DEF Tracked
<1>7. ASSUME fault'[Pool] = "none"
      PROVE  /\ db'[Pool].tick = Id /\ fault[Pool] = "none"
             /\ Tracked(Pool) /\ db[Pool].height < next /\ PoolInv(Pool)
             /\ pending[Pool] = NoId \/ pending[Pool] = Id
  <2>1. fault[Pool] = "none" /\ db' = [db EXCEPT ![Pool].tick = Id]
    BY <1>1, <1>4, <1>7, FaultsStick DEF Faults
  <2>2. Tracked(Pool) /\ db[Pool].height < next
    BY <1>2, <2>1 DEF IInv, ApplyInv, Applying
  <2>3. PoolInv(Pool)
    BY <1>1, <2>1, <2>2 DEF IInv, Faultless
  <2>4. pending[Pool] # NoId => pending[Pool] = Id
    BY <1>1, <2>2, <2>3, FirstAfter
  <2>5. db'[Pool].tick = Id
    BY <1>1, <2>1 DEF Typed, TypeOK
  <2> QED
    BY <2>1, <2>2, <2>3, <2>4, <2>5
<1>8. Phase'
  BY <1>2, <1>3 DEF Phase
<1>9. ApplyInv'
  <2>1. Tracked(Pool)'
    BY <1>1, <1>2, <1>3, <1>6 DEF IInv, ApplyInv, Applying
  <2> QED
    BY <1>2, <1>3, <1>5, <1>7, <2>1 DEF ApplyInv
<1>10. SnapInv'
  BY <1>2 DEF IInv, SnapInv, SnapOf
<1>11. UntrackedIsEmpty'
  <2>1. Tracked(Pool)
    BY <1>2 DEF IInv, ApplyInv, Applying
  <2> QED
    BY <1>5, <1>6, <2>1 DEF IInv, UntrackedIsEmpty
<1>12. ASSUME NEW p \in Pools, Faultless(p)'
       PROVE  PoolInv(p)'
  <2>1. CASE p # Pool
    <3>1. fault[p] = "none" /\ Tracked(p)
      BY <1>4, <1>6, <1>12, <2>1, FaultsStick DEF Faultless, Faults
    <3> QED
      BY <1>1, <1>2, <1>5, <2>1, <3>1, OtherPool DEF IInv, Faultless
  <2>2. CASE p = Pool
    <3>0. fault'[Pool] = "none"
      BY <1>12, <2>2 DEF Faultless
    <3>1. /\ PoolInv(Pool) /\ db[Pool].height < next /\ db'[Pool].tick = Id
          /\ pending[Pool] = NoId \/ pending[Pool] = Id
      BY <1>7, <3>0
    <3>2. \A id \in PoolEvents(chain, Pool) :
             id[1] > db[Pool].height => id = Id \/ Before(Id, id)
      BY <1>1, <3>1, FirstAfter
    <3>3. pending'[Pool] = Id /\ Id # NoId /\ Id[1] > db[Pool].height
      BY <1>1, <1>5, <3>1, IdFacts DEF Typed, TypeOK
    <3>4. db'[Pool].net = Holds(Pool)'
      <4>1. db[Pool].net = NetAt(chain, Pool, db[Pool].height)
        BY <1>1, <1>2, <3>1, HoldsExact DEF PoolInv
      <4>2. \A e, t : e.type = "swap" => Contribution(e, t) = 0
        BY DEF Contribution
      <4>3. Holds(Pool)' = NetAt(chain, Pool, db[Pool].height)
        BY <1>1, <1>2, <1>3, <1>5, <4>2 DEF Holds, NetAt
      <4> QED
        BY <1>5, <4>1, <4>3
    <3>5. \A id \in PoolEvents(chain, Pool) : Passed(id)' => id[1] <= db'[Pool].height
      BY <1>2, <1>5, <3>1 DEF PoolInv, Passed
    <3>6. db'[Pool].height \in 1..Len(chain')
      BY <1>2, <1>5, <3>1 DEF PoolInv
    <3>7. /\ pending'[Pool] \in PoolEvents(chain', Pool)
          /\ pending'[Pool][1] > db'[Pool].height
          /\ At(chain', pending'[Pool]).type = "swap"
          /\ db'[Pool].tick = pending'[Pool]
          /\ \A id \in PoolEvents(chain', Pool) :
                id[1] > db'[Pool].height => id = pending'[Pool] \/ Before(pending'[Pool], id)
      BY <1>1, <1>2, <1>5, <3>1, <3>2, <3>3
    <3>8. PoolInv(Pool)'
      <4> DEFINE q == Pool
      <4>1. Pool' = q
        BY <1>3
      <4> HIDE DEF Pool
      <4> QED
        BY <1>2, <3>3, <3>4, <3>5, <3>6, <3>7, <4>1 DEF PoolInv
    <3> QED
      BY <1>3, <2>2, <3>8
  <2> QED
    BY <2>1, <2>2
<1> QED
  BY <1>8, <1>9, <1>10, <1>11, <1>12 DEF IInv

\* Where the event is the pool's only one between its replica's height and the
\* block it is in, inclusive, it is all that the block adds to the pool.
LEMMA OneMore ==
    ASSUME Typed, Standing, PoolInv(Pool), db[Pool].height < next,
           \A j \in idx+1..Len(chain[next]) : chain[next][j].pool # Pool
    PROVE  /\ EventsUpTo(chain, Pool, next)
                 = EventsUpTo(chain, Pool, db[Pool].height) \cup {Id}
           /\ Id \notin EventsUpTo(chain, Pool, db[Pool].height)
<1>1. /\ Id \in PoolEvents(chain, Pool) /\ Id[1] = next /\ Id[2] = idx
      /\ chain \in Seq(Blocks) /\ db[Pool].height \in Nat /\ next \in Nat /\ idx \in Nat
  BY EventHere DEF Typed, TypeOK
<1>2. ASSUME NEW id \in PoolEvents(chain, Pool), id[1] <= next, ~(id[1] <= db[Pool].height)
      PROVE  id = Id
  <2>1. /\ id[1] \in Nat /\ id[2] \in 1..Len(chain[id[1]])
        /\ chain[id[1]][id[2]].pool = Pool
    BY <1>1, PoolEventType
  <2>2. id = Id \/ Before(Id, id)
    BY <1>1, <1>2, <2>1, FirstAfter
  <2>3. ASSUME Before(Id, id)
        PROVE  FALSE
    <3>1. id[1] = next /\ id[2] > idx
      BY <1>1, <1>2, <2>1, <2>3 DEF Before
    <3>2. id[2] \in idx+1..Len(chain[next])
      BY <1>1, <2>1, <3>1
    <3> QED
      BY <2>1, <3>1, <3>2
  <2> QED
    BY <2>2, <2>3
<1>3. \A id \in PoolEvents(chain, Pool) :
         id[1] <= next <=> (id[1] <= db[Pool].height \/ id = Id)
  <2> SUFFICES ASSUME NEW id \in PoolEvents(chain, Pool)
               PROVE  id[1] <= next <=> (id[1] <= db[Pool].height \/ id = Id)
    OBVIOUS
  <2>1. id[1] \in Nat
    BY <1>1, PoolEventType
  <2> QED
    BY <1>1, <1>2, <2>1
<1>4. ~(Id[1] <= db[Pool].height)
  BY <1>1
<1> HIDE DEF Pool, Id
<1> QED
  BY <1>1, <1>3, <1>4 DEF EventsUpTo

\* The height is stored: the event is in the replica, and it is the only one
\* of its pool in the block or the pool is blamed.
LEMMA MarkStep == ASSUME Typed, IInv, Mark PROVE IInv'
<1>1. /\ Standing /\ Event_ \in Event
      /\ Pool \in Pools /\ Id \in Ids /\ Id \in PoolEvents(chain, Pool)
      /\ At(chain, Id) = Event_ /\ Id[1] = next /\ next \in 1..Len(chain)
  BY EventType DEF Mark, Standing
<1>2. /\ chain' = chain /\ UNCHANGED <<finish, next, snap, api>> /\ pc = "mark"
      /\ pc' = "event" /\ idx' = idx + 1
      /\ pending' = [pending EXCEPT ![Pool] = NoId]
  BY DEF Mark, SkipEvent
<1>3. \/ /\ db' = [db EXCEPT ![Pool].height = next]
         /\ \/ fault' = fault
               /\ \A j \in idx+1..Len(chain[next]) : chain[next][j].pool # Pool
            \/ fault' = Blame(Pool, "repeat")
      \/ fault' = Blame(Pool, "io") /\ db' = db
  BY DEF Mark, SetHeight, WriteFails
<1>4. /\ \A p \in Pools : p # Pool => db'[p] = db[p] /\ pending'[p] = pending[p]
      /\ pending'[Pool] = NoId
  BY <1>1, <1>2, <1>3 DEF Typed, TypeOK
<1>5. Tracked(Pool) /\ db'[Pool].height # 0
  <2>1. Tracked(Pool) /\ next # 0
    BY <1>1, <1>2 DEF IInv, ApplyInv, Applying
  <2> QED
    BY <1>1, <1>3, <2>1 DEF Tracked, Typed, TypeOK
<1>6. Phase' /\ ApplyInv'
  BY <1>2 DEF Phase, ApplyInv, Applying
<1>7. SnapInv'
  BY <1>2 DEF IInv, SnapInv, SnapOf
<1>8. UntrackedIsEmpty'
  BY <1>4, <1>5 DEF IInv, UntrackedIsEmpty, Tracked
<1>9. ASSUME NEW p \in Pools, Faultless(p)', p # Pool
      PROVE  PoolInv(p)'
  <2>1. fault[p] = "none" /\ Tracked(p)
    BY <1>3, <1>4, <1>9, FaultsStick DEF Faultless, Faults, Tracked
  <2> QED
    BY <1>1, <1>2, <1>4, <1>9, <2>1, OtherPool DEF IInv, Faultless
<1>10. ASSUME fault'[Pool] = "none"
       PROVE  \A q : q = Pool => PoolInv(q)'
  <2> DEFINE h == db[Pool].height
  <2>1. /\ fault[Pool] = "none" /\ db' = [db EXCEPT ![Pool].height = next]
        /\ \A j \in idx+1..Len(chain[next]) : chain[next][j].pool # Pool
    BY <1>1, <1>3, <1>10, FaultsStick DEF Faults
  <2>2. h < next /\ PoolInv(Pool) /\ pending[Pool] = Id /\ h \in Nat
    BY <1>1, <1>2, <1>5, <2>1
       DEF IInv, ApplyInv, Applying, Half, Faultless, Typed, TypeOK
  <2>3. /\ EventsUpTo(chain, Pool, next) = EventsUpTo(chain, Pool, h) \cup {Id}
        /\ Id \notin EventsUpTo(chain, Pool, h)
    BY <1>1, <2>1, <2>2, OneMore
  <2>4. /\ db'[Pool].height = next /\ db'[Pool].net = db[Pool].net
        /\ db'[Pool].tick = db[Pool].tick
    BY <1>1, <2>1 DEF Typed, TypeOK
  <2>5. db[Pool].net = NetAt(chain, Pool, next)
    BY <1>1, <1>2, <2>2, <2>3 DEF PoolInv, Holds, NetAt, Done
  <2>6. IsTickAt(chain, Pool, next, db[Pool].tick)
    <3>1. CASE Event_.type = "swap"
      <4>1. db[Pool].tick = Id
        BY <1>1, <2>2, <3>1, IdFacts DEF PoolInv
      <4>2. Id \in SwapsAt(chain, Pool, next)
        BY <1>1, <2>3, <3>1 DEF SwapsAt
      <4>3. ASSUME NEW y \in SwapsAt(chain, Pool, next)
            PROVE  y = Id \/ Before(y, Id)
        <5>1. y = Id \/ y \in EventsUpTo(chain, Pool, h)
          BY <2>3 DEF SwapsAt
        <5>2. CASE y \in EventsUpTo(chain, Pool, h)
          <6>1. y \in PoolEvents(chain, Pool) /\ y[1] <= h
            BY <5>2 DEF EventsUpTo
          <6>2. y[1] \in Nat /\ next \in Nat
            BY <1>1, <6>1, PoolEventType DEF Typed, TypeOK
          <6> QED
            BY <1>1, <2>2, <6>1, <6>2 DEF Before
        <5> QED
          BY <5>1, <5>2
      <4> QED
        BY <4>1, <4>2, <4>3 DEF IsTickAt
    <3>2. CASE Event_.type # "swap"
      <4>1. IsTickAt(chain, Pool, h, db[Pool].tick)
        BY <1>1, <2>2, <3>2 DEF PoolInv
      <4>2. SwapsAt(chain, Pool, next) = SwapsAt(chain, Pool, h)
        BY <1>1, <2>3, <3>2 DEF SwapsAt
      <4> QED
        BY <4>1, <4>2 DEF IsTickAt
    <3> QED
      BY <3>1, <3>2
  <2>8. ASSUME NEW id \in PoolEvents(chain, Pool), Passed(id)'
        PROVE  id[1] <= next
    <3>1. id[1] \in Nat
      BY PoolEventType DEF Typed, TypeOK
    <3>2. id[1] <= finish => id[1] <= h
      BY <2>2, PoolEventType DEF PoolInv, Passed
    <3> QED
      BY <1>1, <1>2, <2>2, <2>8, <3>1, <3>2 DEF Passed, Typed, TypeOK
  <2> SUFFICES ASSUME NEW q, q = Pool
               PROVE  PoolInv(q)'
    OBVIOUS
  <2>9. Holds(q)' = NetAt(chain, q, next)
    BY <1>2, <1>4, <2>4, IdFacts DEF Holds, NetAt
  <2> HIDE DEF Pool, h
  <2> QED
    BY <1>1, <1>2, <1>4, <2>4, <2>5, <2>6, <2>8, <2>9 DEF PoolInv
<1> QED
  BY <1>6, <1>7, <1>8, <1>9, <1>10 DEF IInv, Faultless

-----------------------------------------------------------------------------
(* The invariant of every behaviour. *)

\* The invariant holds in the beginning.
LEMMA InvInit == Init => IInv
<1> SUFFICES ASSUME Init PROVE IInv
  OBVIOUS
<1>1. pc = "boot" /\ \A r \in Pools \X Handlers : api[r].pc = "idle"
  BY DEF Init
<1>2. \A p \in Pools : /\ db[p].height = 0 /\ db[p].net = EmptyNet
                      /\ pending[p] = NoId
  BY DEF Init
<1> QED
  BY <1>1, <1>2
     DEF IInv, Phase, SnapInv, ApplyInv, Applying, UntrackedIsEmpty, Faultless, Tracked

\* Every step keeps it.
LEMMA InvStep == Typed /\ IInv /\ [Next]_vars => IInv'
<1> SUFFICES ASSUME Typed, IInv, [Next]_vars PROVE IInv'
  OBVIOUS
<1>1. ASSUME NEW p \in Pools, ListPair(p) \/ DelistPair(p) \/ ExpirePair(p)
      PROVE  IInv'
  <2>1. Kept /\ UNCHANGED <<fault, next, idx, read, pc, snap, api>>
    BY <1>1 DEF ListPair, DelistPair, ExpirePair, Kept
  <2>2. SnapInv'
    BY <2>1 DEF Kept, IInv, SnapInv, SnapOf, Pool, Event_, Id
  <2> QED
    BY <2>1, <2>2, LocalStep
<1>2. CASE PairFound
  <2>1. Kept /\ UNCHANGED <<fault, next, idx, read, snap, api>>
        /\ pc = "pair" /\ pc' = "load"
    BY <1>2 DEF PairFound, Kept
  <2>2. SnapInv'
    BY <2>1 DEF Kept, IInv, SnapInv, SnapOf
  <2> QED
    BY <2>1, <2>2, LocalStep DEF Applying
<1>3. CASE AwaitHead \/ UNCHANGED vars
  <2>1. Kept /\ UNCHANGED <<fault, next, idx, read, pc, snap, api>>
    BY <1>3 DEF AwaitHead, Kept
  <2>2. SnapInv'
    BY <2>1 DEF Kept, IInv, SnapInv, SnapOf, Pool, Event_, Id
  <2> QED
    BY <2>1, <2>2, LocalStep
<1>4. ASSUME NEW r \in Pools \X Handlers,
             ApiRequest(r) \/ ApiLoad(r) \/ ApiCall(r) \/ ApiFail(r)
      PROVE  IInv'
  <2>1. Kept /\ UNCHANGED <<fault, next, idx, read, pc, snap>>
    BY <1>4 DEF ApiRequest, ApiLoad, ApiCall, ApiFail, Kept
  <2>2. PICK step, s :
          /\ step \in {"idle", "load", "call", "save"}
          /\ ApiTo(r, step, s)
          /\ step = "save" => SnapOf(r[1], s)
    <3>1. CASE ApiCall(r)
      <4>1. PICK s \in Snapshots(r[1]) : ApiTo(r, "save", s)
        BY <3>1 DEF ApiCall
      <4> QED
        BY <4>1, SnapshotType DEF Typed
    <3> QED
      BY <1>4, <3>1 DEF ApiRequest, ApiLoad, ApiFail
  <2>3. \A x \in Pools \X Handlers : api'[x].pc = "save" => SnapOf(x[1], api'[x].snap)
    BY <2>2 DEF ApiTo, IInv, SnapInv, Typed, TypeOK
  <2>4. \A x \in Pools \X Handlers : api'[x].pc = "save" => SnapOf(x[1], api[x].snap)'
    BY <2>1, <2>3 DEF Kept, SnapOf
  <2>5. SnapInv'
    BY <2>1, <2>4 DEF Kept, IInv, SnapInv, SnapOf, Pool, Event_, Id
  <2> QED
    BY <2>1, <2>5, LocalStep
<1> QED
  BY <1>1, <1>2, <1>3, <1>4, NewBlockStep, BootStep, GetHeightStep, LoadStoredStep,
     CallLensStep, PairMissingStep, FinishBlockStep, CrashStep, ReadStep,
     SaveSnapshotStep, ApiSaveStep, WriteLowerStep, WriteUpperStep, ReactSwapStep,
     MarkStep
  DEF Next, Reactor, Api

\* The inductive invariant of the indexer.
THEOREM Invariance == Spec => [](Typed /\ IInv)
BY TypedInit, TypedStep, InvInit, InvStep, PTL DEF Spec

\* Between two events a replica without a fault is the chain's state of its
\* pool at its height.
THEOREM ReplicasAreExact == Spec => []ReplicaExact
<1>1. Typed /\ IInv => ReplicaExact
  BY HoldsExact DEF IInv, PoolInv, ReplicaExact, Exact
<1> QED
  BY <1>1, Invariance, PTL

\* The replica's height covers every event of its pool the reactor is past.
THEOREM NothingIsLost == Spec => []NothingLost
<1>1. Typed /\ IInv => NothingLost
  BY DEF IInv, PoolInv, NothingLost
<1> QED
  BY <1>1, Invariance, PTL

-----------------------------------------------------------------------------
(* The reactor implements OrderedFeed. *)

feed == <<Len(chain), finish, Life, next, Promised>>

\* A step that leaves chain, finish height and next alone, and does not start or
\* end the process, is none of OrderedFeed.
LEMMA FeedStutter ==
    ASSUME UNCHANGED <<chain, finish, next>>, pc = "boot" <=> pc' = "boot"
    PROVE  UNCHANGED feed
BY DEF feed, Life, Promised

\* Every step of the reactor is a step of OrderedFeed, or none.
LEMMA FeedStep == Typed /\ [Next]_vars => [Feed!Next]_feed
<1> SUFFICES ASSUME Typed, [Next]_vars
             PROVE  [Feed!Next]_feed
  OBVIOUS
<1> USE DEF Typed, TypeOK
<1>1. CASE NewBlock
  <2>1. PICK b \in Blocks : chain' = Append(chain, b)
    BY <1>1 DEF NewBlock
  <2>2. Len(chain') = Len(chain) + 1
    BY <2>1
  <2>3. Feed!Announce
    BY <1>1, <2>2 DEF NewBlock, Feed!Announce, Life, Promised, local
  <2> QED
    BY <2>3 DEF Feed!Next
<1>2. ASSUME NEW f \in FromHeights, Boot(f)
      PROVE  Feed!Start
  <2>1. next' \in (FromHeights \ {0}) \cup {Feed!First}
    BY <1>2 DEF Boot, FromHeight, Feed!First
  <2>2. Len(chain) \in Nat /\ next' \in Nat
    BY <2>1, ReactorAssumption DEF Feed!First
  <2> QED
    BY <1>2, <2>1, <2>2 DEF Boot, Feed!Start, Life, Promised, shared
<1>3. CASE FinishBlock
  BY <1>3 DEF FinishBlock, Feed!Feed, Feed!Next, Life, Promised
<1>4. CASE Crash
  BY <1>4 DEF Crash, Feed!Exit, Feed!Next, Life, Promised
<1>5. ASSUME NEW p \in Pools, ListPair(p) \/ DelistPair(p) \/ ExpirePair(p)
      PROVE  UNCHANGED feed
  BY <1>5, FeedStutter DEF ListPair, DelistPair, ExpirePair, local
<1>6. CASE GetHeight \/ PairFound \/ PairMissing \/ LoadStored \/ CallLens \/ SaveSnapshot
  <2>1. UNCHANGED <<chain, finish, next>> /\ pc # "boot" /\ pc' # "boot"
    BY <1>6 DEF GetHeight, PairFound, PairMissing, LoadStored, CallLens, SaveSnapshot,
       Dispatch, SkipEvent, FirstStep, FindPair, shared, local
  <2> QED
    BY <2>1, FeedStutter
<1>7. CASE ReadLower \/ WriteLower \/ ReadUpper \/ WriteUpper \/ ReactSwap \/ Mark
  <2>1. UNCHANGED <<chain, finish, next>> /\ pc # "boot" /\ pc' # "boot"
    BY <1>7 DEF ReadLower, WriteLower, ReadUpper, WriteUpper, ReactSwap, Mark,
       ReadTick, WriteTick, SkipEvent, shared, local
  <2> QED
    BY <2>1, FeedStutter
<1>8. ASSUME NEW r \in Pools \X Handlers, Api(r)
      PROVE  UNCHANGED feed
  BY <1>8, FeedStutter
  DEF Api, ApiRequest, ApiLoad, ApiCall, ApiSave, ApiFail, FindPair, shared, local
<1>9. CASE AwaitHead \/ UNCHANGED vars
  BY <1>9, FeedStutter DEF AwaitHead, vars, shared, local
<1> QED
  BY <1>1, <1>2, <1>3, <1>4, <1>5, <1>6, <1>7, <1>8, <1>9 DEF Next, Reactor, Feed!Next

\* The heights the reactor takes, in this life and after a crash, are those that
\* an ordered feed gives: one after the other, from the one after the last one
\* finished or the configured one.
THEOREM ReactorIsFed == Spec => FedInOrder
<1>1. Init => Feed!Init
  BY DEF Init, Feed!Init, Life, Promised
<1>2. Spec => Feed!Init /\ [][Feed!Next]_feed
  BY <1>1, TypedInit, TypedStep, FeedStep, PTL DEF Spec
<1> QED
  BY <1>2 DEF FedInOrder, Feed!Spec, feed

\* A partly applied event is the first one the replica does not have.
THEOREM ReplayStartsRight == Spec => []PendingIsNext
<1>1. Typed /\ IInv => PendingIsNext
  BY DEF IInv, PoolInv, PendingIsNext
<1> QED
  BY <1>1, Invariance, PTL

\* An untracked pool has nothing stored.
THEOREM UntrackedStaysEmpty == Spec => []UntrackedIsEmpty
<1>1. Typed /\ IInv => UntrackedIsEmpty
  BY DEF IInv
<1> QED
  BY <1>1, Invariance, PTL
=============================================================================
