------------------------ MODULE PoolReplicaProofs ------------------------
(***************************************************************************)
(* The reactor, the API handlers and the crashes keep of each pool a       *)
(* replica as PoolReplica allows it.                                       *)
(*                                                                         *)
(* A replica's height changes in two places only.  SetPoolState loads the  *)
(* pool, from nothing or, without a fault, over no event; SetHeight        *)
(* advances it to its next event, by what the reactor's invariant says of  *)
(* the first event after its height.  All other steps leave the heights    *)
(* and may lose replicas for good.                                         *)
(***************************************************************************)
EXTENDS EventReactorProofs

USE DEF shared, local, vars

\* Faults are for good.
Sticking == \A p \in Pools : fault[p] # "none" => fault'[p] # "none"

\* PoolReplica speaks of the same events.
LEMMA SameNames ==
    /\ \A p : Replica!PoolEvents(chain, p) = PoolEvents(chain, p)
    /\ Gone = -1
BY DEF Replica!PoolEvents, PoolEvents, Replica!Ids, Ids, Replica!At, At, Gone

\* A step that changes the height of no replica that stays faultless loses
\* some, or none.
LEMMA Loses ==
    ASSUME Sticking,
           \A p \in Pools : fault'[p] = "none" => db'[p].height = db[p].height
    PROVE  \E S \in SUBSET Pools : view' = Replica!Lose(S)
<1> DEFINE S == {p \in Pools : fault'[p] # "none"}
<1>1. \A p \in Pools : (IF fault'[p] # "none" THEN Gone' ELSE db'[p].height) =
                         IF p \in S THEN Gone ELSE view[p]
  BY DEF Sticking, view, Gone
<1>2. view' = Replica!Lose(S)
  BY <1>1 DEF view, Replica!Lose
<1> QED
  BY <1>2

\* Blaming sticks.
LEMMA BlameSticks ==
    ASSUME Typed, NEW q, NEW why \in Faults, fault' = Blame(q, why)
    PROVE  Sticking
BY DEF Blame, Sticking, Typed, TypeOK

\* Such a step with the chain as it was.
LEMMA Diverges ==
    ASSUME Sticking, UNCHANGED chain,
           \A p \in Pools : fault'[p] = "none" => db'[p].height = db[p].height
    PROVE  Replica!Next
BY Loses DEF Replica!Next, Replica!Diverge

\* A snapshot that is stored loads the pool, or the replica is lost.
LEMMA Loads ==
    ASSUME Typed, IInv, NEW p \in Pools, NEW s \in Snap, SnapOf(p, s), Save(p, s), UNCHANGED chain
    PROVE  Replica!Next
<1>1. /\ \A q \in Pools \ {p} : db'[q] = db[q] /\ fault'[q] = fault[q]
      /\ db'[p].height = s.height
      /\ fault' = Blame(p, SaveFault(p, s))
  BY DEF Save, SetPoolState, Blame, Typed, TypeOK
<1>2. SaveFault(p, s) \in Faults
  BY DEF SaveFault, Faults
<1>3. Sticking
  BY <1>1, <1>2, BlameSticks
<1>4. CASE fault'[p] # "none"
  BY <1>1, <1>3, <1>4, Diverges
<1>5. CASE fault'[p] = "none"
  <2>1. fault[p] = "none" /\ SaveFault(p, s) = "none"
    BY <1>1, <1>2, <1>5 DEF Blame, Typed, TypeOK
  <2>2. view[p] = db[p].height /\ view[p] # Gone /\ s.height \in 1..Len(chain)
    BY <2>1 DEF view, Gone, Typed, TypeOK, SnapOf
  <2>3. view[p] = 0 \/ Replica!Quiet(p, view[p], s.height)
    <3>1. CASE ~Tracked(p)
      BY <2>2, <3>1 DEF Tracked
    <3>2. CASE Tracked(p)
      <4>1. ~EventsIn(p, s.height, db[p].height) /\ ~EventsIn(p, db[p].height, s.height)
        BY <2>1, <3>2 DEF SaveFault
      <4> QED
        BY <2>2, <4>1, SameNames DEF EventsIn, Replica!Quiet
    <3> QED
      BY <3>1, <3>2
  <2>4. view' = [view EXCEPT ![p] = s.height]
    <3>1. \A q \in Pools : (IF fault'[q] # "none" THEN Gone' ELSE db'[q].height) =
                             IF q = p THEN s.height ELSE view[q]
      BY <1>1, <1>5 DEF view, Gone
    <3> QED
      BY <3>1 DEF view
  <2>5. Replica!Load(p)
    BY <2>2, <2>3, <2>4 DEF Replica!Load
  <2> QED
    BY <2>5 DEF Replica!Next
<1> QED
  BY <1>4, <1>5

\* SetHeight advances the replica to the event that was applied.
LEMMA Advances ==
    ASSUME Typed, IInv, Mark
    PROVE  Replica!Next
<1>1. pc = "mark" /\ Standing /\ Pool \in Pools /\ Id \in PoolEvents(chain, Pool) /\ Id[1] = next
  BY EventType DEF Mark
<1>2. Tracked(Pool) /\ (fault[Pool] = "none" => db[Pool].height < next)
  BY <1>1 DEF IInv, ApplyInv, Applying
<1>3. UNCHANGED chain
  BY DEF Mark
<1>4. CASE WriteFails
  <2>1. db' = db /\ Sticking
    BY <1>4, BlameSticks DEF WriteFails, Faults
  <2> QED
    BY <1>3, <2>1, Diverges
<1>5. CASE SetHeight
  <2>1. /\ \A q \in Pools \ {Pool} : db'[q] = db[q]
        /\ db'[Pool].height = next
        /\ fault' = fault \/ fault' = Blame(Pool, "repeat")
    BY <1>1, <1>5 DEF SetHeight, Typed, TypeOK
  <2>2. Sticking
    BY <2>1, BlameSticks DEF Sticking, Faults
  <2>3. CASE fault'[Pool] # "none"
    BY <1>3, <2>1, <2>2, <2>3, Diverges
  <2>4. CASE fault'[Pool] = "none"
    <3>1. fault[Pool] = "none" /\ \A q \in Pools \ {Pool} : fault'[q] = fault[q]
      BY <1>1, <2>1, <2>2, <2>4 DEF Sticking, Blame, Typed, TypeOK
    <3>2. view[Pool] = db[Pool].height /\ view[Pool] \in Nat \ {0}
      BY <1>1, <1>2, <3>1 DEF view, Tracked, Typed, TypeOK
    <3>3. PoolInv(Pool)
      BY <1>1, <1>2, <3>1 DEF IInv, Faultless
    <3>4. \A x \in PoolEvents(chain, Pool) : x[1] <= view[Pool] \/ x[1] >= next
      <4> SUFFICES ASSUME NEW x \in PoolEvents(chain, Pool), x[1] > view[Pool]
                   PROVE  x[1] >= next
        <5>1. \A x \in PoolEvents(chain, Pool) : x[1] \in Nat
          BY PoolEventType DEF Typed, TypeOK
        <5>2. next \in Nat
          BY DEF Typed, TypeOK
        <5> QED
          BY <3>2, <5>1, <5>2
      <4>1. x = Id \/ Before(Id, x)
        BY <1>1, <1>2, <3>1, <3>2, <3>3, FirstAfter
      <4>2. x[1] \in Nat /\ next \in Nat
        BY PoolEventType DEF Typed, TypeOK
      <4> QED
        BY <1>1, <4>1, <4>2 DEF Before
    <3>5. view' = [view EXCEPT ![Pool] = next]
      <4>1. \A q \in Pools : (IF fault'[q] # "none" THEN Gone' ELSE db'[q].height) =
                               IF q = Pool THEN next ELSE view[q]
        BY <2>1, <2>4, <3>1 DEF view, Gone
      <4> HIDE DEF Pool
      <4> QED
        BY <4>1 DEF view
    <3>6. Replica!Advance(Pool)
      <4>1. view[Pool] \notin {0, Gone}
        BY <3>2 DEF Gone
      <4>2. /\ Id \in Replica!PoolEvents(chain, Pool)
            /\ \A x \in Replica!PoolEvents(chain, Pool) : x[1] <= view[Pool] \/ x[1] >= Id[1]
        BY <1>1, <3>4, SameNames
      <4>3. Id[1] > view[Pool] /\ view' = [view EXCEPT ![Pool] = Id[1]]
        BY <1>1, <1>2, <3>1, <3>2, <3>5
      <4> QED
        BY <1>3, <4>1, <4>2, <4>3 DEF Replica!Advance
    <3> QED
      BY <1>1, <3>6 DEF Replica!Next
  <2> QED
    BY <2>3, <2>4
<1> QED
  BY <1>4, <1>5 DEF Mark

\* Writing a tick or the current tick leaves the height.
LEMMA WritesLeaveHeight ==
    ASSUME Typed, IInv, WriteLower \/ WriteUpper \/ ReactSwap
    PROVE  Replica!Next
<1>1. Pool \in Pools
  BY EventType DEF WriteLower, WriteUpper, ReactSwap
<1>2. UNCHANGED chain
  BY DEF WriteLower, WriteUpper, WriteTick, ReactSwap
<1>3. \/ WriteFails
      \/ fault' = fault /\ \E t, sum : SetTickState(t, sum)
      \/ fault' = fault /\ SetCurrentTick
  BY DEF WriteLower, WriteUpper, WriteTick, ReactSwap, SetTickState, SetCurrentTick
<1>4. \A p \in Pools : db'[p].height = db[p].height
  <2>1. CASE WriteFails
    BY <2>1 DEF WriteFails
  <2>2. CASE \E t, sum : SetTickState(t, sum)
    <3>1. PICK t, sum : SetTickState(t, sum)
      BY <2>2
    <3>2. PICK net : db' = [db EXCEPT ![Pool].net = net]
      BY <3>1 DEF SetTickState
    <3> QED
      BY <1>1, <3>2 DEF Typed, TypeOK
  <2>3. CASE SetCurrentTick
    BY <1>1, <2>3 DEF SetCurrentTick, Typed, TypeOK
  <2> QED
    BY <1>3, <2>1, <2>2, <2>3
<1>5. Sticking
  BY <1>3, BlameSticks DEF WriteFails, Sticking, Faults
<1> QED
  BY <1>2, <1>4, <1>5, Diverges

\* A new block grows the chain.
LEMMA Grows ==
    ASSUME Typed, NewBlock
    PROVE  Replica!Next
<1>1. \E b \in Blocks : chain' = Append(chain, b)
  BY DEF NewBlock
<1>2. Sticking /\ db' = db
  BY DEF NewBlock, Sticking, Typed, TypeOK
<1>3. \E S \in SUBSET Pools : view' = Replica!Lose(S)
  BY <1>2, Loses
<1> QED
  BY <1>1, <1>3 DEF Replica!Next, Replica!Grow

\* All other steps leave the records.
LEMMA LeavesRecords ==
    ASSUME Typed, UNCHANGED <<chain, db>>,
           \/ fault' = fault
           \/ \E q, why : why \in Faults /\ fault' = Blame(q, why)
           \/ \E f \in FromHeights : Boot(f)
    PROVE  Replica!Next
<1>1. Sticking
  BY BlameSticks DEF Boot, Sticking, Typed, TypeOK
<1> QED
  BY <1>1, Diverges

\* Every step is one of PoolReplica.
LEMMA ReplicaStep == Typed /\ IInv /\ [Next]_vars => [Replica!Next]_<<chain, view>>
<1> SUFFICES ASSUME Typed, IInv, [Next]_vars
             PROVE  Replica!Next \/ UNCHANGED <<chain, view>>
  OBVIOUS
<1>1. CASE NewBlock
  BY <1>1, Grows
<1>2. CASE \E p \in Pools : ListPair(p) \/ DelistPair(p) \/ ExpirePair(p)
  BY <1>2, LeavesRecords DEF ListPair, DelistPair, ExpirePair
<1>3. CASE \E f \in FromHeights : Boot(f)
  BY <1>3, LeavesRecords DEF Boot
<1>4. CASE Reactor
  <2>1. CASE GetHeight \/ PairFound \/ LoadStored \/ CallLens \/ ReadLower \/ ReadUpper \/ FinishBlock
    BY <2>1, LeavesRecords
       DEF GetHeight, PairFound, FindPair, LoadStored, CallLens, ReadLower, ReadUpper, ReadTick, FinishBlock
  <2>2. CASE PairMissing
    BY <2>2, LeavesRecords DEF PairMissing, Faults
  <2>3. CASE SaveSnapshot
    <3>1. Pool \in Pools /\ snap \in Snap /\ SnapOf(Pool, snap)
      BY <2>3, EventType DEF SaveSnapshot, IInv, SnapInv, Typed, TypeOK
    <3> QED
      BY <2>3, <3>1, Loads DEF SaveSnapshot
  <2>4. CASE Mark
    BY <2>4, Advances
  <2>5. CASE WriteLower \/ WriteUpper \/ ReactSwap
    BY <2>5, WritesLeaveHeight
  <2> QED
    BY <1>4, <2>1, <2>2, <2>3, <2>4, <2>5 DEF Reactor
<1>5. CASE \E r \in Pools \X Handlers : Api(r)
  <2>1. PICK r \in Pools \X Handlers : Api(r)
    BY <1>5
  <2>2. CASE ApiSave(r)
    <3>1. r[1] \in Pools /\ api[r].snap \in Snap /\ SnapOf(r[1], api[r].snap)
      BY <2>2 DEF ApiSave, IInv, SnapInv, Typed, TypeOK
    <3> QED
      BY <2>2, <3>1, Loads DEF ApiSave
  <2>3. CASE ApiRequest(r) \/ ApiLoad(r) \/ ApiCall(r) \/ ApiFail(r)
    BY <2>3, LeavesRecords DEF ApiRequest, FindPair, ApiLoad, ApiCall, ApiFail
  <2> QED
    BY <2>1, <2>2, <2>3 DEF Api
<1>6. CASE Crash
  BY <1>6, LeavesRecords DEF Crash, Faults
<1>7. CASE AwaitHead \/ UNCHANGED vars
  <2>1. UNCHANGED <<chain, db, fault>>
    BY <1>7 DEF AwaitHead
  <2> QED
    BY <2>1 DEF view, Gone
<1> QED
  BY <1>1, <1>2, <1>3, <1>4, <1>5, <1>6, <1>7 DEF Next

\* However the reactor and the handlers interleave, and wherever the process
\* dies, each pool's replica moves as PoolReplica allows: from block to block
\* over no event of the pool, or it has one of the named faults for good.
\* (ReactBlockEvent, SetHeight, SetPoolState)
THEOREM ReplicasMoveRight == Spec => ReplicaSpec
<1>1. Init => Replica!Init
  BY DEF Init, Replica!Init, view, Gone
<1>2. Spec => Replica!Init /\ [][Replica!Next]_<<chain, view>>
  BY <1>1, ReplicaStep, Invariance, PTL DEF Spec
<1> QED
  BY <1>2 DEF ReplicaSpec, Replica!Spec
=============================================================================
