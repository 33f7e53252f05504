------------------------ MODULE BlockPipelineProofs ------------------------
(***************************************************************************)
(* Proofs about BlockPipeline, for pools of any size, any start height and *)
(* any number of heights and lives.                                        *)
(*                                                                         *)
(* The inductive invariant IInv says that the heights on their way are one *)
(* unbroken range, cut at four points:                                     *)
(*                                                                         *)
(*   handled | receiver, outputBuffer | tasks | crawl, inputQueue |        *)
(*          Turn              FirstUnsent   FirstUnsubmitted   dispatch.i  *)
(*                                                                         *)
(* Each step moves one height over one cut (PutInput, Submit, Commit,      *)
(* React) or within a piece, and no two of them can disturb one another.   *)
(* The sequencer's sequence is the cut FirstUnsent, which is why the task  *)
(* whose turn it is is the lowest.                                         *)
(*                                                                         *)
(* Size and Item are Len and the first element, under names of their own:  *)
(* the steps speak of channels of at most one item by these alone.         *)
(***************************************************************************)
EXTENDS BlockPipeline, SequenceTheorems, FiniteSetTheorems, TLAPS

\* The items in a channel, and its first one.
Size(q) == Len(q)
Item(q) == q[1]

\* s counts up from `from`.
InTurn(s, from) == \A k \in 1..Len(s) : s[k] = from + k - 1

\* How many heights the crawler's loop or the receiver holds.
Held(place) == IF place.height = None THEN 0 ELSE 1

\* The cuts: the height to handle next, the first one the sequencer has not
\* let through, and the first one that no worker was given.
Turn == fromHeight + Size(handled)
FirstUnsent == Turn + Held(receiver) + Size(outputBuffer)
FirstUnsubmitted == dispatch.i - Size(inputQueue) - Held(crawl)

\* The steps of the goroutines agree with what they hold and have closed.
Stages ==
    /\ crawl.pc = "submit" <=> crawl.height # None
    /\ receiver.pc = "react" <=> receiver.height # None
    /\ life = "down" <=> dispatch.pc = "off"
    /\ life = "over" <=> receiver.pc = "done"
    /\ inputClosed <=> dispatch.pc = "done"
    /\ outputClosed <=> crawl.pc = "done"

\* The dispatcher's counters stay in order and, but for the start, at most one
\* above the head; a header is never above it.
Counters ==
    /\ fromHeight <= dispatch.i
    /\ dispatch.i = fromHeight \/ dispatch.i <= head + 1
    /\ fromHeight <= MaxHeight + 1
    /\ dispatch.pc = "poll" => dispatch.i = dispatch.height
    /\ dispatch.pc = "range" => dispatch.i <= dispatch.to + 1
    /\ dispatch.pc = "put" => dispatch.i <= dispatch.to
    /\ dispatch.to <= head
    /\ headerHeight <= head

\* Every piece of the line holds exactly the heights between its two cuts.
Line ==
    /\ InTurn(handled, fromHeight)
    /\ receiver.height \in {None, Turn}
    /\ Size(outputBuffer) = 1 => Item(outputBuffer) = Turn + Held(receiver)
    /\ FirstUnsent <= FirstUnsubmitted
    /\ Running = FirstUnsent .. FirstUnsubmitted - 1
    /\ FirstUnsubmitted - FirstUnsent <= poolSize
    /\ crawl.height \in {None, FirstUnsubmitted}
    /\ Size(inputQueue) = 1 => Item(inputQueue) = FirstUnsubmitted + Held(crawl)
    /\ life # "down" => (sequence + 1) % Wrap = FirstUnsent

\* The end travels down behind the last height, and an end of the process
\* leaves no counters.
Ends ==
    /\ outputClosed => inputClosed /\ Size(inputQueue) = 0 /\ Running = {}
    /\ life = "over" => outputClosed /\ Size(outputBuffer) = 0
    /\ life = "down" => dispatch = Off /\ fromHeight = 0

IInv == TypeOK /\ Stages /\ Counters /\ Line /\ NoMissedWakeup /\ Ends

USE DEF fixed, source, feed, pool, sink

\* The height before the first one wraps around, and back: at height 0 the
\* sequencer begins at the greatest number.
LEMMA Wrapping ==
    /\ \A h \in 0..MaxHeight + 1 : (h + 1) % Wrap = h + 1 /\ h % Wrap = h
    /\ \A h \in 0..MaxHeight + 1 : NewSequencer(h) \in 0..Wrap-1 /\ (NewSequencer(h) + 1) % Wrap = h
<1>1. MaxHeight \in Nat /\ Wrap \in Nat /\ MaxHeight + 2 < Wrap
  BY PipelineAssumption
<1>2. \A h \in 0..MaxHeight + 2 : h % Wrap = h
  BY <1>1
<1>3. Wrap % Wrap = 0
  BY <1>1
<1>4. NewSequencer(0) = Wrap - 1
  BY <1>1 DEF NewSequencer
<1>5. \A h \in 1..MaxHeight + 1 : NewSequencer(h) = h - 1
  BY <1>1, <1>2 DEF NewSequencer
<1> QED
  BY <1>1, <1>2, <1>3, <1>4, <1>5

\* A channel's size is a number, 0 when it is empty.
LEMMA Channel ==
    ASSUME NEW S, NEW q \in Seq(S)
    PROVE  /\ Size(q) \in Nat
           /\ q = <<>> => Size(q) = 0
           /\ Size(q) = 0 => q = <<>>
           /\ Len(q) <= 1 => Size(q) \in {0, 1}
<1>1. Len(q) \in Nat
  BY LenProperties
<1>2. q = <<>> => Len(q) = 0
  BY EmptySeq
<1>3. Len(q) = 0 => q = <<>>
  BY EmptySeq
<1>4. Len(q) <= 1 => Len(q) \in {0, 1}
  BY <1>1
<1> QED
  BY <1>1, <1>2, <1>3, <1>4 DEF Size

\* Taking the only item out of a channel empties it.
LEMMA Taken ==
    ASSUME NEW S, NEW q \in Seq(S), Len(q) <= 1, q # <<>>
    PROVE  /\ Size(q) = 1 /\ Item(q) \in S /\ Head(q) = Item(q)
           /\ Tail(q) \in Seq(S) /\ Len(Tail(q)) = 0 /\ Size(Tail(q)) = 0
<1>1. Len(q) \in Nat /\ Len(q) # 0
  BY Channel DEF Size
<1>2. Len(q) = 1
  BY <1>1
<1>3. q[1] \in S
  BY <1>2, ElementOfSeq
<1>4. Head(q) = q[1]
  OBVIOUS
<1>5. Tail(q) \in Seq(S) /\ Len(Tail(q)) = 0
  BY <1>2, HeadTailProperties
<1> QED
  BY <1>2, <1>3, <1>4, <1>5 DEF Size, Item

\* Putting an item into an empty channel makes it the first.
LEMMA Put ==
    ASSUME NEW S, NEW q \in Seq(S), Len(q) < 1, NEW e \in S
    PROVE  /\ Size(q) = 0 /\ Size(Append(q, e)) = 1 /\ Len(Append(q, e)) = 1
           /\ Append(q, e) \in Seq(S) /\ Item(Append(q, e)) = e
<1>1. Len(q) \in Nat
  BY LenProperties
<1>2. Len(q) = 0
  BY <1>1
<1> QED
  BY <1>2, AppendProperties DEF Size, Item

\* The types of the numbers that the invariant speaks of.
LEMMA Numbers ==
    ASSUME IInv
    PROVE  /\ MaxHeight \in Nat /\ head \in 0..MaxHeight /\ fromHeight \in Nat
           /\ Size(handled) \in Nat /\ Size(inputQueue) \in {0, 1} /\ Size(outputBuffer) \in {0, 1}
           /\ Held(receiver) \in {0, 1} /\ Held(crawl) \in {0, 1}
           /\ Turn \in Nat /\ FirstUnsent \in Nat /\ FirstUnsubmitted \in Int
           /\ dispatch.i \in Nat /\ dispatch.to \in Nat /\ dispatch.height \in Nat
           /\ dispatch = [pc |-> dispatch.pc, height |-> dispatch.height,
                          i |-> dispatch.i, to |-> dispatch.to]
           /\ dispatch.i <= MaxHeight + 1
<1>1. Size(handled) \in Nat /\ Size(inputQueue) \in {0, 1} /\ Size(outputBuffer) \in {0, 1}
  BY Channel DEF IInv, TypeOK, ChannelsOK, InputCapacity, OutputCapacity
<1>4. MaxHeight \in Nat /\ head \in 0..MaxHeight /\ fromHeight \in Nat
  BY PipelineAssumption DEF IInv, TypeOK, Heights
<1>5. /\ dispatch.i \in Nat /\ dispatch.to \in Nat /\ dispatch.height \in Nat
      /\ dispatch = [pc |-> dispatch.pc, height |-> dispatch.height,
                     i |-> dispatch.i, to |-> dispatch.to]
  BY DEF IInv, TypeOK
<1>6. dispatch.i <= MaxHeight + 1
  BY <1>4, <1>5 DEF IInv, Counters
<1>7. Held(receiver) \in {0, 1} /\ Held(crawl) \in {0, 1}
  BY DEF Held
<1>8. Turn \in Nat
  BY <1>1, <1>4 DEF Turn
<1>9. FirstUnsent \in Nat /\ FirstUnsubmitted \in Int
  BY <1>1, <1>5, <1>7, <1>8 DEF FirstUnsent, FirstUnsubmitted
<1> QED
  BY <1>1, <1>4, <1>5, <1>6, <1>7, <1>8, <1>9

\* A step that moves no height leaves the line alone.
LEMMA LineFrame ==
    ASSUME IInv, UNCHANGED <<fixed, inputQueue, crawl, pool, handled, receiver, outputBuffer, life>>,
           dispatch'.i = dispatch.i
    PROVE  Line'
<1>1. /\ Turn' = Turn /\ FirstUnsent' = FirstUnsent /\ FirstUnsubmitted' = FirstUnsubmitted
      /\ Held(receiver') = Held(receiver) /\ Held(crawl') = Held(crawl)
      /\ Running' = Running
  BY DEF Turn, FirstUnsent, FirstUnsubmitted, Running
<1> QED BY <1>1 DEF IInv, Line

\* A new head, a header or a signal keeps the invariant: a header is never
\* above the head, and the dispatcher is not asked.
LEMMA SourceStep ==
    ASSUME IInv, NewHead \/ ReceiveHeader \/ Stop
    PROVE  IInv'
<1>1. /\ UNCHANGED <<fixed, dispatch, feed, pool, sink>>
      /\ head' \in Heights /\ headerHeight' \in Heights /\ stopped' \in BOOLEAN
      /\ head <= head' /\ headerHeight' <= head'
  <2>1. CASE NewHead
    BY <2>1, Numbers DEF NewHead, IInv, TypeOK, Counters, Heights
  <2>2. CASE ReceiveHeader
    BY <2>2, Numbers DEF ReceiveHeader, IInv, TypeOK, Heights
  <2>3. CASE Stop
    BY <2>3, Numbers DEF Stop, IInv, TypeOK, Counters, Heights
  <2> QED
    BY <2>1, <2>2, <2>3
<1>2. TypeOK'
  BY <1>1 DEF IInv, TypeOK, ChannelsOK
<1>3. Stages' /\ NoMissedWakeup' /\ Ends'
  BY <1>1 DEF IInv, Stages, NoMissedWakeup, Ends, Running, Off
<1>4. Counters'
  <2>1. dispatch'.i = dispatch.i /\ dispatch'.to = dispatch.to /\ fromHeight' = fromHeight
        /\ dispatch'.height = dispatch.height /\ dispatch'.pc = dispatch.pc
    BY <1>1
  <2>2. head' \in Nat /\ headerHeight' \in Nat
    BY <1>1, Numbers DEF Heights
  <2> QED
    BY <1>1, <2>1, <2>2, Numbers DEF IInv, Counters
<1>5. Line'
  BY <1>1, LineFrame
<1> QED
  BY <1>2, <1>3, <1>4, <1>5 DEF IInv

\* The dispatcher's own steps: its counters stay in order.  (dispatchRange)
LEMMA DispatcherStep ==
    ASSUME IInv, Poll \/ CheckStopped \/ EndRange
    PROVE  IInv'
<1>1. /\ UNCHANGED <<fixed, source, inputQueue, crawl, pool, sink>>
      /\ dispatch.pc \in {"poll", "range"}
      /\ dispatch' = [pc |-> dispatch'.pc, height |-> dispatch'.height,
                      i |-> dispatch.i, to |-> dispatch'.to]
      /\ dispatch'.pc \in {"range", "put", "done", "poll"}
      /\ dispatch'.height \in Nat /\ dispatch'.to \in 0..head
      /\ dispatch'.pc = "poll" => dispatch.i = dispatch'.height
      /\ dispatch'.pc = "range" => dispatch.i <= dispatch'.to + 1
      /\ dispatch'.pc = "put" => dispatch.i <= dispatch'.to
  <2>1. CASE Poll
    <3>1. dispatch' = [pc |-> "range", height |-> dispatch.height, i |-> dispatch.i, to |-> headerHeight]
      BY <2>1, Numbers DEF Poll, IInv, Counters
    <3>2. headerHeight \in 0..head /\ headerHeight >= dispatch.i
      BY <2>1, Numbers DEF Poll, IInv, TypeOK, Counters, Heights
    <3>3. dispatch.pc = "poll" /\ UNCHANGED <<fixed, source, inputQueue, crawl, pool, sink>>
      BY <2>1 DEF Poll
    <3>4. head \in Nat /\ dispatch.i \in Nat /\ dispatch.height \in Nat
      BY Numbers
    <3> QED
      BY <3>1, <3>2, <3>3, <3>4
  <2>2. CASE CheckStopped
    <3>1. dispatch' = [pc |-> IF stopped THEN "done" ELSE "put", height |-> dispatch.height,
                       i |-> dispatch.i, to |-> dispatch.to]
      BY <2>2, Numbers DEF CheckStopped
    <3>2. dispatch.i <= dispatch.to /\ dispatch.to \in 0..head
      BY <2>2, Numbers DEF CheckStopped, IInv, Counters
    <3> QED
      BY <2>2, <3>1, <3>2, Numbers DEF CheckStopped
  <2>3. CASE EndRange
    <3>1. dispatch' = [pc |-> "poll", height |-> dispatch.to + 1, i |-> dispatch.i, to |-> dispatch.to]
      BY <2>3, Numbers DEF EndRange
    <3>2. dispatch.i = dispatch.to + 1 /\ dispatch.to \in 0..head
      BY <2>3, Numbers DEF EndRange, IInv, Counters
    <3> QED
      BY <2>3, <3>1, <3>2, Numbers DEF EndRange
  <2> QED
    BY <2>1, <2>2, <2>3
<1>. inputClosed' \in BOOLEAN /\ (inputClosed' <=> dispatch'.pc = "done")
  <2>1. inputClosed \in BOOLEAN /\ stopped \in BOOLEAN /\ ~inputClosed
    BY <1>1 DEF IInv, TypeOK, Stages
  <2>2. CASE Poll
    BY <2>1, <2>2, <1>1, Numbers DEF Poll
  <2>3. CASE CheckStopped
    BY <2>1, <2>3, Numbers DEF CheckStopped
  <2>4. CASE EndRange
    BY <2>1, <2>4, Numbers DEF EndRange
  <2> QED
    BY <2>2, <2>3, <2>4
<1>2. TypeOK'
  BY <1>1, Numbers DEF IInv, TypeOK, ChannelsOK
<1>3. Stages' /\ NoMissedWakeup'
  BY <1>1 DEF IInv, Stages, NoMissedWakeup
<1>4. Ends'
  BY <1>1 DEF IInv, Stages, Ends, Running
<1>5. Counters'
  BY <1>1, Numbers DEF IInv, Counters
<1>6. Line'
  BY <1>1, LineFrame
<1> QED
  BY <1>2, <1>3, <1>4, <1>5, <1>6 DEF IInv

\* Putting a height into the queue moves the line's upper end.  (PutInput)
LEMMA PutInputStep ==
    ASSUME IInv, PutInput
    PROVE  IInv'
<1>1. /\ dispatch.pc = "put" /\ Len(inputQueue) < 1
      /\ dispatch' = [pc |-> "range", height |-> dispatch.height,
                      i |-> dispatch.i + 1, to |-> dispatch.to]
      /\ inputQueue' = Append(inputQueue, dispatch.i)
      /\ UNCHANGED <<fixed, source, inputClosed, crawl, pool, sink>>
  BY Numbers DEF PutInput, InputCapacity
<1>2. dispatch.i \in Heights
  BY <1>1, Numbers DEF IInv, Counters, Heights
<1>3. /\ Size(inputQueue) = 0 /\ Size(inputQueue') = 1 /\ Item(inputQueue') = dispatch.i
      /\ inputQueue' \in Seq(Heights) /\ Len(inputQueue') <= 1
  BY <1>1, <1>2, Put DEF IInv, TypeOK, ChannelsOK
<1>4. TypeOK'
  <2>1. ChannelsOK'
    BY <1>1, <1>3 DEF IInv, TypeOK, ChannelsOK, InputCapacity, OutputCapacity
  <2> QED
    BY <1>1, <2>1, Numbers DEF IInv, TypeOK
<1>5. Stages'
  BY <1>1 DEF IInv, Stages
<1>6. Counters'
  BY <1>1, <1>2, Numbers DEF IInv, Counters
<1>7. Line'
  <2>1. /\ Turn' = Turn /\ FirstUnsent' = FirstUnsent /\ FirstUnsubmitted' = FirstUnsubmitted
        /\ FirstUnsubmitted + Held(crawl) = dispatch.i
        /\ Held(receiver') = Held(receiver) /\ Held(crawl') = Held(crawl)
        /\ Running' = Running
    BY <1>1, <1>3, Numbers DEF Turn, FirstUnsent, FirstUnsubmitted, Running
  <2> QED
    BY <1>1, <1>3, <2>1 DEF IInv, Line
<1>8. NoMissedWakeup'
  BY <1>1 DEF IInv, NoMissedWakeup
<1>9. Ends'
  BY <1>1 DEF IInv, Stages, Ends, Running
<1> QED
  BY <1>4, <1>5, <1>6, <1>7, <1>8, <1>9 DEF IInv

\* The crawler takes the first height that no worker has.
LEMMA TakeHeightStep ==
    ASSUME IInv, TakeHeight
    PROVE  IInv'
<1>1. /\ crawl.pc = "recv" /\ inputQueue # <<>>
      /\ crawl' = [pc |-> "submit", height |-> Head(inputQueue)]
      /\ inputQueue' = Tail(inputQueue)
      /\ UNCHANGED <<fixed, source, dispatch, inputClosed, pool, sink>>
  BY DEF TakeHeight
<1>2. /\ Size(inputQueue) = 1 /\ Item(inputQueue) \in Heights
      /\ crawl' = [pc |-> "submit", height |-> Item(inputQueue)]
      /\ inputQueue' \in Seq(Heights) /\ Size(inputQueue') = 0 /\ Len(inputQueue') <= 1
  BY <1>1, Taken DEF IInv, TypeOK, ChannelsOK, InputCapacity
<1>3. Item(inputQueue) # None
  BY <1>2, PipelineAssumption DEF Heights, None
<1>4. TypeOK'
  <2>1. ChannelsOK'
    BY <1>1, <1>2 DEF IInv, TypeOK, ChannelsOK, InputCapacity, OutputCapacity
  <2> QED
    BY <1>1, <1>2, <2>1 DEF IInv, TypeOK
<1>5. Stages'
  BY <1>1, <1>2, <1>3 DEF IInv, Stages
<1>6. Counters'
  BY <1>1 DEF IInv, Counters
<1>7. Line'
  <2>1. Held(crawl) = 0 /\ Held(crawl') = 1
    BY <1>1, <1>2, <1>3 DEF IInv, Stages, Held
  <2>2. /\ Turn' = Turn /\ FirstUnsent' = FirstUnsent
        /\ Held(receiver') = Held(receiver) /\ Running' = Running
    BY <1>1 DEF Turn, FirstUnsent, Running
  <2>3. FirstUnsubmitted' = FirstUnsubmitted
    BY <1>1, <1>2, <2>1, Numbers DEF FirstUnsubmitted
  <2>4. crawl'.height = FirstUnsubmitted
    BY <1>2, <2>1, Numbers DEF IInv, Line
  <2> QED
    BY <1>1, <1>2, <2>2, <2>3, <2>4 DEF IInv, Line
<1>8. NoMissedWakeup'
  BY <1>1 DEF IInv, NoMissedWakeup
<1>9. Ends'
  BY <1>1, <1>2 DEF IInv, Stages, Ends, Running
<1> QED
  BY <1>4, <1>5, <1>6, <1>7, <1>8, <1>9 DEF IInv

\* A worker is given that height, if one is free.  (Submit)
LEMMA SubmitStep ==
    ASSUME IInv, Submit
    PROVE  IInv'
<1>1. /\ crawl.pc = "submit" /\ Cardinality(Running) < poolSize
      /\ crawl' = [pc |-> "recv", height |-> None]
      /\ tasks' = [tasks EXCEPT ![crawl.height] = "fetch"]
      /\ UNCHANGED <<fixed, source, dispatch, inputQueue, inputClosed, sequence, holder, sink>>
  BY DEF Submit, Receiving
<1>2. crawl.height = FirstUnsubmitted /\ crawl.height \in Heights /\ Held(crawl) = 1
  BY <1>1 DEF IInv, TypeOK, Stages, Line, Held
<1>3. Held(crawl') = 0
  BY <1>1 DEF Held
<1>4. crawl.height \notin Running /\ tasks[crawl.height] = "none"
  BY <1>2, Numbers DEF IInv, Line, Running
<1>5. TypeOK'
  BY <1>1, <1>2 DEF IInv, TypeOK, ChannelsOK, TaskSteps
<1>6. Stages'
  BY <1>1 DEF IInv, Stages
<1>7. Counters'
  BY <1>1 DEF IInv, Counters
<1>8. Line'
  <2>1. /\ Turn' = Turn /\ FirstUnsent' = FirstUnsent /\ Held(receiver') = Held(receiver)
    BY <1>1 DEF Turn, FirstUnsent
  <2>2. FirstUnsubmitted' = FirstUnsubmitted + 1
    BY <1>1, <1>2, <1>3, Numbers DEF FirstUnsubmitted
  <2>3. Running' = Running \cup {FirstUnsubmitted}
    BY <1>1, <1>2 DEF Running, IInv, TypeOK
  <2>4. Running' = FirstUnsent' .. FirstUnsubmitted' - 1
    <3>1. Running = FirstUnsent .. FirstUnsubmitted - 1 /\ FirstUnsent <= FirstUnsubmitted
      BY DEF IInv, Line
    <3>2. FirstUnsubmitted' - 1 = FirstUnsubmitted
      BY <2>2, Numbers
    <3> QED
      BY <2>1, <2>3, <3>1, <3>2, Numbers
  <2>5. FirstUnsubmitted' - FirstUnsent' <= poolSize
    <3>1. Running = FirstUnsent .. FirstUnsubmitted - 1 /\ FirstUnsent <= FirstUnsubmitted
      BY DEF IInv, Line
    <3>2. Cardinality(Running) = FirstUnsubmitted - FirstUnsent
      <4>1. FirstUnsent \in Int /\ FirstUnsubmitted - 1 \in Int /\ FirstUnsubmitted \in Int
        BY Numbers
      <4>2. Cardinality(FirstUnsent .. FirstUnsubmitted - 1) =
              IF FirstUnsent > FirstUnsubmitted - 1 THEN 0
              ELSE (FirstUnsubmitted - 1) - FirstUnsent + 1
        BY <4>1, FS_Interval
      <4> QED
        BY <3>1, <4>1, <4>2
    <3>3. poolSize \in Nat
      BY PipelineAssumption DEF IInv, TypeOK
    <3> QED
      BY <1>1, <2>1, <2>2, <3>2, <3>3, Numbers
  <2>6. FirstUnsent' <= FirstUnsubmitted'
    BY <2>1, <2>2, Numbers DEF IInv, Line
  <2>7. crawl'.height = None
    BY <1>1
  <2>8. Size(inputQueue') = 1 => Item(inputQueue') = FirstUnsubmitted' + Held(crawl')
    BY <1>1, <1>2, <1>3, <2>2, Numbers DEF IInv, Line
  <2> QED
    BY <1>1, <2>1, <2>4, <2>5, <2>6, <2>7, <2>8 DEF IInv, Line
<1>9. NoMissedWakeup'
  <2>1. holder # crawl.height
    BY <1>2, <1>4 DEF IInv, NoMissedWakeup
  <2> QED
    BY <1>1, <1>2, <2>1 DEF IInv, NoMissedWakeup, TypeOK
<1>10. Ends'
  BY <1>1 DEF IInv, Stages, Ends
<1> QED
  BY <1>5, <1>6, <1>7, <1>8, <1>9, <1>10 DEF IInv

\* The crawler closes the output behind the last height.  (wg.Wait)
LEMMA CloseOutputStep ==
    ASSUME IInv, CloseOutput
    PROVE  IInv'
<1>1. /\ crawl.pc = "recv" /\ inputQueue = <<>> /\ inputClosed /\ Running = {}
      /\ crawl' = [pc |-> "done", height |-> crawl.height]
      /\ outputClosed' = TRUE
      /\ UNCHANGED <<fixed, source, dispatch, inputQueue, inputClosed, pool, outputBuffer,
                     receiver, handled, finish, life>>
  BY DEF CloseOutput, IInv, TypeOK
<1>2. Size(inputQueue) = 0
  BY <1>1, Channel DEF IInv, TypeOK, ChannelsOK
<1>3. TypeOK'
  BY <1>1 DEF IInv, TypeOK, ChannelsOK
<1>4. Stages'
  BY <1>1 DEF IInv, Stages
<1>5. Counters'
  BY <1>1 DEF IInv, Counters
<1>6. Line'
  <2>1. Held(crawl') = Held(crawl) /\ crawl'.height = crawl.height
    BY <1>1 DEF Held
  <2>2. /\ Turn' = Turn /\ FirstUnsent' = FirstUnsent /\ FirstUnsubmitted' = FirstUnsubmitted
        /\ Held(receiver') = Held(receiver) /\ Running' = Running
    BY <1>1, <2>1 DEF Turn, FirstUnsent, FirstUnsubmitted, Running
  <2> QED
    BY <1>1, <2>1, <2>2 DEF IInv, Line
<1>7. NoMissedWakeup'
  BY <1>1 DEF IInv, NoMissedWakeup
<1>8. Ends'
  BY <1>1, <1>2 DEF IInv, Ends, Running
<1> QED
  BY <1>3, <1>4, <1>5, <1>6, <1>7, <1>8 DEF IInv

\* Steps of a task that stays one.
LEMMA TaskFrame ==
    ASSUME IInv, NEW h \in Heights, NEW step \in TaskSteps \ {"none"}, tasks[h] # "none",
           tasks' = [tasks EXCEPT ![h] = step], holder' \in Heights \cup {None},
           UNCHANGED <<fixed, source, dispatch, feed, sequence, sink>>
    PROVE  TypeOK' /\ Stages' /\ Counters' /\ Line' /\ Ends'
<1>1. Running' = Running
  BY DEF Running, IInv, TypeOK
<1>2. TypeOK'
  BY DEF IInv, TypeOK, ChannelsOK
<1>3. Stages'
  BY DEF IInv, Stages
<1>4. Counters'
  BY DEF IInv, Counters
<1>5. Line'
  <2>1. /\ Turn' = Turn /\ FirstUnsent' = FirstUnsent /\ FirstUnsubmitted' = FirstUnsubmitted
        /\ Held(receiver') = Held(receiver) /\ Held(crawl') = Held(crawl)
    BY DEF Turn, FirstUnsent, FirstUnsubmitted
  <2> QED
    BY <1>1, <2>1 DEF IInv, Line
<1>6. Ends'
  BY <1>1 DEF IInv, Ends
<1> QED
  BY <1>2, <1>3, <1>4, <1>5, <1>6

\* A block that was fetched waits for the mutex.
LEMMA GetBlockStep ==
    ASSUME IInv, NEW h \in Heights, GetBlock(h)
    PROVE  IInv'
<1>1. /\ tasks[h] = "fetch" /\ tasks' = [tasks EXCEPT ![h] = "lock"]
      /\ UNCHANGED <<fixed, source, dispatch, feed, sequence, holder, sink>>
  BY DEF GetBlock
<1>2. TypeOK' /\ Stages' /\ Counters' /\ Line' /\ Ends'
  BY <1>1, TaskFrame DEF TaskSteps, IInv, TypeOK
<1>3. NoMissedWakeup'
  BY <1>1 DEF IInv, TypeOK, NoMissedWakeup
<1> QED
  BY <1>2, <1>3 DEF IInv

\* The task whose turn it is keeps the mutex, another one waits: it is not
\* next, since the sequence cannot change while it looks.  (Commit)
LEMMA LockStep ==
    ASSUME IInv, NEW h \in Heights, Lock(h)
    PROVE  IInv'
<1>1. /\ tasks[h] = "lock" /\ holder = None
      /\ UNCHANGED <<fixed, source, dispatch, feed, sequence, sink>>
  BY DEF Lock
<1>2. CASE (sequence + 1) % Wrap = h
  <2>1. tasks' = [tasks EXCEPT ![h] = "send"] /\ holder' = h
    BY <1>2 DEF Lock
  <2>2. TypeOK' /\ Stages' /\ Counters' /\ Line' /\ Ends'
    BY <1>1, <2>1, TaskFrame DEF TaskSteps
  <2>3. NoMissedWakeup'
    <3>1. tasks \in [Heights -> TaskSteps] /\ \A g \in Heights : tasks[g] # "send"
      BY <1>1, PipelineAssumption DEF IInv, TypeOK, NoMissedWakeup, Heights, None
    <3>2. \A g \in Heights : tasks'[g] = IF g = h THEN "send" ELSE tasks[g]
      BY <2>1, <3>1
    <3>3. \A g \in Heights : tasks'[g] = "send" <=> holder' = g
      BY <2>1, <3>1, <3>2
    <3>4. \A g \in Heights : tasks'[g] = "wait" => (sequence' + 1) % Wrap # g
      BY <1>1, <3>2 DEF IInv, NoMissedWakeup
    <3>5. (sequence' + 1) % Wrap = holder'
      BY <1>1, <1>2, <2>1
    <3> QED
      BY <3>3, <3>4, <3>5 DEF NoMissedWakeup
  <2> QED
    BY <2>2, <2>3 DEF IInv
<1>3. CASE (sequence + 1) % Wrap # h
  <2>1. tasks' = [tasks EXCEPT ![h] = "wait"] /\ holder' = holder
    BY <1>3 DEF Lock
  <2>2. TypeOK' /\ Stages' /\ Counters' /\ Line' /\ Ends'
    BY <1>1, <2>1, TaskFrame DEF TaskSteps
  <2>3. NoMissedWakeup'
    BY <1>1, <1>3, <2>1 DEF IInv, TypeOK, NoMissedWakeup
  <2> QED
    BY <2>2, <2>3 DEF IInv
<1> QED
  BY <1>2, <1>3

\* The lowest running height is sent and the next one's turn has come; those
\* that wait are woken.  (Commit)
LEMMA CommitStep ==
    ASSUME IInv, NEW h \in Heights, Commit(h)
    PROVE  IInv'
<1>1. /\ tasks[h] = "send" /\ Len(outputBuffer) < 1
      /\ outputBuffer' = Append(outputBuffer, h) /\ sequence' = h /\ holder' = None
      /\ tasks' = [g \in Heights |-> IF g = h THEN "none"
                                     ELSE IF tasks[g] = "wait" THEN "lock" ELSE tasks[g]]
      /\ UNCHANGED <<fixed, source, dispatch, feed, outputClosed, receiver, handled, finish, life>>
  BY DEF Commit, OutputCapacity
<1>2. /\ Size(outputBuffer) = 0 /\ Size(outputBuffer') = 1 /\ Item(outputBuffer') = h
      /\ outputBuffer' \in Seq(Heights) /\ Len(outputBuffer') <= 1
  BY <1>1, Put DEF IInv, TypeOK, ChannelsOK
<1>3. h \in Nat /\ h <= MaxHeight /\ h # None
  BY PipelineAssumption DEF Heights, None
<1>4. holder = h /\ h \in Running
  BY <1>1 DEF IInv, NoMissedWakeup, Running
<1>5. life # "down"
  BY <1>4, Numbers DEF IInv, Ends, Off, Line, FirstUnsent, FirstUnsubmitted, Turn
<1>6. h = FirstUnsent
  BY <1>3, <1>4, <1>5 DEF IInv, NoMissedWakeup, Line
<1>7. TypeOK'
  <2>1. ChannelsOK'
    BY <1>1, <1>2 DEF IInv, TypeOK, ChannelsOK, OutputCapacity, InputCapacity
  <2>2. tasks' \in [Heights -> TaskSteps]
    BY <1>1 DEF IInv, TypeOK, TaskSteps
  <2>3. sequence' \in 0..Wrap-1
    BY <1>1, <1>3, PipelineAssumption
  <2> QED
    BY <1>1, <2>1, <2>2, <2>3 DEF IInv, TypeOK
<1>8. Stages'
  BY <1>1 DEF IInv, Stages
<1>9. Counters'
  BY <1>1 DEF IInv, Counters
<1>10. Line'
  <2>1. /\ Turn' = Turn /\ FirstUnsubmitted' = FirstUnsubmitted
        /\ Held(receiver') = Held(receiver) /\ Held(crawl') = Held(crawl)
    BY <1>1 DEF Turn, FirstUnsubmitted
  <2>2. FirstUnsent' = FirstUnsent + 1
    BY <1>2, <2>1, Numbers DEF FirstUnsent
  <2>3. Running' = Running \ {h}
    BY <1>1 DEF Running
  <2>4. Running = FirstUnsent .. FirstUnsubmitted - 1
    BY DEF IInv, Line
  <2>5. Running' = FirstUnsent' .. FirstUnsubmitted' - 1
    BY <1>6, <2>1, <2>2, <2>3, <2>4, Numbers
  <2>6. FirstUnsent' <= FirstUnsubmitted'
    BY <1>4, <1>6, <2>1, <2>2, <2>4, Numbers
  <2>7. FirstUnsubmitted' - FirstUnsent' <= poolSize
    <3>1. poolSize \in Nat /\ FirstUnsubmitted - FirstUnsent <= poolSize
      BY PipelineAssumption DEF IInv, TypeOK, Line
    <3> QED
      BY <2>1, <2>2, <3>1, Numbers
  <2>8. Item(outputBuffer') = Turn' + Held(receiver')
    BY <1>2, <1>6, <2>1, Numbers DEF FirstUnsent
  <2>9. (sequence' + 1) % Wrap = FirstUnsent'
    BY <1>1, <1>3, <1>6, <2>2, Numbers, Wrapping
  <2> QED
    BY <1>1, <2>1, <2>5, <2>6, <2>7, <2>8, <2>9 DEF IInv, Line
<1>11. NoMissedWakeup'
  <2>1. \A g \in Heights : tasks'[g] # "send" /\ tasks'[g] # "wait" /\ g # None
    BY <1>1, <1>4, PipelineAssumption DEF IInv, NoMissedWakeup, Heights, None
  <2> QED
    BY <1>1, <2>1 DEF NoMissedWakeup
<1>12. Ends'
  <2>1. ~outputClosed
    BY <1>4 DEF IInv, Ends
  <2> QED
    BY <1>1, <1>5, <2>1 DEF IInv, Ends
<1> QED
  BY <1>7, <1>8, <1>9, <1>10, <1>11, <1>12 DEF IInv

\* The receiver takes the height to handle next from the buffer.
LEMMA ReceiveStep ==
    ASSUME IInv, Receive
    PROVE  IInv'
<1>1. /\ receiver.pc = "recv" /\ outputBuffer # <<>>
      /\ receiver' = [pc |-> "react", height |-> Head(outputBuffer)]
      /\ outputBuffer' = Tail(outputBuffer)
      /\ UNCHANGED <<fixed, source, dispatch, feed, pool, outputClosed, handled, finish, life>>
  BY DEF Receive
<1>2. /\ Size(outputBuffer) = 1 /\ Item(outputBuffer) \in Heights
      /\ receiver' = [pc |-> "react", height |-> Item(outputBuffer)]
      /\ outputBuffer' \in Seq(Heights) /\ Size(outputBuffer') = 0 /\ Len(outputBuffer') <= 1
  BY <1>1, Taken DEF IInv, TypeOK, ChannelsOK, OutputCapacity
<1>3. Item(outputBuffer) # None
  BY <1>2, PipelineAssumption DEF Heights, None
<1>4. TypeOK'
  <2>1. ChannelsOK'
    BY <1>1, <1>2 DEF IInv, TypeOK, ChannelsOK, InputCapacity, OutputCapacity
  <2> QED
    BY <1>1, <1>2, <2>1 DEF IInv, TypeOK
<1>5. Stages'
  BY <1>1, <1>2, <1>3 DEF IInv, Stages
<1>6. Counters'
  BY <1>1 DEF IInv, Counters
<1>7. Line'
  <2>1. Held(receiver) = 0 /\ Held(receiver') = 1
    BY <1>1, <1>2, <1>3 DEF IInv, Stages, Held
  <2>2. /\ Turn' = Turn /\ FirstUnsubmitted' = FirstUnsubmitted
        /\ Held(crawl') = Held(crawl) /\ Running' = Running
    BY <1>1 DEF Turn, FirstUnsubmitted, Running
  <2>3. FirstUnsent' = FirstUnsent
    BY <1>2, <2>1, <2>2, Numbers DEF FirstUnsent
  <2>4. receiver'.height = Turn
    BY <1>2, <2>1, Numbers DEF IInv, Line
  <2> QED
    BY <1>1, <1>2, <2>2, <2>3, <2>4 DEF IInv, Line
<1>8. NoMissedWakeup'
  BY <1>1 DEF IInv, NoMissedWakeup
<1>9. Ends'
  BY <1>1, <1>2 DEF IInv, Ends, Running
<1> QED
  BY <1>4, <1>5, <1>6, <1>7, <1>8, <1>9 DEF IInv

\* The reactor handles the height whose turn it is.  (SetFinishHeight)
LEMMA ReactStep ==
    ASSUME IInv, React
    PROVE  IInv'
<1>1. /\ receiver.pc = "react" /\ receiver' = [pc |-> "recv", height |-> None]
      /\ handled' = Append(handled, receiver.height) /\ finish' = receiver.height
      /\ UNCHANGED <<fixed, source, dispatch, feed, pool, outputBuffer, outputClosed, life>>
  BY DEF React, Receiving
<1>2. receiver.height \in Heights /\ receiver.height = Turn
  BY <1>1 DEF IInv, TypeOK, Stages, Line
<1>3. /\ handled \in Seq(Heights) /\ handled' \in Seq(Heights)
      /\ Size(handled') = Size(handled) + 1
  BY <1>1, <1>2, AppendProperties DEF IInv, TypeOK, ChannelsOK, Size
<1>4. TypeOK'
  <2>1. ChannelsOK'
    BY <1>1, <1>3 DEF IInv, TypeOK, ChannelsOK
  <2> QED
    BY <1>1, <1>2, <2>1 DEF IInv, TypeOK
<1>5. Stages'
  BY <1>1 DEF IInv, Stages
<1>6. Counters'
  BY <1>1 DEF IInv, Counters
<1>7. Line'
  <2>1. Held(receiver) = 1 /\ Held(receiver') = 0
    BY <1>1 DEF IInv, Stages, Held
  <2>2. /\ FirstUnsubmitted' = FirstUnsubmitted
        /\ Held(crawl') = Held(crawl) /\ Running' = Running
    BY <1>1 DEF FirstUnsubmitted, Running
  <2>3. Turn' = Turn + 1
    BY <1>1, <1>3, Numbers DEF Turn
  <2>4. FirstUnsent' = FirstUnsent
    BY <1>1, <2>1, <2>3, Numbers DEF FirstUnsent
  <2>5. InTurn(handled', fromHeight)
    <3>1. Len(handled) \in Nat /\ Len(handled') = Len(handled) + 1
      BY <1>3, LenProperties DEF Size
    <3>2. \A k \in 1..Len(handled) : handled'[k] = handled[k]
      BY <1>1, <1>2, <1>3, AppendProperties
    <3>3. handled'[Len(handled) + 1] = Turn
      BY <1>1, <1>2, <1>3, AppendProperties
    <3>4. Turn = fromHeight + Len(handled)
      BY DEF Turn, Size
    <3>5. \A k \in 1..Len(handled) : handled[k] = fromHeight + k - 1
      BY DEF IInv, Line, InTurn
    <3>6. ASSUME NEW k \in 1..Len(handled')
          PROVE  handled'[k] = fromHeight + k - 1
      <4>1. CASE k = Len(handled) + 1
        BY <3>1, <3>3, <3>4, <4>1, Numbers
      <4>2. CASE k # Len(handled) + 1
        <5>1. k \in 1..Len(handled)
          BY <3>1, <4>2
        <5> QED
          BY <5>1, <3>2, <3>5
      <4> QED
        BY <4>1, <4>2
    <3> QED
      BY <3>6 DEF InTurn
  <2>6. Size(outputBuffer') = 1 => Item(outputBuffer') = Turn' + Held(receiver')
    BY <1>1, <2>1, <2>3, Numbers DEF IInv, Line
  <2> QED
    BY <1>1, <2>2, <2>4, <2>5, <2>6 DEF IInv, Line
<1>8. NoMissedWakeup'
  BY <1>1 DEF IInv, NoMissedWakeup
<1>9. Ends'
  BY <1>1 DEF IInv, Stages, Ends, Running
<1> QED
  BY <1>4, <1>5, <1>6, <1>7, <1>8, <1>9 DEF IInv

\* The end reaches the reactor when nothing is on its way.
LEMMA ShutdownStep ==
    ASSUME IInv, Shutdown
    PROVE  IInv'
<1>1. /\ receiver.pc = "recv" /\ outputBuffer = <<>> /\ outputClosed /\ life' = "over"
      /\ receiver' = [pc |-> "done", height |-> receiver.height]
      /\ UNCHANGED <<fixed, source, dispatch, feed, pool, outputBuffer, outputClosed, handled,
                     finish>>
  BY DEF Shutdown, IInv, TypeOK
<1>2. Size(outputBuffer) = 0
  BY <1>1, Channel DEF IInv, TypeOK, ChannelsOK
<1>3. life # "down"
  BY <1>1 DEF IInv, Stages, Ends
<1>4. TypeOK'
  BY <1>1 DEF IInv, TypeOK, ChannelsOK
<1>5. Stages'
  BY <1>1, <1>3 DEF IInv, Stages
<1>6. Counters'
  BY <1>1 DEF IInv, Counters
<1>7. Line'
  <2>1. Held(receiver') = Held(receiver) /\ receiver'.height = receiver.height
    BY <1>1 DEF Held
  <2>2. /\ Turn' = Turn /\ FirstUnsent' = FirstUnsent /\ FirstUnsubmitted' = FirstUnsubmitted
        /\ Held(crawl') = Held(crawl) /\ Running' = Running
    BY <1>1, <2>1 DEF Turn, FirstUnsent, FirstUnsubmitted, Running
  <2> QED
    BY <1>1, <1>3, <2>1, <2>2 DEF IInv, Line
<1>8. NoMissedWakeup'
  BY <1>1 DEF IInv, NoMissedWakeup
<1>9. Ends'
  BY <1>1, <1>2 DEF IInv, Ends, Running
<1> QED
  BY <1>4, <1>5, <1>6, <1>7, <1>8, <1>9 DEF IInv

\* In a process that is down nothing is on its way.
LEMMA NothingWhileDown ==
    ASSUME IInv, life = "down"
    PROVE  /\ Size(handled) = 0 /\ Size(inputQueue) = 0 /\ Size(outputBuffer) = 0
           /\ Held(receiver) = 0 /\ Held(crawl) = 0
           /\ Running = {} /\ holder = None
           /\ inputClosed = FALSE /\ outputClosed = FALSE
           /\ crawl.pc = "recv" /\ receiver.pc = "recv"
<1>1. dispatch.i = 0 /\ fromHeight = 0 /\ dispatch.pc = "off"
  BY DEF IInv, Ends, Off
<1>2. FirstUnsent <= FirstUnsubmitted /\ Running = FirstUnsent .. FirstUnsubmitted - 1
  BY DEF IInv, Line
<1>3. Turn = 0 /\ Size(handled) = 0
  BY <1>1, <1>2, Numbers DEF Turn, FirstUnsent, FirstUnsubmitted
<1>4. /\ Size(inputQueue) = 0 /\ Size(outputBuffer) = 0
      /\ Held(receiver) = 0 /\ Held(crawl) = 0
  BY <1>1, <1>2, <1>3, Numbers DEF FirstUnsent, FirstUnsubmitted
<1>5. Running = {}
  BY <1>1, <1>2, <1>3, <1>4 DEF FirstUnsent, FirstUnsubmitted
<1>6. holder = None
  BY <1>5 DEF IInv, TypeOK, NoMissedWakeup, Running
<1>7. inputClosed = FALSE /\ outputClosed = FALSE
  <2>1. inputClosed \in BOOLEAN /\ outputClosed \in BOOLEAN /\ ~inputClosed
    BY <1>1 DEF IInv, TypeOK, Stages
  <2>2. ~outputClosed
    BY <2>1 DEF IInv, Ends
  <2> QED
    BY <2>1, <2>2
<1>8. crawl.pc = "recv" /\ receiver.pc = "recv"
  BY <1>4, <1>7 DEF IInv, TypeOK, Stages, Held, None
<1> QED
  BY <1>3, <1>4, <1>5, <1>6, <1>7, <1>8

\* A life begins with an empty line at its first height.  (main)
LEMMA StartStep ==
    ASSUME IInv, NEW configured \in FromHeights, Start(configured)
    PROVE  IInv'
<1> DEFINE from == GetFromHeight(configured)
<1>1. /\ life = "down" /\ life' = "up" /\ lives < MaxLives /\ lives' = lives + 1
      /\ fromHeight' = from /\ sequence' = NewSequencer(from)
      /\ dispatch' = [pc |-> "poll", height |-> from, i |-> from, to |-> head]
      /\ headerHeight' = head
      /\ UNCHANGED <<poolSize, head, stopped, feed, tasks, holder, outputBuffer, outputClosed,
                     receiver, handled, finish>>
  BY DEF Start
<1>2. from \in 0..MaxHeight + 1
  <2>1. configured \in Nat /\ configured <= MaxHeight + 1 /\ MaxHeight \in Nat
    BY PipelineAssumption
  <2>2. finish \in 0..MaxHeight /\ head \in 0..MaxHeight
    BY DEF IInv, TypeOK, Heights
  <2> QED
    BY <2>1, <2>2 DEF GetFromHeight
<1> HIDE DEF from
<1>3. lives' \in 0..MaxLives
  BY <1>1, PipelineAssumption DEF IInv, TypeOK
<1>4. TypeOK'
  <2>1. ChannelsOK'
    BY <1>1 DEF IInv, TypeOK, ChannelsOK
  <2>2. sequence' \in 0..Wrap-1
    BY <1>1, <1>2, Wrapping
  <2>3. from \in Nat /\ head \in Heights /\ head \in Nat
    BY <1>2, Numbers DEF IInv, TypeOK
  <2> QED
    BY <1>1, <1>3, <2>1, <2>2, <2>3 DEF IInv, TypeOK
<1>5. Stages'
  BY <1>1, NothingWhileDown DEF IInv, Stages
<1>6. Counters'
  BY <1>1, <1>2, Numbers DEF Counters
<1>7. Line'
  <2>1. InTurn(handled', fromHeight')
    <3>1. Len(handled) = 0
      BY <1>1, NothingWhileDown DEF Size
    <3> QED
      BY <1>1, <3>1 DEF InTurn
  <2>2. Turn' = from /\ FirstUnsent' = from /\ FirstUnsubmitted' = from
    BY <1>1, <1>2, NothingWhileDown DEF Turn, FirstUnsent, FirstUnsubmitted
  <2>3. Running' = {} /\ from .. from - 1 = {}
    BY <1>1, <1>2, NothingWhileDown DEF Running
  <2>4. receiver'.height = None /\ crawl'.height = None
    BY <1>1, NothingWhileDown DEF IInv, Stages
  <2>5. (sequence' + 1) % Wrap = from
    BY <1>1, <1>2, Wrapping
  <2>6. poolSize' \in Nat /\ from - from = 0
    BY <1>1, <1>2, PipelineAssumption DEF IInv, TypeOK
  <2> QED
    BY <1>1, <1>2, <2>1, <2>2, <2>3, <2>4, <2>5, <2>6, NothingWhileDown DEF Line
<1>8. NoMissedWakeup'
  <2>1. \A h \in Heights : tasks[h] = "none" /\ h # None
    BY <1>1, NothingWhileDown, PipelineAssumption DEF Running, Heights, None
  <2> QED
    BY <1>1, <2>1, NothingWhileDown DEF NoMissedWakeup
<1>9. Ends'
  BY <1>1, NothingWhileDown DEF Ends
<1> QED
  BY <1>4, <1>5, <1>6, <1>7, <1>8, <1>9 DEF IInv

\* A state with nothing on its way, of a process that is down.
Quiet ==
    /\ life = "down" /\ dispatch = Off /\ fromHeight = 0 /\ headerHeight = 0 /\ stopped = FALSE
    /\ inputQueue = <<>> /\ inputClosed = FALSE /\ crawl = Receiving
    /\ tasks = NoTasks /\ sequence = 0 /\ holder = None
    /\ outputBuffer = <<>> /\ outputClosed = FALSE
    /\ receiver = Receiving /\ handled = <<>>
    /\ poolSize \in PoolSizes /\ head \in Heights /\ finish \in Heights /\ lives \in 0..MaxLives

\* A process that is down, with nothing on its way, satisfies the invariant.
LEMMA QuietInv == Quiet => IInv
<1> SUFFICES ASSUME Quiet PROVE IInv
  OBVIOUS
<1> USE DEF Quiet
<1>1. /\ <<>> \in Seq(Heights) /\ Len(<<>>) = 0
  BY EmptySeq
<1>2. /\ Size(handled) = 0 /\ Size(inputQueue) = 0 /\ Size(outputBuffer) = 0
      /\ Held(receiver) = 0 /\ Held(crawl) = 0
  BY <1>1 DEF Size, Held, Receiving
<1>3. MaxHeight \in Nat /\ Wrap \in Nat /\ 0 < Wrap
  BY PipelineAssumption
<1>4. TypeOK
  <2>1. ChannelsOK
    BY <1>1 DEF ChannelsOK, InputCapacity, OutputCapacity
  <2>2. tasks \in [Heights -> TaskSteps]
    BY DEF NoTasks, TaskSteps
  <2>3. 0 \in Heights /\ 0 \in 0..Wrap - 1
    BY <1>3 DEF Heights
  <2> QED
    BY <2>1, <2>2, <2>3 DEF TypeOK, Off, Receiving
<1>5. Stages
  BY DEF Stages, Off, Receiving
<1>6. Counters
  BY <1>3 DEF Counters, Off, Heights
<1>7. Running = {}
  BY DEF Running, NoTasks
<1>8. Line
  <2>1. InTurn(handled, fromHeight)
    BY <1>1 DEF InTurn
  <2>2. Turn = 0 /\ FirstUnsent = 0 /\ FirstUnsubmitted = 0
    BY <1>2 DEF Turn, FirstUnsent, FirstUnsubmitted, Off
  <2>3. 0 .. 0 - 1 = {} /\ poolSize \in Nat /\ 0 - 0 <= poolSize
    BY PipelineAssumption
  <2> QED
    BY <1>2, <1>7, <2>1, <2>2, <2>3 DEF Line, Receiving
<1>9. NoMissedWakeup
  BY <1>3 DEF NoMissedWakeup, NoTasks, Heights, None
<1>10. Ends
  BY DEF Ends
<1> QED
  BY <1>4, <1>5, <1>6, <1>8, <1>9, <1>10 DEF IInv

\* A death leaves such a process.
LEMMA ExitStep ==
    ASSUME IInv, Exit
    PROVE  IInv'
<1>1. Quiet'
  BY DEF Exit, Quiet, IInv, TypeOK
<1>2. Quiet' => IInv'
  BY QuietInv, PTL
<1> QED
  BY <1>1, <1>2

\* So does the beginning.
LEMMA InitInv == Init => IInv
<1>1. Init => Quiet
  BY PipelineAssumption DEF Init, Quiet, Heights
<1> QED
  BY <1>1, QuietInv

\* A step that changes nothing keeps the invariant.
LEMMA StutterStep ==
    ASSUME IInv, UNCHANGED vars
    PROVE  IInv'
<1>1. TypeOK' /\ Stages' /\ Counters' /\ NoMissedWakeup' /\ Ends'
  BY DEF vars, IInv, TypeOK, ChannelsOK, Stages, Counters, NoMissedWakeup, Ends, Running
<1>2. Line'
  BY LineFrame DEF vars
<1> QED
  BY <1>1, <1>2 DEF IInv

\* Every step keeps the invariant.
LEMMA NextInv == IInv /\ [Next]_vars => IInv'
<1> SUFFICES ASSUME IInv, [Next]_vars
             PROVE  IInv'
  OBVIOUS
<1>1. ASSUME NEW f \in FromHeights, Start(f)
      PROVE  IInv'
  BY <1>1, StartStep
<1>2. CASE Exit
  BY <1>2, ExitStep
<1>3. CASE NewHead \/ ReceiveHeader \/ Stop
  BY <1>3, SourceStep
<1>4. CASE Dispatcher
  BY <1>4, DispatcherStep, PutInputStep DEF Dispatcher
<1>5. CASE Crawler
  BY <1>5, TakeHeightStep, SubmitStep, CloseOutputStep DEF Crawler
<1>6. ASSUME NEW h \in Heights, Worker(h)
      PROVE  IInv'
  BY <1>6, GetBlockStep, LockStep, CommitStep DEF Worker
<1>7. CASE Receiver
  BY <1>7, ReceiveStep, ReactStep, ShutdownStep DEF Receiver
<1>8. CASE Sleep \/ Ended \/ UNCHANGED vars
  BY <1>8, StutterStep DEF Sleep, Ended
<1> QED
  BY <1>1, <1>2, <1>3, <1>4, <1>5, <1>6, <1>7, <1>8 DEF Next

\* The heights on their way are one unbroken range in every reachable state,
\* for every pool size, start height and number of lives: the invariant from
\* which the theorems below follow.  (dispatchRange, Submit, Commit, ReactBlockEvent)
THEOREM Invariance == Spec => []IInv
  BY InitInv, NextInv, PTL DEF Spec

\* The variables of BlockPipeline keep their types and no channel holds more
\* than its capacity.
THEOREM TypeCorrect == Spec => []TypeOK
<1>1. IInv => TypeOK
  BY DEF IInv
<1> QED
  BY <1>1, Invariance, PTL

\* Sequencer.Commit misses no wakeup: a task that waits for the condition is
\* not the next one, and the mutex is held by the task whose turn it is alone.
THEOREM NoWakeupIsMissed == Spec => []NoMissedWakeup
<1>1. IInv => NoMissedWakeup
  BY DEF IInv
<1> QED
  BY <1>1, Invariance, PTL

-----------------------------------------------------------------------------
(* The properties that speak of sets of heights. *)

\* A channel of at most one item holds its first item.
LEMMA OneElement ==
    ASSUME NEW S, NEW q \in Seq(S), Len(q) <= 1
    PROVE  Elements(q) = IF Size(q) = 0 THEN {} ELSE {Item(q)}
<1>1. Size(q) \in {0, 1}
  BY Channel
<1>2. CASE Size(q) = 0
  BY <1>2 DEF Elements, Size
<1>3. CASE Size(q) = 1
  <2>1. 1..Len(q) = {1}
    BY <1>3 DEF Size
  <2> QED
    BY <1>3, <2>1 DEF Elements, Item
<1> QED
  BY <1>1, <1>2, <1>3

\* Two places for one height each, the first height in the second place.
LEMMA TwoPlaces ==
    ASSUME NEW a \in Int, NEW b \in Int, NEW m \in {0, 1}, NEW n \in {0, 1}, NEW x,
           a + m + n = b, n = 1 => x = a + m
    PROVE  (IF n = 0 THEN {} ELSE {x}) \cup (IF m = 0 THEN {} ELSE {a}) = a .. b - 1
<1>1. CASE n = 0 /\ m = 0
  BY <1>1
<1>2. CASE n = 0 /\ m = 1
  BY <1>2
<1>3. CASE n = 1 /\ m = 0
  BY <1>3
<1>4. CASE n = 1 /\ m = 1
  BY <1>4
<1> QED
  BY <1>1, <1>2, <1>3, <1>4

\* Each place holds a range of heights, and the ranges join.
LEMMA Ranges ==
    ASSUME IInv
    PROVE  /\ Dispatched = fromHeight .. dispatch.i - 1
           /\ Sent = fromHeight .. FirstUnsent - 1
           /\ Running = FirstUnsent .. FirstUnsubmitted - 1
           /\ Queued = FirstUnsubmitted .. dispatch.i - 1
           /\ fromHeight <= FirstUnsent /\ FirstUnsent <= FirstUnsubmitted
           /\ FirstUnsubmitted <= dispatch.i
<1>1. Dispatched = fromHeight .. dispatch.i - 1
  <2>1. dispatch.i = fromHeight \/ dispatch.i <= head + 1
    BY DEF IInv, Counters
  <2>2. \A h \in fromHeight .. dispatch.i - 1 : h \in Heights
    BY <2>1, Numbers DEF Heights
  <2>3. \A h \in Heights : fromHeight <= h /\ h < dispatch.i <=> h \in fromHeight .. dispatch.i - 1
    BY Numbers DEF Heights
  <2> QED
    BY <2>2, <2>3 DEF Dispatched
<1>2. Queued = FirstUnsubmitted .. dispatch.i - 1
  <2>1. Elements(inputQueue) = IF Size(inputQueue) = 0 THEN {} ELSE {Item(inputQueue)}
    BY OneElement DEF IInv, TypeOK, ChannelsOK, InputCapacity
  <2>2. {crawl.height} \ {None} = IF Held(crawl) = 0 THEN {} ELSE {FirstUnsubmitted}
    BY DEF IInv, Line, Held
  <2>3. Size(inputQueue) = 1 => Item(inputQueue) = FirstUnsubmitted + Held(crawl)
    BY DEF IInv, Line
  <2>4. FirstUnsubmitted + Held(crawl) + Size(inputQueue) = dispatch.i
    BY Numbers DEF FirstUnsubmitted
  <2>5. Queued = (IF Size(inputQueue) = 0 THEN {} ELSE {Item(inputQueue)})
                   \cup (IF Held(crawl) = 0 THEN {} ELSE {FirstUnsubmitted})
    BY <2>1, <2>2 DEF Queued
  <2> QED
    BY <2>3, <2>4, <2>5, Numbers, TwoPlaces
<1>3. Sent = fromHeight .. FirstUnsent - 1
  <2>1. Elements(handled) = fromHeight .. Turn - 1
    <3>1. Len(handled) \in Nat /\ Turn = fromHeight + Len(handled)
      BY Numbers DEF Turn, Size
    <3>2. \A k \in 1..Len(handled) : handled[k] = fromHeight + k - 1
      BY DEF IInv, Line, InTurn
    <3>3. Elements(handled) = {fromHeight + k - 1 : k \in 1..Len(handled)}
      BY <3>2 DEF Elements
    <3>4. ASSUME NEW h \in fromHeight .. Turn - 1
          PROVE  h \in {fromHeight + k - 1 : k \in 1..Len(handled)}
      <4>1. h - fromHeight + 1 \in 1..Len(handled) /\ h = fromHeight + (h - fromHeight + 1) - 1
        BY <3>1, Numbers
      <4> QED
        BY <4>1
    <3>5. ASSUME NEW k \in 1..Len(handled)
          PROVE  fromHeight + k - 1 \in fromHeight .. Turn - 1
      BY <3>1, Numbers
    <3> QED
      BY <3>3, <3>4, <3>5
  <2>2. Elements(outputBuffer) = IF Size(outputBuffer) = 0 THEN {} ELSE {Item(outputBuffer)}
    BY OneElement DEF IInv, TypeOK, ChannelsOK, OutputCapacity
  <2>3. {receiver.height} \ {None} = IF Held(receiver) = 0 THEN {} ELSE {Turn}
    BY DEF IInv, Line, Held
  <2>4. Size(outputBuffer) = 1 => Item(outputBuffer) = Turn + Held(receiver)
    BY DEF IInv, Line
  <2>5. Turn + Held(receiver) + Size(outputBuffer) = FirstUnsent
    BY DEF FirstUnsent
  <2>6. Elements(outputBuffer) \cup ({receiver.height} \ {None}) = Turn .. FirstUnsent - 1
    <3>1. Elements(outputBuffer) \cup ({receiver.height} \ {None}) =
            (IF Size(outputBuffer) = 0 THEN {} ELSE {Item(outputBuffer)})
              \cup (IF Held(receiver) = 0 THEN {} ELSE {Turn})
      BY <2>2, <2>3
    <3>2. /\ Turn \in Int /\ FirstUnsent \in Int
          /\ Held(receiver) \in {0, 1} /\ Size(outputBuffer) \in {0, 1}
      BY Numbers
    <3>3. (IF Size(outputBuffer) = 0 THEN {} ELSE {Item(outputBuffer)})
            \cup (IF Held(receiver) = 0 THEN {} ELSE {Turn}) = Turn .. FirstUnsent - 1
      BY <3>2, <2>4, <2>5, TwoPlaces
    <3> QED
      BY <3>1, <3>3
  <2>7. fromHeight <= Turn /\ Turn <= FirstUnsent
    BY <2>5, Numbers DEF Turn
  <2>8. Sent = (fromHeight .. Turn - 1) \cup (Turn .. FirstUnsent - 1)
    BY <2>1, <2>6 DEF Sent
  <2> QED
    BY <2>7, <2>8, Numbers
<1>4. Running = FirstUnsent .. FirstUnsubmitted - 1 /\ FirstUnsent <= FirstUnsubmitted
  BY DEF IInv, Line
<1>5. fromHeight <= FirstUnsent
  BY Numbers DEF Turn, FirstUnsent
<1>6. FirstUnsubmitted <= dispatch.i
  BY Numbers DEF FirstUnsubmitted
<1> QED
  BY <1>1, <1>2, <1>3, <1>4, <1>5, <1>6

\* How many heights a range has.
LEMMA IntervalSize ==
    ASSUME NEW a \in Int, NEW b \in Int, a <= b
    PROVE  Cardinality(a .. b - 1) = b - a
<1>1. b - 1 \in Int
  OBVIOUS
<1>2. Cardinality(a .. b - 1) = IF a > b - 1 THEN 0 ELSE (b - 1) - a + 1
  BY <1>1, FS_Interval
<1> QED
  BY <1>2

\* No height is lost, doubled or out of order on its way from dispatchRange
\* through the crawler, the workers and the sequencer to the reactor.
THEOREM OrderIsKept == Spec => []NothingOnTheWayIsLost
<1>1. ASSUME IInv
      PROVE  NothingOnTheWayIsLost
  <2>1. Dispatched = Sent \cup Running \cup Queued
    BY <1>1, Ranges, Numbers
  <2>2. \A s \in Sent, r \in Running, q \in Queued : s < r /\ r < q
    BY <1>1, Ranges, Numbers
  <2>3. \A s \in Sent, q \in Queued : s < q
    BY <1>1, Ranges, Numbers
  <2>4. Cardinality(Sent) = Len(handled) + Len(outputBuffer)
                              + (IF receiver.height = None THEN 0 ELSE 1)
    <3>1. Cardinality(Sent) = FirstUnsent - fromHeight
      BY <1>1, Ranges, Numbers, IntervalSize
    <3> QED
      <4>1. FirstUnsent - fromHeight = Size(handled) + Size(outputBuffer) + Held(receiver)
        BY <1>1, Numbers DEF FirstUnsent, Turn
      <4> QED
        BY <3>1, <4>1 DEF Size, Held
  <2> QED
    BY <2>1, <2>2, <2>3, <2>4 DEF NothingOnTheWayIsLost
<1> QED
  BY <1>1, Invariance, PTL

\* The dispatcher is never further ahead of the reactor than the pool, the two
\* channels and the two goroutines hold, since each of their sends blocks.
THEOREM SlowReactorHoldsBack == Spec => []BackPressure
<1>1. ASSUME IInv
      PROVE  BackPressure
  <2>1. Cardinality(Dispatched) = dispatch.i - fromHeight
    BY <1>1, Ranges, Numbers, IntervalSize
  <2>2. FirstUnsubmitted - FirstUnsent <= poolSize /\ poolSize \in Nat
    BY <1>1, PipelineAssumption DEF IInv, Line, TypeOK
  <2>3. dispatch.i - FirstUnsubmitted <= 2 /\ FirstUnsent - Turn <= 2
    BY <1>1, Numbers DEF FirstUnsubmitted, FirstUnsent
  <2>4. Turn = fromHeight + Len(handled) /\ Len(handled) \in Nat
    BY <1>1, Numbers DEF Turn, Size
  <2>5. dispatch.i \in Int /\ fromHeight \in Int /\ FirstUnsubmitted \in Int /\ FirstUnsent \in Int
    BY <1>1, Numbers
  <2>6. (dispatch.i - fromHeight) - Len(handled) <= poolSize + 4
    BY <2>2, <2>3, <2>4, <2>5
  <2> QED
    BY <2>1, <2>6 DEF BackPressure
<1> QED
  BY <1>1, Invariance, PTL

\* Nobody sends on a closed channel: FinInput comes after the dispatcher's last
\* PutInput, and close(outputBuffer) after wg.Wait, behind the last height.
THEOREM NobodySendsOnClosed == Spec => []ClosedIsQuiet
<1>1. ASSUME IInv
      PROVE  ClosedIsQuiet
  <2>1. ASSUME outputClosed
        PROVE  Queued = {} /\ Running = {} /\ inputClosed
    <3>1. Size(inputQueue) = 0 /\ Running = {} /\ inputClosed
      BY <1>1, <2>1 DEF IInv, Ends
    <3>2. Held(crawl) = 0
      BY <1>1, <2>1 DEF IInv, Stages, Held
    <3>3. FirstUnsubmitted = dispatch.i
      BY <1>1, <3>1, <3>2, Numbers DEF FirstUnsubmitted
    <3> QED
      BY <1>1, <3>1, <3>3, Ranges, Numbers
  <2> QED
    BY <1>1, <2>1 DEF ClosedIsQuiet, IInv, Stages
<1> QED
  BY <1>1, Invariance, PTL

-----------------------------------------------------------------------------
(* The pipeline is an ordered feed. *)

\* What OrderedFeed sees.
feedVars == <<head, finish, life, fromHeight + Len(handled), dispatch.i>>

\* Every step of the pipeline is one of the ordered feed, or is not seen.
LEMMA FeedStep ==
    ASSUME IInv, [Next]_vars
    PROVE  [Feed!Next]_feedVars
<1> SUFFICES Feed!Next \/ UNCHANGED feedVars
  OBVIOUS
<1>1. ASSUME NEW f \in FromHeights, Start(f)
      PROVE  Feed!Start
  <2>1. fromHeight' \in (FromHeights \ {0}) \cup {Feed!First}
    BY <1>1 DEF Start, GetFromHeight, Feed!First
  <2>2. handled = <<>> /\ handled' = <<>> /\ dispatch'.i = fromHeight'
    <3>1. life = "down" /\ handled' = handled /\ dispatch'.i = fromHeight'
      BY <1>1 DEF Start
    <3>2. handled = <<>>
      BY <3>1, NothingWhileDown, Channel DEF IInv, TypeOK, ChannelsOK
    <3> QED
      BY <3>1, <3>2
  <2>3. fromHeight' \in Int
    BY <1>1, StartStep DEF IInv, TypeOK
  <2>4. fromHeight' + Len(handled') = fromHeight'
    <3>1. Len(handled') = 0
      BY <2>2, EmptySeq
    <3>2. \A x \in Int : x + 0 = x
      OBVIOUS
    <3> QED
      BY <2>3, <3>1, <3>2, Zenon
  <2>5. life = "down" /\ life' = "up" /\ UNCHANGED <<head, finish>>
    BY <1>1 DEF Start
  <2>6. fromHeight' >= fromHeight'
    BY <2>3
  <2> DEFINE turn == fromHeight' + Len(handled')
             owed == dispatch'.i
  <2>7. turn \in (FromHeights \ {0}) \cup {Feed!First}
    BY <2>1, <2>4
  <2>8. owed = turn
    BY <2>2, <2>4
  <2>9. owed >= turn
    BY <2>6, <2>2, <2>4
  <2> HIDE DEF turn, owed
  <2>10. Feed!Start <=> /\ life = "down" /\ life' = "up"
                        /\ turn \in (FromHeights \ {0}) \cup {Feed!First}
                        /\ owed >= turn /\ (owed = turn \/ owed <= head + 1)
                        /\ UNCHANGED <<head, finish>>
    BY Zenon DEF Feed!Start, turn, owed
  <2> QED
    BY <2>5, <2>7, <2>8, <2>9, <2>10
<1>2. CASE Exit
  <2>1. life # "down" /\ life' = "down" /\ UNCHANGED <<head, finish>>
        /\ fromHeight' = 0 /\ handled' = <<>> /\ dispatch'.i = 0
    BY <1>2 DEF Exit, Off
  <2>2. 0 + Len(<<>>) = 0
    OBVIOUS
  <2> QED
    BY <2>1, <2>2 DEF Feed!Exit, Feed!Next
<1>3. CASE NewHead
  <2>1. head' >= head /\ UNCHANGED <<finish, life, fromHeight, handled, dispatch>>
    BY <1>3, Numbers DEF NewHead
  <2> QED
    BY <2>1 DEF Feed!Announce, Feed!Next
<1>4. CASE PutInput
  <2>1. /\ UNCHANGED <<head, finish, life, fromHeight, handled>>
        /\ dispatch'.i = dispatch.i + 1 /\ dispatch.i <= head
    BY <1>4, Numbers DEF PutInput, IInv, Counters
  <2>2. life = "up"
    BY <1>4 DEF PutInput, IInv, TypeOK, Stages, Ends
  <2> QED
    BY <2>1, <2>2, Numbers DEF Feed!Announce, Feed!Next
<1>5. CASE React
  <2>1. /\ UNCHANGED <<head, life, fromHeight, dispatch>>
        /\ finish' = Turn /\ Turn' = Turn + 1 /\ Turn < dispatch.i
    <3>1. receiver.pc = "react" /\ finish' = receiver.height /\ UNCHANGED <<head, life, fromHeight, dispatch>>
          /\ handled' = Append(handled, receiver.height)
      BY <1>5 DEF React
    <3>2. receiver.height = Turn /\ Held(receiver) = 1
      BY <3>1 DEF IInv, Stages, Line, Held
    <3>3. Turn < FirstUnsent
      BY <3>2, Numbers DEF FirstUnsent
    <3>4. Turn < dispatch.i
      BY <3>3, Ranges, Numbers
    <3>5. Size(handled') = Size(handled) + 1
      <4>1. handled \in Seq(Heights) /\ receiver.height \in Heights
        BY <3>1 DEF IInv, TypeOK, ChannelsOK, Stages
      <4> QED
        BY <3>1, <4>1, AppendProperties DEF Size
    <3>6. Turn' = Turn + 1
      BY <3>1, <3>5, Numbers DEF Turn
    <3> QED
      BY <3>1, <3>2, <3>4, <3>6
  <2>2. life = "up"
    BY <1>5, NothingWhileDown DEF React, IInv, TypeOK, Stages
  <2> QED
    BY <2>1, <2>2 DEF Feed!Feed, Feed!Next, Turn, Size
<1>6. CASE Shutdown
  <2>1. /\ UNCHANGED <<head, finish, fromHeight, handled, dispatch>> /\ life' = "over"
        /\ receiver.pc = "recv" /\ outputClosed
    BY <1>6 DEF Shutdown
  <2>2. life = "up"
    BY <2>1, NothingWhileDown DEF IInv, TypeOK, Stages
  <2>3. Turn = dispatch.i
    <3>1. Size(outputBuffer) = 0
      BY <1>6, Channel DEF Shutdown, IInv, TypeOK, ChannelsOK
    <3>2. Size(inputQueue) = 0 /\ Running = {} /\ Held(crawl) = 0 /\ Held(receiver) = 0
      BY <2>1 DEF IInv, Ends, Stages, Held
    <3>3. FirstUnsent = Turn /\ FirstUnsubmitted = dispatch.i
      BY <3>1, <3>2, Numbers DEF FirstUnsent, FirstUnsubmitted
    <3> QED
      BY <3>2, <3>3, Ranges, Numbers
  <2> QED
    BY <2>1, <2>2, <2>3 DEF Feed!End, Feed!Next, Turn, Size
<1>7. CASE ReceiveHeader \/ Stop \/ TakeHeight \/ Submit \/ CloseOutput \/ Receive
           \/ Sleep \/ Ended \/ UNCHANGED vars
  BY <1>7 DEF ReceiveHeader, Stop, TakeHeight, Submit, CloseOutput, Receive, Sleep, Ended,
     vars, feedVars
<1>8. CASE Poll \/ CheckStopped \/ EndRange
  <2>1. dispatch'.i = dispatch.i
    BY <1>8, Numbers DEF Poll, CheckStopped, EndRange, IInv, Counters
  <2> QED
    BY <1>8, <2>1 DEF Poll, CheckStopped, EndRange, feedVars
<1>9. ASSUME NEW h \in Heights, Worker(h)
      PROVE  UNCHANGED feedVars
  BY <1>9 DEF Worker, GetBlock, Lock, Commit, feedVars
<1> QED
  BY <1>1, <1>2, <1>3, <1>4, <1>5, <1>6, <1>7, <1>8, <1>9
  DEF Next, Dispatcher, Crawler, Receiver, Feed!Next

\* The pipeline implements OrderedFeed for every value of the constants: it
\* gives the reactor each block once, in order, none the node has not announced,
\* and the end only when nothing accepted is left, in every life.
THEOREM PipelineFeeds == Spec => FeedSpec
<1>1. Init => Feed!Init
  <2>1. Init => fromHeight + Len(handled) = 0
    BY DEF Init
  <2> QED
    BY <2>1, PipelineAssumption DEF Init, Feed!Init, Off, Heights
<1>2. Spec => Feed!Init /\ [][Feed!Next]_feedVars
  BY <1>1, InitInv, NextInv, FeedStep, PTL DEF Spec
<1> QED
  BY <1>2 DEF FeedSpec, Feed!Spec, feedVars
=============================================================================
