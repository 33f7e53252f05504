--------------------------- MODULE BlockPipeline ---------------------------
(***************************************************************************)
(* From the node's block headers to the reactor.                           *)
(*                                                                         *)
(* The subscription goroutine stores the number of each header it is sent. *)
(* The dispatcher polls it and puts every height up to it into the         *)
(* crawler's input queue.  The crawler hands each height to a worker of    *)
(* its pool, which fetches the block's receipts, retrying until it has     *)
(* them, and commits them to the sequencer.  The sequencer lets the        *)
(* workers send in the order of the heights, into a buffer from which one  *)
(* goroutine passes the blocks through the parser to the reactor, which    *)
(* stores the height of each block it has finished.  A signal stops the    *)
(* dispatcher, which closes the input queue; the end travels down the same *)
(* way and closes the database.  The process may also die at any moment,   *)
(* with everything that is on its way, and starts again from the finish    *)
(* height.                                                                 *)
(*                                                                         *)
(* Both channels hold one item.  The sequencer holds its mutex while it    *)
(* sends.                                                                  *)
(***************************************************************************)
EXTENDS Integers, Sequences, FiniteSets

CONSTANTS
    PoolSizes,    \* pool sizes the crawler may be created with
    FromHeights,  \* values the operator may configure as from_height; 0 is none
    MaxHeight,    \* bound: the highest head
    MaxReorg,     \* bound: how far a header may fall behind the head
    MaxLives,     \* bound: how often the process is started
    Wrap          \* 2^64: heights are unsigned and wrap around

ASSUME PipelineAssumption ==
    /\ PoolSizes \subseteq Nat \ {0}
    /\ FromHeights \subseteq Nat
    /\ MaxHeight \in Nat
    /\ MaxReorg \in Nat
    /\ MaxLives \in Nat
    /\ Wrap \in Nat
    /\ \A h \in FromHeights : h <= MaxHeight + 1
    /\ MaxHeight + 2 < Wrap

VARIABLES
    poolSize,      \* the size of the worker pool
    head,          \* the node's head
    finish,        \* in the database: the last block finished, 0 if none
    life,          \* the process is "down", "up", or "over": its database closed
    lives,         \* how often it was started
    fromHeight,    \* the first height to handle in this life
    headerHeight,  \* the number of the last header received
    stopped,       \* a signal asked the dispatcher to stop
    dispatch,      \* the dispatcher: what it does next, and its counters
    inputQueue,    \* heights waiting for the crawler
    inputClosed,
    crawl,         \* the crawler's loop: what it does next, the height it holds
    tasks,         \* the submitted tasks that are not done, by height
    sequence,      \* the sequencer: the last height sent
    holder,        \* the task that holds the sequencer's mutex, if any
    outputBuffer,  \* blocks waiting for the parser
    outputClosed,
    receiver,      \* the goroutine of parser and reactor, the block it holds
    handled        \* the blocks the reactor has handled in this life, in order

fixed  == <<poolSize, fromHeight, lives>>
source == <<head, headerHeight, stopped>>
feed   == <<inputQueue, inputClosed, crawl>>
pool   == <<tasks, sequence, holder>>
sink   == <<outputBuffer, outputClosed, receiver, handled, finish, life>>
vars   == <<fixed, source, dispatch, feed, pool, sink>>

Heights == 0..MaxHeight
None == -1

InputCapacity == 1
OutputCapacity == 1

Off == [pc |-> "off", height |-> 0, i |-> 0, to |-> 0]
Receiving == [pc |-> "recv", height |-> None]
NoTasks == [h \in Heights |-> "none"]

Init ==
    /\ poolSize \in PoolSizes
    /\ fromHeight = 0 /\ lives = 0 /\ life = "down" /\ finish = 0
    /\ head \in Heights /\ headerHeight = 0 /\ stopped = FALSE
    /\ dispatch = Off
    /\ inputQueue = <<>> /\ inputClosed = FALSE /\ crawl = Receiving
    /\ tasks = NoTasks /\ sequence = 0 /\ holder = None
    /\ outputBuffer = <<>> /\ outputClosed = FALSE
    /\ receiver = Receiving /\ handled = <<>>

-----------------------------------------------------------------------------
(* Start and death of the process. *)

\* Bug: the height before the first is not wrapped around.
NewSequencerSigned(from) == from - 1

NewSequencer(from) == (from - 1) % Wrap

\* Bug: the block after the last finished one is taken for handled.
GetFromHeightSkipsOne(configured) ==
    IF configured # 0 THEN configured ELSE IF finish # 0 THEN finish + 2 ELSE head

GetFromHeight(configured) ==
    IF configured # 0 THEN configured ELSE IF finish # 0 THEN finish + 1 ELSE head

\* main, up to the first poll.  The node's head is the first header.
Start(configured) ==
    /\ life = "down"
    /\ lives < MaxLives
    /\ LET from == GetFromHeight(configured)
       IN  /\ fromHeight' = from
           /\ sequence' = NewSequencer(from)
           /\ dispatch' = [pc |-> "poll", height |-> from, i |-> from, to |-> head]
    /\ headerHeight' = head
    /\ life' = "up"
    /\ lives' = lives + 1
    /\ UNCHANGED <<poolSize, head, stopped, feed, tasks, holder, outputBuffer, outputClosed,
                   receiver, handled, finish>>

\* The process is killed, dies of a fatal error or, over, returns from main.
\* Only the database is left.
Exit ==
    /\ life # "down"
    /\ lives < MaxLives
    /\ life' = "down"
    /\ fromHeight' = 0 /\ headerHeight' = 0 /\ stopped' = FALSE
    /\ dispatch' = Off
    /\ inputQueue' = <<>> /\ inputClosed' = FALSE /\ crawl' = Receiving
    /\ tasks' = NoTasks /\ sequence' = 0 /\ holder' = None
    /\ outputBuffer' = <<>> /\ outputClosed' = FALSE
    /\ receiver' = Receiving /\ handled' = <<>>
    /\ UNCHANGED <<poolSize, lives, head, finish>>

\* The process has ended and is not started again.
Ended == life = "over" /\ lives = MaxLives /\ UNCHANGED vars

-----------------------------------------------------------------------------
(* The node, its header subscription and the signal. *)

NewHead ==
    /\ head < MaxHeight
    /\ head' = head + 1
    /\ UNCHANGED <<fixed, headerHeight, stopped, dispatch, feed, pool, sink>>

\* Headers may be missed, while the subscription is renewed, and the number
\* of one may be lower than that of the last, after a reorganisation.
ReceiveHeader ==
    /\ life = "up"
    /\ headerHeight' \in {h \in Heights : head - MaxReorg <= h /\ h <= head}
    /\ headerHeight' # headerHeight
    /\ UNCHANGED <<fixed, head, stopped, dispatch, feed, pool, sink>>

Stop ==
    /\ life = "up"
    /\ ~stopped
    /\ stopped' = TRUE
    /\ UNCHANGED <<fixed, head, headerHeight, dispatch, feed, pool, sink>>

-----------------------------------------------------------------------------
(* The dispatcher. *)

Poll ==
    /\ dispatch.pc = "poll"
    /\ headerHeight >= dispatch.height
    /\ dispatch' = [dispatch EXCEPT !.pc = "range", !.i = dispatch.height, !.to = headerHeight]
    /\ UNCHANGED <<fixed, source, feed, pool, sink>>

\* Nothing new: sleep and poll again.
Sleep ==
    /\ dispatch.pc = "poll"
    /\ headerHeight < dispatch.height
    /\ UNCHANGED vars

\* Bug: a stopped dispatcher returns without FinInput.
CheckStoppedSilent ==
    /\ dispatch.pc = "range"
    /\ dispatch.i <= dispatch.to
    /\ dispatch' = [dispatch EXCEPT !.pc = IF stopped THEN "done" ELSE "put"]
    /\ UNCHANGED <<fixed, source, inputQueue, inputClosed, crawl, pool, sink>>

CheckStopped ==
    /\ dispatch.pc = "range"
    /\ dispatch.i <= dispatch.to
    /\ dispatch' = [dispatch EXCEPT !.pc = IF stopped THEN "done" ELSE "put"]
    /\ inputClosed' = stopped
    /\ UNCHANGED <<fixed, source, inputQueue, crawl, pool, sink>>

\* Bug: the last height of the range is dispatched once more.
EndRangeInclusive ==
    /\ dispatch.pc = "range"
    /\ dispatch.i > dispatch.to
    /\ dispatch' = [dispatch EXCEPT !.pc = "poll", !.height = dispatch.to]
    /\ UNCHANGED <<fixed, source, feed, pool, sink>>

EndRange ==
    /\ dispatch.pc = "range"
    /\ dispatch.i > dispatch.to
    /\ dispatch' = [dispatch EXCEPT !.pc = "poll", !.height = dispatch.to + 1]
    /\ UNCHANGED <<fixed, source, feed, pool, sink>>

PutInput ==
    /\ dispatch.pc = "put"
    /\ Len(inputQueue) < InputCapacity
    /\ inputQueue' = Append(inputQueue, dispatch.i)
    /\ dispatch' = [dispatch EXCEPT !.pc = "range", !.i = @ + 1]
    /\ UNCHANGED <<fixed, source, inputClosed, crawl, pool, sink>>

-----------------------------------------------------------------------------
(* The crawler. *)

Running == {h \in Heights : tasks[h] # "none"}

TakeHeight ==
    /\ crawl.pc = "recv"
    /\ inputQueue # <<>>
    /\ crawl' = [pc |-> "submit", height |-> Head(inputQueue)]
    /\ inputQueue' = Tail(inputQueue)
    /\ UNCHANGED <<fixed, source, dispatch, inputClosed, pool, sink>>

\* Bug: the pool starts a worker for every task.
SubmitUnlimited ==
    /\ crawl.pc = "submit"
    /\ tasks' = [tasks EXCEPT ![crawl.height] = "fetch"]
    /\ crawl' = Receiving
    /\ UNCHANGED <<fixed, source, dispatch, inputQueue, inputClosed, sequence, holder, sink>>

\* Submit blocks while every worker is busy.
Submit ==
    /\ crawl.pc = "submit"
    /\ Cardinality(Running) < poolSize
    /\ tasks' = [tasks EXCEPT ![crawl.height] = "fetch"]
    /\ crawl' = Receiving
    /\ UNCHANGED <<fixed, source, dispatch, inputQueue, inputClosed, sequence, holder, sink>>

\* Bug: the output is closed without wg.Wait.
CloseOutputAtOnce ==
    /\ crawl.pc = "recv"
    /\ inputQueue = <<>> /\ inputClosed
    /\ crawl' = [crawl EXCEPT !.pc = "done"]
    /\ outputClosed' = TRUE
    /\ UNCHANGED <<fixed, source, dispatch, inputQueue, inputClosed, pool, outputBuffer,
                   receiver, handled, finish, life>>

\* The input is over and drained, and wg.Wait returns.
CloseOutput ==
    /\ crawl.pc = "recv"
    /\ inputQueue = <<>> /\ inputClosed
    /\ Running = {}
    /\ crawl' = [crawl EXCEPT !.pc = "done"]
    /\ outputClosed' = TRUE
    /\ UNCHANGED <<fixed, source, dispatch, inputQueue, inputClosed, pool, outputBuffer,
                   receiver, handled, finish, life>>

-----------------------------------------------------------------------------
(* A worker's task, and the sequencer's Commit that ends it. *)

\* Bug: a fetch that fails is given up, and nothing is committed.
GetBlockOnce(h) ==
    /\ tasks[h] = "fetch"
    /\ \E step \in {"lock", "none"} : tasks' = [tasks EXCEPT ![h] = step]
    /\ UNCHANGED <<fixed, source, dispatch, feed, sequence, holder, sink>>

\* An attempt that fails is repeated without end.
GetBlock(h) ==
    /\ tasks[h] = "fetch"
    /\ tasks' = [tasks EXCEPT ![h] = "lock"]
    /\ UNCHANGED <<fixed, source, dispatch, feed, sequence, holder, sink>>

\* Bug: a task sends without waiting for its turn.
LockAnyTurn(h) ==
    /\ tasks[h] = "lock"
    /\ holder = None
    /\ tasks' = [tasks EXCEPT ![h] = "send"]
    /\ holder' = h
    /\ UNCHANGED <<fixed, source, dispatch, feed, sequence, sink>>

\* The task whose turn it is keeps the mutex; another one waits without it.
Lock(h) ==
    /\ tasks[h] = "lock"
    /\ holder = None
    /\ IF (sequence + 1) % Wrap = h
       THEN /\ tasks' = [tasks EXCEPT ![h] = "send"]
            /\ holder' = h
       ELSE /\ tasks' = [tasks EXCEPT ![h] = "wait"]
            /\ UNCHANGED holder
    /\ UNCHANGED <<fixed, source, dispatch, feed, sequence, sink>>

\* Bug: no broadcast after the sequence has changed.
CommitSilent(h) ==
    /\ tasks[h] = "send"
    /\ Len(outputBuffer) < OutputCapacity
    /\ outputBuffer' = Append(outputBuffer, h)
    /\ sequence' = h
    /\ tasks' = [tasks EXCEPT ![h] = "none"]
    /\ holder' = None
    /\ UNCHANGED <<fixed, source, dispatch, feed, outputClosed, receiver, handled, finish, life>>

\* The mutex is held from the send on, so the new sequence, the broadcast
\* and the unlocking that follow are seen together with it.
Commit(h) ==
    /\ tasks[h] = "send"
    /\ Len(outputBuffer) < OutputCapacity
    /\ outputBuffer' = Append(outputBuffer, h)
    /\ sequence' = h
    /\ tasks' = [g \in Heights |-> IF g = h THEN "none"
                                   ELSE IF tasks[g] = "wait" THEN "lock" ELSE tasks[g]]
    /\ holder' = None
    /\ UNCHANGED <<fixed, source, dispatch, feed, outputClosed, receiver, handled, finish, life>>

-----------------------------------------------------------------------------
(* The goroutine that runs the parser and the reactor. *)

Receive ==
    /\ receiver.pc = "recv"
    /\ outputBuffer # <<>>
    /\ receiver' = [pc |-> "react", height |-> Head(outputBuffer)]
    /\ outputBuffer' = Tail(outputBuffer)
    /\ UNCHANGED <<fixed, source, dispatch, feed, pool, outputClosed, handled, finish, life>>

\* Parser and reactor handle the block, at the end of which its height is stored.
React ==
    /\ receiver.pc = "react"
    /\ handled' = Append(handled, receiver.height)
    /\ finish' = receiver.height
    /\ receiver' = Receiving
    /\ UNCHANGED <<fixed, source, dispatch, feed, pool, outputBuffer, outputClosed, life>>

\* The output is over: the database is closed, and main is let go.
Shutdown ==
    /\ receiver.pc = "recv"
    /\ outputBuffer = <<>> /\ outputClosed
    /\ receiver' = [receiver EXCEPT !.pc = "done"]
    /\ life' = "over"
    /\ UNCHANGED <<fixed, source, dispatch, feed, pool, outputBuffer, outputClosed, handled,
                   finish>>

-----------------------------------------------------------------------------
Dispatcher == Poll \/ CheckStopped \/ EndRange \/ PutInput
Crawler == TakeHeight \/ Submit \/ CloseOutput
Worker(h) == GetBlock(h) \/ Lock(h) \/ Commit(h)
Receiver == Receive \/ React \/ Shutdown

Next ==
    \/ \E f \in FromHeights : Start(f)
    \/ Exit
    \/ NewHead \/ ReceiveHeader \/ Stop
    \/ Dispatcher \/ Sleep
    \/ Crawler
    \/ \E h \in Heights : Worker(h)
    \/ Receiver
    \/ Ended

Spec == Init /\ [][Next]_vars

\* Every goroutine that can go on does, and a process that is down is started
\* again.  That includes a fetch, which is retried until the node answers.
Fairness ==
    /\ WF_vars(\E f \in FromHeights : Start(f))
    /\ WF_vars(Dispatcher)
    /\ WF_vars(Crawler)
    /\ \A h \in Heights : WF_vars(Worker(h))
    /\ WF_vars(Receiver)

FairSpec == Spec /\ Fairness

-----------------------------------------------------------------------------
(* What the pipeline promises. *)

TaskSteps == {"none", "fetch", "lock", "wait", "send"}

\* The channels hold heights, and no more than their capacities.
ChannelsOK ==
    /\ inputQueue \in Seq(Heights) /\ Len(inputQueue) <= InputCapacity
    /\ outputBuffer \in Seq(Heights) /\ Len(outputBuffer) <= OutputCapacity
    /\ handled \in Seq(Heights)

\* The variables keep their types, the channels their capacities.
TypeOK ==
    /\ poolSize \in PoolSizes /\ fromHeight \in Nat
    /\ head \in Heights /\ headerHeight \in Heights
    /\ stopped \in BOOLEAN /\ inputClosed \in BOOLEAN
    /\ outputClosed \in BOOLEAN
    /\ finish \in Heights /\ lives \in 0..MaxLives /\ life \in {"down", "up", "over"}
    /\ dispatch \in [pc: {"off", "poll", "range", "put", "done"}, height: Nat, i: Nat, to: Nat]
    /\ crawl \in [pc: {"recv", "submit", "done"}, height: Heights \cup {None}]
    /\ receiver \in [pc: {"recv", "react", "done"}, height: Heights \cup {None}]
    /\ tasks \in [Heights -> TaskSteps]
    /\ sequence \in 0..Wrap-1
    /\ holder \in Heights \cup {None}
    /\ ChannelsOK

\* The heights from `from` on that the dispatcher has put into the queue.
Dispatched == {h \in Heights : fromHeight <= h /\ h < dispatch.i}

Elements(s) == {s[i] : i \in 1..Len(s)}

\* Where the heights on their way to the reactor are: after the sequencer, in
\* a worker, before the pool.
Sent == Elements(handled) \cup Elements(outputBuffer) \cup ({receiver.height} \ {None})
Queued == Elements(inputQueue) \cup ({crawl.height} \ {None})

\* No height is lost, doubled or out of order anywhere on its way: what was
\* dispatched is what was sent, up to the sequence, then what the workers
\* have, then what waits for one.  (PutInput, Submit, Commit)
NothingOnTheWayIsLost ==
    /\ Dispatched = Sent \cup Running \cup Queued
    /\ \A s \in Sent, r \in Running, q \in Queued : s < r /\ r < q
    /\ \A s \in Sent, q \in Queued : s < q
    /\ Cardinality(Sent) = Len(handled) + Len(outputBuffer)
                             + (IF receiver.height = None THEN 0 ELSE 1)

\* A slow reactor holds the dispatcher back: it is never further ahead than
\* the workers, the two channels and the two goroutines between can hold.
BackPressure ==
    Cardinality(Dispatched) - Len(handled) <= poolSize + 4

\* While a task holds the sequencer's mutex it is its turn, and a task that
\* waits without it is not next, so no wakeup is missed.
NoMissedWakeup ==
    /\ \A h \in Heights : tasks[h] = "send" <=> holder = h
    /\ \A h \in Heights : tasks[h] = "wait" => (sequence + 1) % Wrap # h
    /\ holder # None => (sequence + 1) % Wrap = holder

\* Nobody sends on a closed channel, which would panic.
ClosedIsQuiet ==
    /\ inputClosed => dispatch.pc = "done"
    /\ outputClosed => inputClosed /\ Queued = {} /\ Running = {}

\* Every height that was dispatched is handled, in this life of the process ...
\* (getBlockRetry, Commit)
DispatchedIsHandled ==
    \A h \in Heights : h \in Dispatched ~> (h \in Elements(handled) \/ life = "down")

\* ... or in a later one: once a block was finished, a crash costs none of the
\* blocks on their way: each is handled after the finished ones, unless the
\* operator stops the process before it comes to it or configures a later
\* height, or the headers the next life gets are below it.  (SetFinishHeight,
\* GetFromHeight)
CrashCostsNothing ==
    \A h \in Heights :
       finish \in 1..h-1 /\ h \in Dispatched
          ~> \/ h \in Elements(handled) \/ stopped
             \/ life = "up" /\ fromHeight \in FromHeights \ {0} /\ fromHeight > h
             \/ life = "up" /\ headerHeight < h

\* A stop ends the process, once there is a header not yet dispatched to stop
\* at (dispatchRange alone checks, an idle dispatcher does not) that no lower
\* one replaces; and an end that has begun runs through.  (Stop, FinInput)
StopEnds ==
    /\ <>[](stopped /\ headerHeight >= dispatch.i) => <>(life = "over")
    /\ inputClosed ~> life # "up"

Feed == INSTANCE OrderedFeed WITH
    Configured <- FromHeights \ {0},
    turn <- fromHeight + Len(handled), owed <- dispatch.i

\* The pipeline is an ordered feed: the reactor is given each height once, in
\* order, none the node has not announced, the end after the last one, and after
\* a crash the block that follows the last one it finished.
FeedSpec == Feed!Spec
=============================================================================
