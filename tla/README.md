# Uniswap V3 tick state indexer: TLA+ models and proofs

`src/` is a Go program that keeps, in RocksDB, a replica of the tick states of Uniswap V3 pools and
serves it over HTTP. It follows a chain block by block, applies the Mint, Burn and Swap events of each
pool, and loads a pool it does not have yet through a lens contract. This directory models the
program in TLA+, checks the models with TLC and proves the main results about the indexer, the
pipeline, the database and the answers with TLAPS.

## 1. The system

| part | state | operations | talks to |
|---|---|---|---|
| task dispatcher (`task_dispatcher.go`) | last header height, stop flag, next height | subscribe, poll, `dispatchRange`, `Stop`, `GetFromHeight` | node; puts heights into the crawler's queue |
| block crawler (`block_crawler.go`) | input queue and output buffer (one item each), worker pool, wait group | `PutInput`, `FinInput`, `Start`, `getBlockRetry` | node; commits through the sequencer |
| sequencer (`sequencer.go`) | last height sent, mutex, condition | `Commit` | sends into the output buffer |
| block parser (`block_parser.go`) | none | `ParseBlock` | hands the events to the reactor |
| event reactor (`event_reactor.go`) | none of its own between blocks | `ReactBlockEvent`, `reactEvent`, `reactTick`, `shutdown` | database, pool state getter |
| pool state getter (`pool_state_getter.go`) | none | `GetPoolState` | cache, database, lens; called by the reactor and by every HTTP handler |
| pair cache (`cache.go`, `pair.go`) | memory cache over Redis | `GetPair` | Redis, filled by another service |
| contract caller, lens (`contract_caller.go`, `UniswapV3Lens.sol`) | none | `getAllTicks` at the node's head | HTTP node |
| pool database (`safe_db.go`, `db_wrap.go`, `tick_key.go`, `rocks_db.go`) | per pool: height, spacing, current tick, tick states; finish height; a table of locks | gets, sets, batch, range scan | shared by the reactor and the handlers |
| HTTP API (`api_server.go`, `liquidity_to_amount.go`, `data_render.go`) | none | `HandlerPoolState` | pool state getter |
| `main.go`, `config.go` | | start, signal, wait | all |

What is hard here: the reactor and the HTTP handlers write the same records without a transaction
around them; an event is several writes and the process may die between any two; the lens answers for
another height than the one being handled; blocks are fetched in parallel and must be handled in
order; stopping travels through two channels; ticks are negative as often as positive. `PROJECT.json`
lists each hazard at its line with the properties that cover it.

What makes each part correct:

* **reactor with getter**: a stored record is the chain's state of the pool at the height it names; no
  event that was passed is missing; after a crash the replay starts at the right event; the indexer
  keeps up with the chain.
* **pipeline**: every height from the first one on is handled once, in order; a slow reactor holds the
  dispatcher back; no wakeup is missed; nobody sends on a closed channel; a stop ends the process; a
  crash costs none of the blocks that were on their way.
* **parser and lens**: a record that was built from logs is the one the lens would return; the lens
  lists every initialised tick.
* **database**: each operation is atomic; a scan returns a pool's ticks in order and no others.
* **API**: an answer's ranges carry the liquidity of the chain's positions, without holes, and hold the
  current tick; its amounts are those of the positions it shows.

## 2. The modules

| module | what it is |
|---|---|
| `PoolChain` | blocks, events, and the state of a pool at a height |
| `EventReactor` | reactor, pool state getter, pair cache, lens calls, API handlers, crash and restart |
| `PoolReplica` | abstract specification: how a pool's replica may move along the chain; `EventReactor` implements it (`ReplicaSpec`) |
| `MCEventReactor` | blocks for TLC |
| `PoolChainLemmas`, `EventReactorProofs`, `PoolReplicaProofs` | proofs about the reactor |
| `BlockPipeline` | start height, dispatcher, crawler, workers, sequencer, receiver, signal, crash and restart |
| `OrderedFeed` | abstract specification of what the pipeline gives the reactor; both implement it (`FeedSpec`, `FedInOrder`) |
| `BlockPipelineProofs` | proofs about the pipeline |
| `SortedMaps` | a map laid over another, the keys of a map in order, the elements of a list at some indices |
| `PoolStore` | SafeDB's locks over the keys in RocksDB |
| `AtomicStore` | abstract specification of the database (`StoreSpec`) |
| `MCPoolStore` | the operations TLC calls |
| `SortedMapLemmas` | lemmas about listings of integers |
| `PoolStoreProofs` | proofs about the database |
| `BlockParser` | logs and receipts to events |
| `TickLens` | the lens contract's walk over a pool's tick bitmap |
| `GoIntegers` | 32 bit integers and division |
| `PoolStateAPI`, `MCPoolStateAPI` | a pool from its logs to the answer of a request: composes parser, lens, the reactor's arithmetic, requests, windows, ranges and amounts |
| `TickLensLemmas` | lemmas about sums, flattened lists and division; proof about the lens's walk |
| `PoolStateAPIProofs` | proofs about records and answers |

They meet where the code's parts do. `BlockPipeline`'s `React` is one pass of `EventReactor` over a
block. `EventReactor` does not have the queues; its `next` goes from height to height. That this is
what the queues give it, in every life of the process, is shown from both sides: `BlockPipeline`
implements `OrderedFeed` with the blocks it has handed over, and `EventReactor` implements the same
`OrderedFeed` with the blocks it has finished. `EventReactor` takes each
database operation as one step, which is what `AtomicStore` promises and `PoolStore` implements.
`PoolStateAPI` handles a block and a request whole, which is what `EventReactor` takes apart; in turn
its events are numbers decoded from logs, which `EventReactor` takes as given.

A definition whose comment begins with `Bug:` is not part of a model: it is a plausible mistake in the
definition below it, and `PROJECT.json` names the property that finds it.

### EventReactor

*State.* `chain` is the chain, `listed` and `memory` what Redis and the memory cache know, `db` and
`finish` the database, `pc`, `next`, `idx`, `snap`, `read` the reactor's place in `ReactBlockEvent`,
`api` that of each handler in `GetPoolState`. `pending` and `fault` are history: they do not influence
any step of the others.

*Actions.* One per access to something shared. For an event the reactor does `GetHeight`; then, for a
pool without a height, `PairFound` or `PairMissing`, `LoadStored`, `CallLens`, `SaveSnapshot`; then
`ReadLower`, `WriteLower`, `ReadUpper`, `WriteUpper` for a Mint or Burn, `ReactSwap` for a Swap; then
`Mark` (`SetHeight`). `FinishBlock` stores the finish height. A handler does `ApiRequest`, `ApiLoad`,
`ApiCall`, `ApiSave`, or fails at any point. `ListPair`, `DelistPair` and `ExpirePair` change what Redis
and the memory cache say of a pair. `Crash` keeps the database and loses all else; `Boot`
computes the height to go on from. A panic and a `Log.Fatal` are crashes too.

*Data.* Amounts are symbolic: a tick's net liquidity is the formal sum of the events that contributed,
a function from event ids to coefficients. Two such sums are equal exactly when the numbers are for
all amounts, so nothing cancels by accident. A current tick is named by the swap that set it.

*Faults.* The code has several ways for a replica to leave the chain, found while the model was
written. `fault[p]` names the first that happened: `repeat` (a second event of the pool in a block),
`overwrite` (a snapshot stored over a record that an event lies between), `torn` (a crash inside a
Mint or Burn), `io` (a dropped write error), `gap` (blocks below the height the reactor started from),
`skip` (a pair that is not found for a stored pool). Each is defined by what happened, not by its
effect. The invariants say that there is no other way: without a fault the replica is exact. Three runs
show what the first three do, a fourth that a request may read a half applied event.

*Assumptions.* The chain only grows. The chain's part (`NetAt`, `IsTickAt`, `Initialised`) is modelled
from what the program takes from the pool contracts; a tick once touched stays initialised, which
leaves out positions withdrawn to zero, which `PoolStateAPI` has. The lens call is atomic at some height at most `MaxLag` behind
the head. Each database operation is atomic (see `PoolStore`).

### BlockPipeline

*State.* The header height and stop flag, the dispatcher's loop (`dispatch`), the two channels with
their closed flags, the crawler's loop, the step of each submitted task, the sequencer's sequence and
mutex, the receiver, the blocks handled in this life, and whether the process is down, up or over. In
the database is only `finish`, which survives.

*Actions.* The steps of each goroutine between two that others can see. `Lock` acquires the mutex and
checks the turn: a task whose turn it is not goes to wait, giving the mutex back in the same step, as
`Cond.Wait` does. `Commit` sends with the mutex held; the new sequence, the broadcast and the unlock
follow in the same step, because nobody can see between them. Heights are unsigned: `fromHeight - 1`
wraps at `Wrap`, which stands for 2^64. Headers may skip and fall back by `MaxReorg`.

`Start` computes the first height (`GetFromHeight`) and sets the sequencer below it. `Exit` is a death at
any step, or the end of main after `Shutdown`: everything but the database is gone, also the blocks
in the queues and in the workers. `React` stores the finish height, and how the block is handled inside
is `EventReactor`.

*Left out.* The contents of blocks, and a fetch error that retrying gives up on (`retry.Attempts(0)`
never does).

### PoolStore

The database is a function on keys `<<prefix, address, tick bytes>>`. Integers are converted to their
bytes, ticks with the offset that makes them sort. `GetRange` includes its end, `DeleteRange` does not.
A client's operation is: find the lock, make it if there is none (looking again), take it shared or
exclusive, one batch or one to four reads, release. A lock is named by the goroutine that made it, so a
second lock of the same pool would be a different one. A scan is one step, since an iterator reads a
snapshot. `StoreSpec` takes a read to happen at its last key and a write at its batch.
`DeletePoolState`, which nothing calls, leaves a state of the greatest tick; `AtomicStore` says so.
`CallersAssumption` is what the callers pass: ticks within the contract's bounds, so that they fit into
32 bits, a height that is not negative and a spacing that is positive as an integer.

### BlockParser, TickLens

Pure operators. A log is an address, topics and data words; words are unsigned, so a negative tick is
its two's complement (`Word`). `ParseBlock` drops failed receipts, logs without topics, of other kinds,
with a wrong number of topics or too little data, and keeps the order of the rest. The pool contract's
bitmap (`TickBitmap`) puts a tick's bit by rounding down; the lens's walk is bounded by `MinWord` and
`MaxWord`, whose division rounds towards zero before its shift rounds down.

### PoolStateAPI

*State.* `liquidity` and `tick` are the pool contract; `record` is what is stored of it, if anything;
`answer` is the last answer.

*Actions.* `Mint`, `Burn` (of everything, of a part, or of nothing, which collects fees) and `Swap` change
the contract and write a log in its layout into a block with other receipts and logs. `Handle` parses
the block and reacts to its events; a pool that is not stored is loaded as it was before the block or
after it, or skipped. `ReactBlockEvent` applies the first event of the pool in a block, which stores the
height that those after it are skipped for; in these blocks there is one, so that the pool is always
below the block and heights need not be kept. `HandlerPoolState` checks the parameters, loads a pool
that is not stored and answers from the record alone, or fails, whether the pool is stored or not.

*References.* `LiquidityAt(t)`, the sum over the contract's positions that contain `t`, with which the
ranges built from prefix sums are compared; what the lens would return now, with which the record is
compared; and what the positions are worth between the ends of an answer, with which its amounts are.
Integers have `IntSize` values (2^32) and words `WordSize` (2^256), with Go's and Solidity's rounding of
division. Prices are symbolic: an amount is a formal sum of (inverse) square roots of prices at ticks,
so two are equal exactly when the exact numbers are for all prices; the rounding of `big.Float` and the
powers of ten are left out.

## 3. The runs

| run | asks | bounds | states |
|---|---|---|---|
| `reactor_api` | reactor against a handler, lagging lens, changing pairs, one crash | 1 pool, 2 ticks, 3 blocks of up to 2 events, 1 handler, lag 1 | 971,920 |
| `reactor_restart` | two crashes, changed `from_height`, failing writes; the order of heights | 1 pool, 3 blocks, `from_height` 0 or 3 | 1,796,610 |
| `reactor_live` | every block is finished | 2 pools that share blocks, 1 crash | 117,788 |
| `pipeline` | order, limits, locks, end, restart | pool of 1 or 2, heights from 0, 4 or the finish height up to 5, headers back by 1, 2 lives | 696,943 |
| `pipeline_live` | everything dispatched is handled, in this life or the next; a stop ends | pool of 2, heights up to 3, 2 lives | 48,725 |
| `api` | logs against lens, ranges and amounts against positions | spacing 3, ticks -10..10 in 4 words of 2 bits, 3 positions of up to 2, offsets 0, 1, 43, 127, integers of 128 values | 9,318 |
| `store` | atomicity, locks, keys | 2 pools with adjacent keys, 2 goroutines, ticks -1..1, 14 operations | 432,063 |
| `reactor_same_block`, `reactor_overwrite`, `reactor_crash`, `reactor_torn_read`, `api_window` | the five disagreements of section 5 | | |

Why the bounds are enough. For one pool, three blocks allow a load, an event after it and one more that
a replay can go wrong on; two events in a block are the fewest that disagree about the pool's height.
One handler against the reactor gives every race of `GetPoolState`, since the handler may act any
number of times; pools do not share anything but the block they are in. In the pipeline six heights
are the fewest that fill a pool of one, both channels and both goroutines and leave one over; two
workers are the fewest that finish out of order; two lives give a death at every step and what the next
life makes of it, and a third would begin like the second. In the store two goroutines are the fewest that make
a lock twice. In `api` the positions overlap, touch, are nested and straddle zero, their ends lie in
the first, the last and the inner words of the bitmap (the lowest multiple of the spacing is not at the
beginning of its word, so the two roundings differ), they come and go, so that ticks are left behind
without liquidity, and the offsets
take in the default, whose window at tick 0 holds all positions, one that overflows when multiplied
and one that is negative as a 32 bit integer. The spacing does not divide the number of integers, as
those of Uniswap mostly do not divide 2^32: a window that overflows then ends between two multiples of
the spacing. The proofs below need none of the bounds.

*Fairness.* `reactor_live` assumes that main and the reactor are scheduled (weak fairness): each wait
in them ends by an answer or an error. That includes each attempt of a lens call: the five minutes bound
the retries but are not given to the attempt (`contract_caller.go:71`), so a node that never answers
would hold the reactor for ever. It does not assume that a lens call
succeeds within a life of the process; an error is a crash, of which the run allows one. A pool
whose lens call always reverts stops the real indexer at its block for good
(`contract_caller.go:100`, `event_reactor.go:72`); `MaxCrashes` excludes it. Nothing is assumed of the
handlers, the chain, Redis or the cache. `pipeline_live` assumes that the goroutines are scheduled and
that a fetch, which is repeated without end, succeeds in the end; it assumes that a process
that is down is started again, and no new heads, no headers and no signal. No action of it needs strong fairness: a task that waits for the mutex finds it free
again and again only until those before it have sent, and each sends once.

`CrashCostsNothing` says of every height dispatched above the finish height that the reactor handles it,
whatever number of deaths the bound allows, except where the code cannot: before the first block is
finished there is nothing to go on from (the next life starts at the head), the operator may configure a
later height or stop the process first, and a node whose headers are below the height lets the dispatcher
wait. `StopEnds` has the premise that a header not yet dispatched stays there: `Stop` is looked at only
inside `dispatchRange`, so an idle dispatcher goes on polling after a signal until the next header.

*Deadlock* is checked in all runs. The model has explicit idle steps where the code really waits
(`AwaitHead`, `Sleep`) and where the process has ended (`Ended`).

## 4. The proofs

Each theorem holds for every value of the constants that the named assumptions allow; the checks of
section 3 need small values for the same statements.

### The reactor

In `EventReactorProofs`, over lemmas about the chain in `PoolChainLemmas`, from `ChainAssumption` (blocks
are sequences of events within the bounds, the two ticks of an event differ) and `ReactorAssumption`:

* `TypeCorrect`: `Spec => []TypeOK`
* `ReplicasAreExact`: `Spec => []ReplicaExact`
* `NothingIsLost`: `Spec => []NothingLost`
* `ReplayStartsRight`: `Spec => []PendingIsNext`
* `UntrackedStaysEmpty`: `Spec => []UntrackedIsEmpty`
* `Invariance`: `Spec => [](Typed /\ IInv)`, from which the others follow
* `ReactorIsFed`: `Spec => FedInOrder`, the reactor implements `OrderedFeed`; every step is one of it or
  leaves all it sees alone (`FeedStutter`), for which `Typed` is enough
* `ReplicasMoveRight` (in `PoolReplicaProofs`): `Spec => ReplicaSpec`, the reactor with its handlers and
  crashes implements `PoolReplica`

`ReplicaExact` is not inductive: it says nothing while an event is being applied, and nothing of what
the reactor or a handler is about to store. `IInv` adds both. `PoolInv(p)` describes the stored net
liquidity at every moment: the contributions of the events up to the pool's height and of the written
half of the pending one. `ApplyInv` says that the reactor, between the height check and `SetHeight`,
still finds the pool below the block, and that the tick it read is still what is stored. That is where
the handlers come in: the only thing that could change it is a handler storing a snapshot meanwhile,
which `SaveFault` records. `SnapInv` says that a snapshot waiting to be stored is the chain's state at
its height, however far the chain has grown since. `NothingLost` is needed within the induction: it
makes the event that the reactor stands at the *first* one that the replica lacks (`FirstAfter`), so that
applying it gives the state at the new height (`OneMore`).

The proof that a step keeps `IInv` has one lemma per action; those that write nothing share `LocalStep`.
For each pool that a step does not touch `PoolFrame` applies.

For `ReplicasMoveRight` the steps that change a height matter: `SetPoolState` loads a pool, over no event
since `SaveFault` would name it, from a snapshot that is of some height of the chain (`SnapInv`);
`SetHeight` advances it to its next event, which is `FirstAfter` again. Every other step may at most lose
a replica, for good (`Loses`).

### The pipeline

In `BlockPipelineProofs`, from `PipelineAssumption`, for pools of any size and any number of heights and
lives:

* `TypeCorrect`: `Spec => []TypeOK`
* `OrderIsKept`: `Spec => []NothingOnTheWayIsLost`
* `SlowReactorHoldsBack`: `Spec => []BackPressure`
* `NoWakeupIsMissed`: `Spec => []NoMissedWakeup`
* `NobodySendsOnClosed`: `Spec => []ClosedIsQuiet`
* `Invariance`: `Spec => []IInv`, from which they follow
* `PipelineFeeds`: `Spec => FeedSpec`. With `ReactorIsFed` both sides of the composition are proved.

`NothingOnTheWayIsLost` is not inductive, for it says nothing of where the sequencer and the loops stand.
`IInv` says that what is on its way is one unbroken range of heights, from the one the reactor handles to
the one the dispatcher has next, cut at three points: what has left the sequencer, what is in a worker,
what waits for one. Each step moves one height over one cut. The sequencer's sequence is the first cut,
so the task whose turn it is is the lowest, which is what the wakeups, the limits and the closing of the
channels rest on.

### The database

In `PoolStoreProofs`, from `StoreAssumption` (there are more than twice as many integers as ticks) and
`CallersAssumption`, for any pools, goroutines and operations:

* `TypeCorrect`: `Spec => []TypeOK`
* `WritersAreAlone`: `Spec => []MutualExclusion`
* `ReadersAreUndisturbed`: `Spec => []ReadsAreStable`
* `Invariance`: `Spec => []IInv`, from which they follow
* `StoreIsAtomic`: `Spec => StoreSpec`, the locks and the layout of keys implement `AtomicStore`

`MutualExclusion` is not inductive: a goroutine that waits might wait for a lock of its own. `IInv` adds
that everybody past the table of locks has the one the table has for its pool, and what a reader has in
hand at each of its steps. The refinement needs the layout, too: numbers are read back as they were put,
negative ones included (`Codec`); no two parts of the database share a key (`KeysDiffer`); the range scan
finds a pool's ticks and no other key (`Scan`), in their order (`ScanInOrder`), which is the order of
`AtomicStore` because a set of integers has only one ascending listing (`SortedMapLemmas`).

### Records and answers

In `TickLensLemmas` and `PoolStateAPIProofs`, from `LensAssumption`, `IntSizeAssumption`,
`WordSizeAssumption` and `APIAssumption`, for any spacing, bounds of ticks, positions with ends at
multiples of the spacing, word sizes, offsets and logs of other contracts:

* `LensListsTicks`: the walk lists exactly the initialised ticks, with their net liquidity, in order
* `TypeCorrect`: `Spec => []TypeOK`
* `LensIsComplete`: `Spec => []LensFindsAll`
* `ReplicaIsExact`: `Spec => []ReplicaIsSnapshot`
* `AnswersAreLiquidity`: `Spec => []AnswerIsLiquidity`
* `AnswersCoverWindow`: `Spec => []AnswerCoversWindow`
* `DetailFits`: `Spec => []DetailFitsWindow`
* `CurrentBarIsShown`: `Spec => []CurrentBarShown`
* `AmountsAreWorth`: `Spec => []AmountsAddUp`
* `Invariance`: `Spec => []IInv`, from which all but `LensListsTicks` follow

`IInv` is short. The record is what the lens would return but for ticks without liquidity (`StoreInv`),
and an answer with a state is the one computed from the record as it is (`AnswerInv`), which a block
keeps by clearing `answer`. That a step keeps it needs what a block is parsed to (`BlockEvents`: the one
event of the pool and none else, with its signed numbers decoded), and that a position's event
changes the net liquidity of two ticks as the contract does (`SnapshotChanges`).

What an answer says is then a matter of the functions. Between two ticks without an initialised one the
active liquidity changes by the net liquidity of the upper one (`ActiveChanges`), so the prefix sums over
the stored ticks are the liquidity of the positions (`PrefixIsActive`), and the ranges are a *cut*
(`IsCut`): they follow each other without a hole, each with the liquidity of all its ticks. Filtering a
cut leaves one, since the ranges that meet a window are neighbours (`Filtered`); splitting makes a finer
one (`Splits`). In the sum of the amounts the inner ends of a cut cancel, but for the net liquidity there
(`PricesCancel`), which is what the positions clipped to the ends of the answer add up to
(`WorthBetween`). Where the window fits into 32 bits its conversions change nothing (`WindowFits`).

Folds over sets and recursive functions are reasoned about without the library's induction theorems, which
the provers cannot instantiate: each lemma takes a smallest counterexample, a number (`Smallest`) or a
set (`SmallestSet`), and steps down from it. For this the model lists integers by rank (`Ordered`) and
sums with `MapThenSumSet`.

The proofs corrected one property. `DetailFitsWindow` had claimed that the pieces of type 3 lie in the
window always; that is so only for a window that does not overflow, and had passed the run because its
spacing divided the number of integers. It now says so, and the run has a spacing that would show it.

### What is only model-checked

Liveness (`reactor_live`, `pipeline_live`), which is out of the prover's reach, and the disagreements of
section 5, which are counterexamples.

## 5. Where the code disagrees with its documentation

Each has a run whose counterexample shows it; `PROJECT.json` quotes the lines.

1. `reactor_same_block`: of several events of one pool in one block only the first is applied. The run ends
   when the block is finished without the second.
2. `reactor_overwrite`: a handler's older snapshot overwrites a newer record, in part.
3. `reactor_crash`: a crash inside a Mint or Burn makes the replay add the amount twice to one tick.
4. `reactor_torn_read`: a request reads between the two tick writes of a Mint or Burn and gets net
   liquidity that the pool had at no height. The property is one of steps: it speaks of the read.
5. `api_window`: at negative ticks the window is off by one spacing.

Two more ways to lose an event are faults of the model and have no run of their own: the server answers
before the first height is known (`main.go:67`, 82), so that a pool it stores below that height lacks the
events between (`gap`); and a failed write is dropped and the block finished over it (`io`). The
invariants are about replicas to which neither happened.

Noticed and not given a run: the documented defaults of `type` and `format` (`readme.md:27-28`) do not
exist, since all four parameters are required (`api_server.go:56-61`), and an unknown value becomes
type 1 and JSON, not 2 and HTML; the documented `pool_size` is ignored (`main.go:84`); a `tick_offset`
of more than 2^31 gives a smaller window than a small one; and the answers documented as status 400 for
a pool without a pair or a filtered one have status 500 (`api_server.go:110`).

## 6. Not modelled

* Forks of the chain: the code does not undo blocks, so a replica keeps the events of an abandoned fork.
* The use of the database after `Close`, by handlers or by the goroutine that logs its statistics: what
  happens then is up to the C library.
* A lens call that always reverts, or is never answered (section 3).
* The insides of the ABI, JSON, Redis, RocksDB and Ethereum client libraries; they are modelled by what
  they return.
* The fields of a pair but for whether it is found, token symbols and decimals, the rounding of amounts.
* An end for a dispatcher that is idle when the signal comes, which the code does not have (section 3).
* The HTML page but for which bar is marked, logging, flags, configuration files, the dump tool: nothing
  here changes state that another part depends on.

## 7. Plan

Done: the reactor, the pipeline, the database, parser, lens and API, each with its runs, and proofs of all
safety properties the runs check; the refinements of `OrderedFeed`, `PoolReplica` and `AtomicStore`.

Next: the composition of `EventReactor` and `PoolStateAPI`. The one takes events as given and an
exact replica as a formal sum, the other computes with numbers and handles a block whole; that the sums'
values are the numbers would join `ReplicasAreExact` and `AnswersAreLiquidity`.
