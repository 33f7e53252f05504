---------------------------- MODULE PoolStateAPI ----------------------------
(***************************************************************************)
(* From a pool's logs to the answer of a /pool_state request.              *)
(*                                                                         *)
(* The pool contract changes positions and the current tick, with one log  *)
(* for each change.  The logs of a block are parsed to events, which       *)
(* change the stored record of the pool; a pool that is not stored is      *)
(* loaded through the lens, by the reactor or by a request.  A request's   *)
(* parameters are checked and arranged, the window of ticks it asks for is *)
(* computed around the current tick in 32 bit integers, and the stored     *)
(* ticks are summed up to the ranges of equal liquidity that meet the      *)
(* window; type 3 splits those at every tick spacing.  Each range gets the *)
(* amounts of the two tokens its liquidity is worth.                       *)
(*                                                                         *)
(* A block holds at most one event of the pool and is handled whole.  A    *)
(* stored pool is then always below the block's height, so heights are not *)
(* kept here: EventReactor has them, with interleaving, crashes, errors    *)
(* and what becomes of blocks with several events of a pool.               *)
(***************************************************************************)
EXTENDS TickLens, BlockParser

CONSTANTS
    SwapTicks,     \* bound: the current ticks a swap may lead to
    MaxLiquidity,  \* bound: the liquidity of a position
    Pool,          \* the pool's address
    OtherLogs,     \* logs of other contracts and kinds that blocks hold, too
    Offsets,       \* the values of tick_offset in requests
    DefaultOffset  \* the one that stands for zero (10)

ASSUME APIAssumption ==
    /\ IntSize > 4 * (MaxTick + Spacing)
    /\ WordSize % IntSize = 0
    /\ SwapTicks \subseteq Ticks
    /\ MaxLiquidity \in Nat
    /\ \A log \in OtherLogs : Parses(log) => log.address # Pool
    /\ Offsets \subseteq 0..IntSize-1
    /\ DefaultOffset \in 1..IntSize-1

VARIABLES
    liquidity,  \* the pool contract: the liquidity of each position
    tick,       \* the pool contract: the current tick
    record,     \* the stored pool: its current tick and net liquidity by tick
    answer      \* the answer to the last request, until the pool changes

vars == <<liquidity, tick, record, answer>>

NotStored == [stored |-> FALSE, tick |-> 0, states |-> <<>>]

Unset == "unset"
BadOffset == -1  \* missing, or not an unsigned number of 32 bits

Types == {"1", "2", "3"}
Formats == {"json", "html"}

Params == [type: Types \cup {Unset, "other"}, format: Formats \cup {Unset, "other"},
           offset: Offsets \cup {BadOffset}]

NoAnswer == [status |-> 0, type |-> "1", format |-> "json", offset |-> 0, ranges |-> <<>>]
BadRequest == [NoAnswer EXCEPT !.status = 400]
Failure == [NoAnswer EXCEPT !.status = 500]

-----------------------------------------------------------------------------
(* Loading a pool: what the lens returns, with the ticks as 32 bit keys. *)

Load(current, positions) ==
    LET ticks == GetAllTicks(positions)
    IN  [stored |-> TRUE, tick |-> Int32(current),
         states |-> [t \in {Int32(ticks[i].index) : i \in 1..Len(ticks)} |->
                       LET i == CHOOSE j \in 1..Len(ticks) : Int32(ticks[j].index) = t
                       IN  ticks[i].net]]

-----------------------------------------------------------------------------
(* The events. *)

\* A tick that is not stored counts as one without liquidity, and is stored.
ReactTick(s, t, amount) ==
    [u \in DOMAIN s \cup {t} |-> (IF u \in DOMAIN s THEN s[u] ELSE 0)
                                   + (IF u = t THEN amount ELSE 0)]

\* Bug: the two's complement of a tick is kept.
ReactEventUnsigned(r, e) ==
    IF e.type = "swap" THEN [r EXCEPT !.tick = Int32(e.tick)]
    ELSE LET amount == IF e.type = "mint" THEN e.amount ELSE -e.amount
         IN  [r EXCEPT !.states = ReactTick(ReactTick(@, e.lower, amount), e.upper, -amount)]

ReactEvent(r, e) ==
    IF e.type = "swap" THEN [r EXCEPT !.tick = Int32(e.tick)]
    ELSE LET amount == IF e.type = "mint" THEN e.amount ELSE -e.amount
         IN  [r EXCEPT !.states = ReactTick(ReactTick(@, Int32(e.lower), amount),
                                            Int32(e.upper), -amount)]

\* The first event of the pool stores the block's height, and those after it find
\* the pool there and are skipped; one of another address has no pair.
ReactBlockEvent(r, events) ==
    LET mine == {i \in 1..Len(events) : events[i].address = Pool}
    IN  IF mine = {} THEN r
        ELSE ReactEvent(r, events[CHOOSE i \in mine : \A j \in mine : i <= j])

\* A block with this log among others: its receipts, one of a failed transaction.
Receipts(log, other) == <<[status |-> 0, logs |-> <<>>], [status |-> 1, logs |-> <<other, log>>],
                          [status |-> 1, logs |-> <<other>>]>>

\* The pool changes and the block with its log is handled.  A pool that is not
\* stored is loaded as it was before the block or, by a lens that is ahead,
\* after it, and then not changed; or it has no pair and is left alone.
Handle(log) ==
    \E other \in OtherLogs :
       LET events == ParseBlock(Receipts(log, other))
       IN  /\ IF record.stored
              THEN record' = ReactBlockEvent(record, events)
              ELSE record' \in {record, Load(tick', liquidity'),
                                ReactBlockEvent(Load(tick, liquidity), events)}
           /\ answer' = NoAnswer

Owner == 7   \* words that are of no consequence
Spent == 11

Mint(q, amount) ==
    /\ amount > 0 /\ liquidity[q] + amount <= MaxLiquidity
    /\ liquidity' = [liquidity EXCEPT ![q] = @ + amount]
    /\ tick' = tick
    /\ Handle([address |-> Pool, topics |-> <<MintTopic0, Owner, Word(q[1]), Word(q[2])>>,
               data |-> <<Owner, amount, Spent, Spent>>])

\* A burn of nothing collects the fees of a position that has liquidity.
Burn(q, amount) ==
    /\ liquidity[q] > 0 /\ amount <= liquidity[q]
    /\ liquidity' = [liquidity EXCEPT ![q] = @ - amount]
    /\ tick' = tick
    /\ Handle([address |-> Pool, topics |-> <<BurnTopic0, Owner, Word(q[1]), Word(q[2])>>,
               data |-> <<amount, Spent, Spent>>])

Swap(t) ==
    /\ tick' = t
    /\ liquidity' = liquidity
    /\ Handle([address |-> Pool, topics |-> <<SwapTopic0, Owner, Owner>>,
               data |-> <<Spent, Word(-Spent), Spent, Spent, Word(t), 0, 0>>])

-----------------------------------------------------------------------------
(* The parameters. *)

\* All four are required, though two have defaults.
FromHttpRequest(p) == p.type # Unset /\ p.format # Unset /\ p.offset # BadOffset

\* Bug: an offset of zero is kept.
ArrangeKeepsZero(p) ==
    LET type == IF p.type \in Types THEN p.type ELSE "1"
    IN  [type   |-> type,
         format |-> IF type = "1" \/ p.format \notin Formats THEN "json" ELSE p.format,
         offset |-> p.offset]

Arrange(p) ==
    LET type == IF p.type \in Types THEN p.type ELSE "1"
    IN  [type   |-> type,
         format |-> IF type = "1" \/ p.format \notin Formats THEN "json" ELSE p.format,
         offset |-> IF p.offset = 0 THEN DefaultOffset ELSE p.offset]

-----------------------------------------------------------------------------
(* The window of ticks. *)

CenterTick(current) == Quotient(current, Spacing) * Spacing

CalculateTickRange(current, offset) ==
    [from |-> Int32(CenterTick(current) - Int32(offset * Spacing)),
     to   |-> Int32(CenterTick(current) + Int32(Int32(offset + 1) * Spacing))]

-----------------------------------------------------------------------------
(* The ranges. *)

\* Bug: the liquidity of a range is summed up to the tick below it.
BuildRangesExclusive(states) ==
    LET ticks == Ordered(DOMAIN states)
        prefix[i \in 0..Len(ticks)] ==
            IF i = 0 THEN 0 ELSE prefix[i - 1] + states[ticks[i]]
    IN  [i \in 1..Len(ticks) - 1 |->
           [lower |-> ticks[i], upper |-> ticks[i + 1], liquidity |-> prefix[i - 1]]]

BuildRanges(states) ==
    LET ticks == Ordered(DOMAIN states)
        prefix[i \in 0..Len(ticks)] ==
            IF i = 0 THEN 0 ELSE prefix[i - 1] + states[ticks[i]]
    IN  [i \in 1..Len(ticks) - 1 |->
           [lower |-> ticks[i], upper |-> ticks[i + 1], liquidity |-> prefix[i]]]

\* Bug: a range that only meets the window is left out.
FilterInside(ranges, window) ==
    Pick(ranges, {i \in DOMAIN ranges : ranges[i].lower >= window.from
                                          /\ ranges[i].upper <= window.to})

Filter(ranges, window) ==
    Pick(ranges, {i \in DOMAIN ranges : ranges[i].upper > window.from
                                          /\ ranges[i].lower < window.to})

SplitToTickSpacing(r) ==
    LET pieces == (r.upper - r.lower + Spacing - 1) \div Spacing
        next(t) == IF t + Spacing > r.upper THEN r.upper ELSE t + Spacing
    IN  [i \in 1..pieces |-> [lower |-> r.lower + (i - 1) * Spacing,
                              upper |-> next(r.lower + (i - 1) * Spacing),
                              liquidity |-> r.liquidity]]

Split(ranges) == FlattenSeq([i \in 1..Len(ranges) |-> SplitToTickSpacing(ranges[i])])

\* Bug: the pieces of a range that sticks out of the window are all kept.
RangesUnfiltered(r, type, offset) ==
    LET window == CalculateTickRange(r.tick, Int32(offset))
        coarse == Filter(BuildRanges(r.states), window)
    IN  IF type = "3" THEN Split(coarse) ELSE coarse

Ranges(r, type, offset) ==
    LET window == CalculateTickRange(r.tick, Int32(offset))
        coarse == Filter(BuildRanges(r.states), window)
    IN  IF type = "3" THEN Filter(Split(coarse), window) ELSE coarse

-----------------------------------------------------------------------------
(* The amounts of a range.  Prices are symbolic: an amount of token 1 is a *)
(* formal sum of square roots of the prices at ticks, one of token 0 a     *)
(* formal sum of their inverses; the function from ticks to coefficients.  *)
(* liquidity * (B - A) / B / A is liquidity / A - liquidity / B.  The      *)
(* powers of ten both are divided by are left out.                         *)

\* The formal sum with the coefficient a at the lower tick, b at the upper one.
Coefficients(r, a, b) == [t \in {r.lower, r.upper} |-> IF t = r.lower THEN a ELSE b]

\* Bug: token 0 is given the sign of token 1.
CalcRangeAmountSameSign(r) ==
    [lower |-> r.lower, upper |-> r.upper, liquidity |-> r.liquidity,
     amount0 |-> Coefficients(r, -r.liquidity, r.liquidity),
     amount1 |-> Coefficients(r, -r.liquidity, r.liquidity)]

CalcRangeAmount(r) ==
    [lower |-> r.lower, upper |-> r.upper, liquidity |-> r.liquidity,
     amount0 |-> Coefficients(r, r.liquidity, -r.liquidity),
     amount1 |-> Coefficients(r, -r.liquidity, r.liquidity)]

CalcRangeAmountArray(ranges) == [i \in 1..Len(ranges) |-> CalcRangeAmount(ranges[i])]

-----------------------------------------------------------------------------
(* The handler. *)

\* Type 1 answers the stored state as it is.
Answer(r, a) ==
    [status |-> 200, type |-> a.type, format |-> a.format, offset |-> a.offset,
     ranges |-> IF a.type = "1" THEN <<>>
                ELSE CalcRangeAmountArray(Ranges(r, a.type, a.offset))]

\* A pool that is not stored is loaded first.  Or there is an error, and a stored
\* record is left alone: the pair is missing, filtered or of no V3 pool, Redis or
\* the database failed, or the lens or the batch that stores what it returned.
HandlerPoolState(p) ==
    /\ \/ /\ ~FromHttpRequest(p)
          /\ answer' = BadRequest
          /\ record' = record
       \/ /\ FromHttpRequest(p)
          /\ record' = IF record.stored THEN record ELSE Load(tick, liquidity)
          /\ answer' = Answer(record', Arrange(p))
       \/ /\ FromHttpRequest(p)
          /\ answer' = Failure
          /\ record' = record
    /\ UNCHANGED <<liquidity, tick>>

-----------------------------------------------------------------------------
Init ==
    /\ liquidity = [q \in Positions |-> 0]
    /\ tick \in SwapTicks
    /\ record = NotStored
    /\ answer = NoAnswer

Next ==
    \/ \E q \in Positions, amount \in 1..MaxLiquidity : Mint(q, amount)
    \/ \E q \in Positions, amount \in 0..MaxLiquidity : Burn(q, amount)
    \/ \E t \in SwapTicks : Swap(t)
    \/ \E p \in Params : HandlerPoolState(p)

Spec == Init /\ [][Next]_vars

-----------------------------------------------------------------------------
(* What the store and an answer promise. *)

Amount(r) == [{r.lower, r.upper} -> Int]

\* The variables keep their types, an answer the types and formats there are.
TypeOK ==
    /\ liquidity \in [Positions -> 0..MaxLiquidity]
    /\ tick \in Ticks
    /\ record.stored \in BOOLEAN /\ record.tick \in Ticks
    /\ DOMAIN record.states \subseteq Ticks
    /\ \A t \in DOMAIN record.states : record.states[t] \in Int
    /\ answer.status \in {0, 200, 400, 500}
    /\ answer.type \in Types /\ answer.format \in Formats /\ answer.offset \in Nat
    /\ \A i \in 1..Len(answer.ranges) :
          LET r == answer.ranges[i]
          IN  r.liquidity \in Int /\ r.amount0 \in Amount(r) /\ r.amount1 \in Amount(r)

\* The walk over the bitmap lists exactly the ticks at which some position
\* begins or ends, once each, from the lowest to the highest, with their net
\* liquidity: no word of negative ticks is left out.  (getAllTicks)
LensFindsAll ==
    LET ticks == GetAllTicks(liquidity)
    IN  /\ {ticks[i].index : i \in 1..Len(ticks)} = Initialised(liquidity)
        /\ \A i, j \in 1..Len(ticks) : i < j => ticks[i].index < ticks[j].index
        /\ \A i \in 1..Len(ticks) : ticks[i].net = LiquidityNet(liquidity, ticks[i].index)

\* Wherever its parts come from, snapshot or logs, the stored record is what the
\* lens would return now, but for ticks without liquidity: those a withdrawal
\* has left behind.  (ParseBlock, reactEvent, SetPoolState)
ReplicaIsSnapshot ==
    record.stored =>
       LET now == Load(tick, liquidity)
           net(r, t) == IF t \in DOMAIN r.states THEN r.states[t] ELSE 0
       IN  /\ record.tick = now.tick
           /\ DOMAIN now.states \subseteq DOMAIN record.states
           /\ \A t \in DOMAIN record.states : record.states[t] = net(now, t)

HasRanges == answer.status = 200 /\ answer.type \in {"2", "3"}

Window == CalculateTickRange(tick, Int32(answer.offset))

\* The window of the offset fits into the integers it is computed in.
Fits == 2 * (MaxTick + (answer.offset + 1) * Spacing) < IntSize

\* The liquidity that is active at t on the chain.
LiquidityAt(t) == Sum(liquidity, {q \in Positions : q[1] <= t /\ t < q[2]})

In(r, t) == r.lower <= t /\ t < r.upper

\* The liquidity an answer gives a range is what the chain's positions add up
\* to at every tick of the range.  (BuildRangeLiquidityArray, reactTick)
AnswerIsLiquidity ==
    HasRanges => \A i \in 1..Len(answer.ranges), t \in Ticks :
       In(answer.ranges[i], t) => answer.ranges[i].liquidity = LiquidityAt(t)

\* The ranges leave no hole and do not overlap, and they hold every tick of the
\* window that has liquidity.  (FilterRangeLiquidityArray)
AnswerCoversWindow ==
    HasRanges =>
       /\ \A i \in 1..Len(answer.ranges) - 1 :
             answer.ranges[i].upper = answer.ranges[i + 1].lower
       /\ \A t \in Ticks : Window.from <= t /\ t < Window.to /\ LiquidityAt(t) > 0 =>
             \E i \in 1..Len(answer.ranges) : In(answer.ranges[i], t)

\* The ranges of type 3 are one spacing wide.  Unless the window overflows they
\* lie in it, so that there are never more than twice the offset and one.
\* (SplitToTickSpacingRanges, the second Filter)
DetailFitsWindow ==
    HasRanges /\ answer.type = "3" =>
       /\ \A i \in 1..Len(answer.ranges) :
             answer.ranges[i].upper = answer.ranges[i].lower + Spacing
       /\ Fits =>
             /\ \A i \in 1..Len(answer.ranges) :
                   Window.from <= answer.ranges[i].lower /\ answer.ranges[i].upper <= Window.to
             /\ Len(answer.ranges) <= 2 * answer.offset + 1

\* The coefficient of the price at t in an amount.
At(amount, t) == IF t \in DOMAIN amount THEN amount[t] ELSE 0

\* An answer's amounts add up to what the chain's positions are worth between
\* the ends of the answer, however its ranges are cut.
\* (CalcRangeAmount, SplitRangeLiquidityArray)
AmountsAddUp ==
    HasRanges /\ answer.ranges # <<>> =>
       LET indexes == 1..Len(answer.ranges)
           low == Head(answer.ranges).lower
           high == Last(answer.ranges).upper
           from(q) == IF q[1] < low THEN low ELSE q[1]
           to(q) == IF q[2] > high THEN high ELSE q[2]
           shown == {q \in Positions : from(q) < to(q)}
           worth(t) == Sum(liquidity, {q \in shown : to(q) = t})
                         - Sum(liquidity, {q \in shown : from(q) = t})
       IN  \A t \in Ticks :
              /\ Sum([i \in indexes |-> At(answer.ranges[i].amount1, t)], indexes) = worth(t)
              /\ Sum([i \in indexes |-> At(answer.ranges[i].amount0, t)], indexes) = -worth(t)

\* The bars the chart paints red: those that hold the current tick.
CurrentBars == {i \in 1..Len(answer.ranges) : In(answer.ranges[i], tick)}

\* While there is liquidity at the current tick the answer has exactly one
\* range with it, the one the chart marks.  (CalculateTickRange, arrange)
CurrentBarShown ==
    HasRanges /\ Fits /\ LiquidityAt(tick) > 0 => Cardinality(CurrentBars) = 1

\* The readme: tick_offset is the number of tick spacings before and after the
\* current tick that are asked for.  (CalculateTickRange)
WindowIsCentred ==
    HasRanges /\ Fits /\ answer.ranges # <<>> =>
       LET current == (tick \div Spacing) * Spacing
       IN  /\ current - Window.from = answer.offset * Spacing
           /\ Window.to - (current + Spacing) = answer.offset * Spacing
=============================================================================
