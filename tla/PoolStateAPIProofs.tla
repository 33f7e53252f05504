------------------------- MODULE PoolStateAPIProofs -------------------------
(***************************************************************************)
(* PoolStateAPI keeps its types, the stored record is what the lens would  *)
(* return, and so the answers are the liquidity of the chain's positions.  *)
(***************************************************************************)
EXTENDS PoolStateAPI, TickLensLemmas

-----------------------------------------------------------------------------
(* Integers. *)

LEMMA IntegerSizes ==
    /\ Spacing \in Nat \ {0} /\ MaxTick \in Nat /\ Ticks = -MaxTick..MaxTick
    /\ IntSize \in Nat \ {0} /\ WordSize \in Nat \ {0}
    /\ \E half \in Nat : /\ IntSize \div 2 = half /\ IntSize = 2 * half
                         /\ half > 2 * (MaxTick + Spacing)
    /\ \E half \in Nat : WordSize \div 2 = half /\ WordSize = 2 * half /\ half > MaxTick
    /\ \E k \in Int : WordSize = IntSize * k
<1>1. /\ Spacing \in Nat \ {0} /\ MaxTick \in Nat /\ Ticks = -MaxTick..MaxTick
      /\ IntSize \in Nat \ {0} /\ WordSize \in Nat \ {0}
      /\ IntSize % 2 = 0 /\ WordSize % 2 = 0 /\ WordSize % IntSize = 0
      /\ IntSize > 4 * (MaxTick + Spacing)
  BY LensAssumption, IntSizeAssumption, WordSizeAssumption, APIAssumption DEF Ticks
<1>2. /\ IntSize \div 2 \in Int /\ IntSize = 2 * (IntSize \div 2)
      /\ WordSize \div 2 \in Int /\ WordSize = 2 * (WordSize \div 2)
  <2>1. 2 \in Nat \ {0}
    OBVIOUS
  <2> QED
    BY <1>1, <2>1, Division
<1>3. WordSize \div IntSize \in Int /\ WordSize = IntSize * (WordSize \div IntSize)
  BY <1>1, Division
<1>4. WordSize >= IntSize
  <2> DEFINE k == WordSize \div IntSize
  <2>1. k \in Int /\ WordSize = IntSize * k
    BY <1>3
  <2> HIDE DEF k
  <2>2. k >= 1
    BY <1>1, <2>1
  <2> QED
    BY <1>1, <2>1, <2>2
<1>5. /\ IntSize \div 2 > 2 * (MaxTick + Spacing) /\ WordSize \div 2 > MaxTick
  <2> DEFINE h == IntSize \div 2
             w == WordSize \div 2
  <2>1. h \in Int /\ IntSize = 2 * h /\ w \in Int /\ WordSize = 2 * w
    BY <1>2
  <2> HIDE DEF h, w
  <2>2. h > 2 * (MaxTick + Spacing) /\ w > MaxTick
    BY <1>1, <1>4, <2>1
  <2> QED
    BY <2>2 DEF h, w
<1>6. IntSize \div 2 \in Nat /\ WordSize \div 2 \in Nat
  BY <1>1, <1>2, <1>5
<1>7. \E half \in Nat : /\ IntSize \div 2 = half /\ IntSize = 2 * half
                        /\ half > 2 * (MaxTick + Spacing)
  BY <1>2, <1>5, <1>6
<1>8. \E half \in Nat : WordSize \div 2 = half /\ WordSize = 2 * half /\ half > MaxTick
  BY <1>2, <1>5, <1>6
<1>9. \E k \in Int : WordSize = IntSize * k
  BY <1>3
<1> QED
  BY <1>1, <1>7, <1>8, <1>9

\* Small numbers are kept by a conversion to 32 bits.
LEMMA SmallInt32 ==
    ASSUME NEW x \in Int, -(IntSize \div 2) <= x, x < IntSize \div 2
    PROVE  Int32(x) = x
<1>1. PICK half \in Nat : IntSize \div 2 = half /\ IntSize = 2 * half
  BY IntegerSizes
<1>2. 0 <= x + half /\ x + half < IntSize
  BY <1>1
<1>3. (x + half) % IntSize = x + half
  BY <1>1, <1>2, IntegerSizes
<1> QED
  BY <1>1, <1>3 DEF Int32

\* So are ticks, also after a way through the words of a log.
LEMMA TickKept ==
    ASSUME NEW t \in Ticks
    PROVE  t \in Int /\ Int32(t) = t /\ Int32(Word(t)) = t /\ Signed(Word(t)) = t
<1>1. PICK half \in Nat : /\ IntSize \div 2 = half /\ IntSize = 2 * half
                          /\ half > 2 * (MaxTick + Spacing)
  BY IntegerSizes
<1>2. PICK middle \in Nat : /\ WordSize \div 2 = middle /\ WordSize = 2 * middle
                            /\ middle > MaxTick
  BY IntegerSizes
<1>3. PICK k \in Int : WordSize = IntSize * k
  BY IntegerSizes
<1>4. /\ t \in Int /\ -MaxTick <= t /\ t <= MaxTick /\ MaxTick \in Nat /\ Spacing \in Nat
      /\ IntSize \in Nat \ {0} /\ WordSize \in Nat \ {0}
  BY IntegerSizes
<1>5. Int32(t) = t
  BY <1>1, <1>4, SmallInt32
<1>6. Word(t) = IF t >= 0 THEN t ELSE WordSize + t
  <2>1. CASE t >= 0
    <3>1. t % WordSize = t
      BY <1>2, <1>4, <2>1
    <3> QED
      BY <2>1, <3>1 DEF Word
  <2>2. CASE t < 0
    <3>1. (WordSize * (-1) + (WordSize + t)) % WordSize = WordSize + t
      <4>1. WordSize + t \in Int /\ 0 <= WordSize + t /\ WordSize + t < WordSize /\ -1 \in Int
        BY <1>2, <1>4, <2>2
      <4> QED
        BY <1>4, <4>1, DivisionIsUnique
    <3>2. WordSize * (-1) + (WordSize + t) = t
      BY <1>4
    <3>3. Word(t) = WordSize + t
      BY <3>1, <3>2 DEF Word
    <3> QED
      BY <1>4, <2>2, <3>3
  <2> QED
    BY <1>4, <2>1, <2>2
<1>7. Int32(Word(t)) = t
  <2>1. CASE t >= 0
    BY <1>5, <1>6, <2>1
  <2>2. CASE t < 0
    <3>1. t + half \in Int /\ 0 <= t + half /\ t + half < IntSize
      BY <1>1, <1>4
    <3>2. (IntSize * k + (t + half)) % IntSize = t + half
      BY <1>3, <1>4, <3>1, DivisionIsUnique
    <3>3. Word(t) + half = IntSize * k + (t + half)
      <4>1. Word(t) = WordSize + t
        BY <1>4, <1>6, <2>2
      <4>2. WordSize + t + half = WordSize + (t + half)
        BY <1>4
      <4> QED
        BY <1>3, <4>1, <4>2
    <3>4. (Word(t) + half) % IntSize = t + half
      BY <3>2, <3>3
    <3> QED
      BY <1>1, <1>4, <3>4 DEF Int32
  <2> QED
    BY <1>4, <2>1, <2>2
<1>8. Signed(Word(t)) = t
  <2>1. t + middle \in Int /\ 0 <= t + middle /\ t + middle < WordSize
    BY <1>2, <1>4
  <2>2. CASE t >= 0
    <3>1. (t + middle) % WordSize = t + middle
      BY <1>4, <2>1
    <3>2. (Word(t) + middle) % WordSize = t + middle
      BY <1>4, <1>6, <2>2, <3>1
    <3> QED
      BY <1>2, <1>4, <3>2 DEF Signed
  <2>3. CASE t < 0
    <3>1. (WordSize * 1 + (t + middle)) % WordSize = t + middle
      <4>1. 1 \in Int
        OBVIOUS
      <4> QED
        BY <1>4, <2>1, <4>1, DivisionIsUnique
    <3>2. Word(t) + middle = WordSize * 1 + (t + middle)
      BY <1>2, <1>4, <1>6, <2>3
    <3>3. (Word(t) + middle) % WordSize = t + middle
      BY <3>1, <3>2
    <3> QED
      BY <1>2, <1>4, <3>3 DEF Signed
  <2> QED
    BY <1>4, <2>2, <2>3
<1> QED
  BY <1>4, <1>5, <1>7, <1>8

-----------------------------------------------------------------------------
(* A block with one log of the pool has one event of it. *)

LEMMA FlatTwo ==
    ASSUME NEW s, Len(s) = 2
    PROVE  FlattenSeq(s) = s[1] \o s[2]
<1> DEFINE g == CHOOSE h : Appends(h, s, Len(s))
<1>1. Appends(g, s, 2)
  <2>1. Appends(g, s, Len(s))
    BY SomeAppends
  <2> HIDE DEF g
  <2> QED
    BY <2>1
<1>2. FlattenSeq(s) = g[2]
  <2>1. Len(s) # 0
    OBVIOUS
  <2>2. FlattenSeq(s) = g[Len(s)]
    BY <2>1, FlatIsLast
  <2> HIDE DEF g
  <2> QED
    BY <2>2
<1> HIDE DEF g
<1>3. \A i \in 1..2 : g[i] = IF i = 1 THEN s[i] ELSE g[i - 1] \o s[i]
  <2> DEFINE h == [i \in 1..2 |-> IF i = 1 THEN s[i] ELSE g[i - 1] \o s[i]]
  <2>1. g = h
    BY <1>1 DEF Appends
  <2>2. \A i \in 1..2 : h[i] = IF i = 1 THEN s[i] ELSE g[i - 1] \o s[i]
    OBVIOUS
  <2> HIDE DEF h
  <2> QED
    BY <2>1, <2>2
<1>4. g[1] = s[1]
  <2>1. 1 \in 1..2
    OBVIOUS
  <2> QED
    BY <1>3, <2>1
<1>5. g[2] = g[1] \o s[2]
  <2>1. 2 \in 1..2 /\ 2 # 1 /\ 2 - 1 = 1
    OBVIOUS
  <2>2. g[2] = g[2 - 1] \o s[2]
    BY <1>3, <2>1
  <2> QED
    BY <2>1, <2>2
<1> QED
  BY <1>2, <1>4, <1>5

LEMMA Ends ==
    ASSUME NEW S, NEW s \in Seq(S), NEW t \in Seq(S)
    PROVE  /\ s \o t \in Seq(S) /\ Len(s \o t) = Len(s) + Len(t)
           /\ \A i \in 1..Len(s) : (s \o t)[i] = s[i]
           /\ \A i \in 1..Len(t) : (s \o t)[Len(s) + i] = t[i]
<1>1. s \o t \in Seq(S) /\ Len(s \o t) = Len(s) + Len(t)
  OBVIOUS
<1>2. ASSUME NEW i \in 1..Len(s)
      PROVE  (s \o t)[i] = s[i]
  OBVIOUS
<1>3. ASSUME NEW i \in 1..Len(t)
      PROVE  (s \o t)[Len(s) + i] = t[i]
  OBVIOUS
<1> QED
  BY <1>1, <1>2, <1>3

LEMMA AddOne ==
    ASSUME NEW a, NEW b, NEW c
    PROVE  <<a, b>> \o <<c>> = <<a, b, c>> /\ <<a>> \o <<>> = <<a>>
<1> DEFINE S == {a, b, c}
           s == <<a, b>>
           t == <<c>>
           u == <<a, b, c>>
           v == s \o t
<1>1. s \in Seq(S) /\ t \in Seq(S) /\ u \in Seq(S)
  OBVIOUS
<1>2. Len(s) = 2 /\ s[1] = a /\ s[2] = b /\ Len(t) = 1 /\ t[1] = c
  OBVIOUS
<1>3. Len(u) = 3 /\ u[1] = a /\ u[2] = b /\ u[3] = c
  OBVIOUS
<1> HIDE DEF S, s, t, u
<1>4. /\ v \in Seq(S) /\ Len(v) = Len(s) + Len(t)
      /\ \A i \in 1..Len(s) : v[i] = s[i]
      /\ \A i \in 1..Len(t) : v[Len(s) + i] = t[i]
  BY <1>1, Ends
<1> HIDE DEF v
<1>5. Len(v) = 3 /\ v[1] = a /\ v[2] = b /\ v[3] = c
  <2>1. 1 \in 1..2 /\ 2 \in 1..2 /\ 1 \in 1..1 /\ 2 + 1 = 3
    OBVIOUS
  <2> QED
    BY <1>2, <1>4, <2>1
<1>6. \A i \in 1..3 : v[i] = u[i]
  <2>1. \A i \in 1..3 : i = 1 \/ i = 2 \/ i = 3
    OBVIOUS
  <2> QED
    BY <1>3, <1>5, <2>1
<1>7. v = u
  <2>1. v \in [1..3 -> S] /\ u \in [1..3 -> S]
    <3>1. v \in [1..Len(v) -> S] /\ u \in [1..Len(u) -> S]
      BY <1>1, <1>4
    <3> QED
      BY <1>3, <1>5, <3>1
  <2> QED
    BY <1>6, <2>1
<1>8. <<a>> \o <<>> = <<a>>
  OBVIOUS
<1> QED
  BY <1>7, <1>8 DEF s, t, u, v

LEMMA OwnReceipt ==
    ASSUME NEW log, NEW other, Parses(log)
    PROVE  ParseReceipt([status |-> 1, logs |-> <<other, log>>])
             = IF Parses(other) THEN <<ParseLog(other), ParseLog(log)>> ELSE <<ParseLog(log)>>
<1> DEFINE logs == <<other, log>>
           I == {i \in DOMAIN logs : Parses(logs[i])}
           p == Pick(logs, I)
<1>1. DOMAIN logs = {1, 2} /\ logs[1] = other /\ logs[2] = log
  OBVIOUS
<1>2. I = IF Parses(other) THEN {1, 2} ELSE {2}
  <2> HIDE DEF logs
  <2> QED
    BY <1>1
<1>3. p = IF Parses(other) THEN <<other, log>> ELSE <<log>>
  <2> HIDE DEF I, logs
  <2> QED
    BY <1>1, <1>2, PickOne, PickTwo
<1>4. ParseReceipt([status |-> 1, logs |-> logs]) = [i \in 1..Len(p) |-> ParseLog(p[i])]
  <2> HIDE DEF logs
  <2> QED
    BY DEF ParseReceipt
<1> HIDE DEF p
<1>5. CASE Parses(other)
  <2>1. Len(p) = 2 /\ p[1] = other /\ p[2] = log
    BY <1>3, <1>5
  <2>2. [i \in 1..2 |-> ParseLog(p[i])] = <<ParseLog(other), ParseLog(log)>>
    BY <2>1
  <2> QED
    BY <1>4, <1>5, <2>1, <2>2
<1>6. CASE ~Parses(other)
  <2>1. Len(p) = 1 /\ p[1] = log
    BY <1>3, <1>6
  <2>2. [i \in 1..1 |-> ParseLog(p[i])] = <<ParseLog(log)>>
    BY <2>1
  <2> QED
    BY <1>4, <1>6, <2>1, <2>2
<1> QED
  BY <1>5, <1>6

LEMMA OtherReceipt ==
    ASSUME NEW other
    PROVE  ParseReceipt([status |-> 1, logs |-> <<other>>])
             = IF Parses(other) THEN <<ParseLog(other)>> ELSE <<>>
<1> DEFINE logs == <<other>>
           I == {i \in DOMAIN logs : Parses(logs[i])}
           p == Pick(logs, I)
<1>1. DOMAIN logs = {1} /\ logs[1] = other
  OBVIOUS
<1>2. I = IF Parses(other) THEN {1} ELSE {}
  <2> HIDE DEF logs
  <2> QED
    BY <1>1
<1>3. p = IF Parses(other) THEN <<other>> ELSE <<>>
  <2> HIDE DEF I, logs
  <2> QED
    BY <1>1, <1>2, PickOne, PickNone
<1>4. ParseReceipt([status |-> 1, logs |-> logs]) = [i \in 1..Len(p) |-> ParseLog(p[i])]
  <2> HIDE DEF logs
  <2> QED
    BY DEF ParseReceipt
<1> HIDE DEF p
<1> QED
  BY <1>3, <1>4

LEMMA BlockEvents ==
    ASSUME NEW log, NEW other, Parses(log)
    PROVE  ParseBlock(Receipts(log, other))
             = IF Parses(other) THEN <<ParseLog(other), ParseLog(log), ParseLog(other)>>
               ELSE <<ParseLog(log)>>
<1> DEFINE receipts == Receipts(log, other)
           I == {i \in DOMAIN receipts : receipts[i].status = 1}
           ok == Pick(receipts, I)
           s == [i \in 1..Len(ok) |-> ParseReceipt(ok[i])]
<1>1. /\ DOMAIN receipts = {1, 2, 3} /\ receipts[1].status = 0
      /\ receipts[2] = [status |-> 1, logs |-> <<other, log>>]
      /\ receipts[3] = [status |-> 1, logs |-> <<other>>]
  BY DEF Receipts
<1> HIDE DEF receipts
<1>2. I = {2, 3}
  BY <1>1
<1> HIDE DEF I
<1>3. ok = <<receipts[2], receipts[3]>>
  BY <1>2, PickTwo
<1> HIDE DEF ok
<1>4. s = <<ParseReceipt(receipts[2]), ParseReceipt(receipts[3])>>
  BY <1>3
<1>5. ParseBlock(receipts) = FlattenSeq(s)
  BY DEF ParseBlock, ok, I
<1> HIDE DEF s
<1>6. ParseBlock(receipts) = ParseReceipt(receipts[2]) \o ParseReceipt(receipts[3])
  <2>1. Len(s) = 2 /\ s[1] = ParseReceipt(receipts[2]) /\ s[2] = ParseReceipt(receipts[3])
    BY <1>4
  <2> QED
    BY <1>5, <2>1, FlatTwo
<1>7. ParseReceipt(receipts[2])
        = IF Parses(other) THEN <<ParseLog(other), ParseLog(log)>> ELSE <<ParseLog(log)>>
  BY <1>1, OwnReceipt
<1>8. ParseReceipt(receipts[3]) = IF Parses(other) THEN <<ParseLog(other)>> ELSE <<>>
  BY <1>1, OtherReceipt
<1>9. ParseBlock(receipts)
        = IF Parses(other) THEN <<ParseLog(other), ParseLog(log)>> \o <<ParseLog(other)>>
          ELSE <<ParseLog(log)>> \o <<>>
  BY <1>6, <1>7, <1>8
<1>10. /\ <<ParseLog(other), ParseLog(log)>> \o <<ParseLog(other)>>
             = <<ParseLog(other), ParseLog(log), ParseLog(other)>>
       /\ <<ParseLog(log)>> \o <<>> = <<ParseLog(log)>>
  BY AddOne
<1> QED
  BY <1>9, <1>10 DEF receipts

\* A block changes the record by its only event of the pool.
LEMMA FirstEvent ==
    ASSUME NEW r, NEW events, NEW k \in 1..Len(events), Len(events) \in Nat,
           \A i \in 1..Len(events) : events[i].address = Pool <=> i = k
    PROVE  ReactBlockEvent(r, events) = ReactEvent(r, events[k])
<1> DEFINE mine == {i \in 1..Len(events) : events[i].address = Pool}
<1>1. mine = {k}
  OBVIOUS
<1>2. (CHOOSE i \in mine : \A j \in mine : i <= j) = k
  <2> HIDE DEF mine
  <2> QED
    BY <1>1
<1> QED
  BY <1>1, <1>2 DEF ReactBlockEvent

LEMMA OneEvent ==
    ASSUME NEW r, NEW e, e.address = Pool
    PROVE  ReactBlockEvent(r, <<e>>) = ReactEvent(r, e)
<1> DEFINE events == <<e>>
<1>1. Len(events) = 1 /\ events[1] = e
  OBVIOUS
<1> HIDE DEF events
<1>2. ReactBlockEvent(r, events) = ReactEvent(r, events[1])
  BY <1>1, FirstEvent
<1> QED
  BY <1>1, <1>2 DEF events

LEMMA EventAmongOthers ==
    ASSUME NEW r, NEW e, NEW f, e.address = Pool, f.address # Pool
    PROVE  ReactBlockEvent(r, <<f, e, f>>) = ReactEvent(r, e)
<1> DEFINE events == <<f, e, f>>
<1>1. Len(events) = 3 /\ events[1] = f /\ events[2] = e /\ events[3] = f
  OBVIOUS
<1> HIDE DEF events
<1>2. \A i \in 1..Len(events) : events[i].address = Pool <=> i = 2
  BY <1>1
<1>3. ReactBlockEvent(r, events) = ReactEvent(r, events[2])
  BY <1>1, <1>2, FirstEvent
<1> QED
  BY <1>1, <1>3 DEF events

\* A block changes the record by the pool's event.
LEMMA OnlyPoolEvent ==
    ASSUME NEW r, NEW log, NEW other \in OtherLogs, Parses(log), ParseLog(log).address = Pool
    PROVE  ReactBlockEvent(r, ParseBlock(Receipts(log, other))) = ReactEvent(r, ParseLog(log))
<1>1. ParseBlock(Receipts(log, other))
             = IF Parses(other) THEN <<ParseLog(other), ParseLog(log), ParseLog(other)>>
               ELSE <<ParseLog(log)>>
  BY BlockEvents
<1>2. Parses(other) => ParseLog(other).address # Pool
  <2> SUFFICES ASSUME Parses(other)
               PROVE  ParseLog(other).address # Pool
    OBVIOUS
  <2>1. other.address # Pool
    BY APIAssumption
  <2>2. Head(other.topics) \in {MintTopic0, BurnTopic0, SwapTopic0}
    BY DEF Parses, InputParserBook
  <2>3. MintTopic0 # BurnTopic0 /\ MintTopic0 # SwapTopic0 /\ BurnTopic0 # SwapTopic0
    BY DEF MintTopic0, BurnTopic0, SwapTopic0
  <2>4. ParseLog(other) \in {ParseMint(other), ParseBurn(other), ParseSwap(other)}
    BY <2>2, <2>3 DEF ParseLog
  <2> QED
    BY <2>1, <2>4 DEF ParseMint, ParseBurn, ParseSwap
<1> QED
  BY <1>1, <1>2, OneEvent, EventAmongOthers

-----------------------------------------------------------------------------
(* The stored record. *)

Spaced == {t \in Ticks : t % Spacing = 0}

Records == [stored : BOOLEAN, tick : Ticks, states : UNION {[T -> Int] : T \in SUBSET Spaced}]

\* r is what the lens returns, but for ticks without liquidity.
IsSnapshot(r, current, liq) ==
    /\ r.tick = current
    /\ Initialised(liq) \subseteq DOMAIN r.states
    /\ \A t \in DOMAIN r.states : r.states[t] = LiquidityNet(liq, t)

\* What the lens returns, without the listing.
LEMMA Loaded ==
    ASSUME NEW current \in Ticks, NEW liq, IsLiquidity(liq)
    PROVE  Load(current, liq)
             = [stored |-> TRUE, tick |-> current,
                states |-> [t \in Initialised(liq) |-> LiquidityNet(liq, t)]]
<1> DEFINE ticks == GetAllTicks(liq)
           N == Len(ticks)
           pick(t) == CHOOSE j \in 1..N : Int32(ticks[j].index) = t
           D == {Int32(ticks[i].index) : i \in 1..N}
<1>1. ListsTicks(ticks, liq, Initialised(liq))
  BY LensListsTicks
<1> HIDE DEF ticks
<1>2. /\ \A i \in 1..N : ticks[i].index \in Initialised(liq)
                         /\ ticks[i].net = LiquidityNet(liq, ticks[i].index)
      /\ \A t \in Initialised(liq) : \E i \in 1..N : ticks[i].index = t
  BY <1>1 DEF ListsTicks
<1>3. \A t \in Initialised(liq) : Int32(t) = t
  BY InitialisedAreMultiples, TickKept
<1>4. D = Initialised(liq)
  <2> HIDE DEF N
  <2> QED
    BY <1>2, <1>3
<1>5. \A t \in D : ticks[pick(t)].net = LiquidityNet(liq, t)
  <2> SUFFICES ASSUME NEW t \in Initialised(liq)
               PROVE  ticks[pick(t)].net = LiquidityNet(liq, t)
    BY <1>4
  <2> HIDE DEF N
  <2>1. \E j \in 1..N : Int32(ticks[j].index) = t
    BY <1>2, <1>3
  <2>2. pick(t) \in 1..N /\ Int32(ticks[pick(t)].index) = t
    BY <2>1
  <2> HIDE DEF pick
  <2>3. ticks[pick(t)].index = t
    BY <1>2, <1>3, <2>2
  <2> QED
    BY <1>2, <2>2, <2>3
<1>6. Load(current, liq) = [stored |-> TRUE, tick |-> Int32(current),
                            states |-> [t \in D |-> ticks[pick(t)].net]]
  BY DEF Load, ticks
<1>7. [t \in D |-> ticks[pick(t)].net] = [t \in Initialised(liq) |-> LiquidityNet(liq, t)]
  <2> HIDE DEF D, pick
  <2> QED
    BY <1>4, <1>5
<1>8. Int32(current) = current
  BY TickKept
<1> HIDE DEF D, pick
<1> QED
  BY <1>6, <1>7, <1>8

LEMMA LoadIsSnapshot ==
    ASSUME NEW current \in Ticks, NEW liq, IsLiquidity(liq)
    PROVE  /\ Load(current, liq) \in Records /\ Load(current, liq).stored
           /\ IsSnapshot(Load(current, liq), current, liq)
<1> DEFINE s == [t \in Initialised(liq) |-> LiquidityNet(liq, t)]
<1>1. Load(current, liq) = [stored |-> TRUE, tick |-> current, states |-> s]
  BY Loaded
<1>2. Initialised(liq) \subseteq Spaced
  BY InitialisedAreMultiples DEF Spaced
<1>3. s \in [Initialised(liq) -> Int]
  BY NetType
<1>4. DOMAIN s = Initialised(liq) /\ \A t \in DOMAIN s : s[t] = LiquidityNet(liq, t)
  OBVIOUS
<1> HIDE DEF s
<1>5. s \in UNION {[T -> Int] : T \in SUBSET Spaced}
  BY <1>2, <1>3
<1> QED
  BY <1>1, <1>4, <1>5 DEF Records, IsSnapshot

\* The net liquidity changes at the ends of a position.
LEMMA NetChanges ==
    ASSUME NEW liq, IsLiquidity(liq), NEW q \in Positions, NEW amount \in Int,
           NEW more, IsLiquidity(more), more[q] = liq[q] + amount,
           \A p \in Positions : p # q => more[p] = liq[p]
    PROVE  /\ Initialised(more) \subseteq Initialised(liq) \cup {q[1], q[2]}
           /\ \A t : LiquidityNet(more, t) = LiquidityNet(liq, t)
                                               + (IF t = q[1] THEN amount ELSE 0)
                                               - (IF t = q[2] THEN amount ELSE 0)
<1>1. ASSUME NEW t \in Initialised(more)
      PROVE  t \in Initialised(liq) \cup {q[1], q[2]}
  <2>1. PICK p \in Positions : more[p] > 0 /\ t \in {p[1], p[2]}
    BY InitialisedTicks
  <2>2. CASE p = q
    BY <2>1, <2>2
  <2>3. CASE p # q
    <3>1. liq[p] > 0
      BY <2>1, <2>3
    <3> QED
      BY <2>1, <3>1, InitialisedTicks
  <2> QED
    BY <2>2, <2>3
<1>2. ASSUME NEW t
      PROVE  LiquidityNet(more, t) = LiquidityNet(liq, t)
                                       + (IF t = q[1] THEN amount ELSE 0)
                                       - (IF t = q[2] THEN amount ELSE 0)
  <2> DEFINE B == {p \in Positions : p[1] = t}
             C == {p \in Positions : p[2] = t}
  <2>1. B \subseteq Positions /\ C \subseteq Positions
    OBVIOUS
  <2>2. (q \in B <=> t = q[1]) /\ (q \in C <=> t = q[2])
    OBVIOUS
  <2>3. /\ LiquidityNet(more, t) = Sum(more, B) - Sum(more, C)
        /\ LiquidityNet(liq, t) = Sum(liq, B) - Sum(liq, C)
    BY DEF LiquidityNet
  <2> HIDE DEF B, C
  <2>4. Sum(more, B) = Sum(liq, B) + (IF q \in B THEN amount ELSE 0)
    BY <2>1, SumOfPositions, SumChanges
  <2>5. Sum(more, C) = Sum(liq, C) + (IF q \in C THEN amount ELSE 0)
    BY <2>1, SumOfPositions, SumChanges
  <2>6. Sum(liq, B) \in Nat /\ Sum(liq, C) \in Nat
    BY <2>1, SumOfPositions
  <2> QED
    BY <2>2, <2>3, <2>4, <2>5, <2>6
<1> QED
  BY <1>1, <1>2

\* A position's change of liquidity, applied to the ticks at its ends.
PositionReacts(r, q, amount) ==
    [r EXCEPT !.states = ReactTick(ReactTick(@, q[1], amount), q[2], -amount)]

LEMMA SnapshotChanges ==
    ASSUME NEW liq, IsLiquidity(liq), NEW q \in Positions, NEW amount \in Int,
           NEW more, IsLiquidity(more), more[q] = liq[q] + amount,
           \A p \in Positions : p # q => more[p] = liq[p],
           NEW current, NEW r \in Records, r.stored, IsSnapshot(r, current, liq)
    PROVE  /\ PositionReacts(r, q, amount) \in Records /\ PositionReacts(r, q, amount).stored
           /\ IsSnapshot(PositionReacts(r, q, amount), current, more)
<1>1. PICK T \in SUBSET Spaced : r.states \in [T -> Int]
  BY DEF Records
<1> DEFINE s == r.states
           a == q[1]
           b == q[2]
           s1 == ReactTick(s, a, amount)
           s2 == ReactTick(s1, b, -amount)
           U == (T \cup {a}) \cup {b}
<1>2. a \in Spaced /\ b \in Spaced /\ a \in Int /\ b \in Int /\ a # b /\ -amount \in Int
  <2>1. q[1] \in Ticks /\ q[2] \in Ticks /\ q[1] < q[2] /\ q[1] % Spacing = 0 /\ q[2] % Spacing = 0
    BY PositionsFinite
  <2>2. q[1] \in Int /\ q[2] \in Int
    BY <2>1, PositionsFinite
  <2>3. q[1] # q[2]
    BY <2>1, <2>2
  <2> QED
    BY <2>1, <2>2, <2>3 DEF Spaced
<1> HIDE DEF s, a, b
<1>3. s \in [T -> Int] /\ DOMAIN s = T
  BY <1>1 DEF s
<1>4. /\ s1 \in [T \cup {a} -> Int] /\ T \cup {a} \in SUBSET Spaced
      /\ \A u \in T \cup {a} : s1[u] = (IF u \in T THEN s[u] ELSE 0)
                                         + (IF u = a THEN amount ELSE 0)
  <2>1. s1 = [u \in T \cup {a} |-> (IF u \in T THEN s[u] ELSE 0) + (IF u = a THEN amount ELSE 0)]
    BY <1>3 DEF ReactTick
  <2> HIDE DEF s1
  <2>2. \A u \in T \cup {a} : (IF u \in T THEN s[u] ELSE 0) + (IF u = a THEN amount ELSE 0) \in Int
    BY <1>3
  <2>3. T \cup {a} \in SUBSET Spaced
    BY <1>2
  <2> QED
    BY <2>1, <2>2, <2>3
<1> HIDE DEF s1
<1>5. /\ s2 \in [U -> Int] /\ U \in SUBSET Spaced
      /\ \A u \in U : s2[u] = (IF u \in T \cup {a} THEN s1[u] ELSE 0)
                                + (IF u = b THEN -amount ELSE 0)
  <2>1. DOMAIN s1 = T \cup {a}
    BY <1>4
  <2>2. s2 = [u \in U |-> (IF u \in T \cup {a} THEN s1[u] ELSE 0) + (IF u = b THEN -amount ELSE 0)]
    BY <2>1 DEF ReactTick
  <2> HIDE DEF s2
  <2>3. \A u \in U : (IF u \in T \cup {a} THEN s1[u] ELSE 0) + (IF u = b THEN -amount ELSE 0) \in Int
    BY <1>2, <1>4
  <2>4. U \in SUBSET Spaced
    BY <1>2, <1>4
  <2> QED
    BY <2>2, <2>3, <2>4
<1> HIDE DEF s2
<1>6. /\ Initialised(liq) \subseteq T /\ \A t \in T : s[t] = LiquidityNet(liq, t)
      /\ r.tick = current
  BY <1>3 DEF IsSnapshot, s
<1>7. /\ Initialised(more) \subseteq Initialised(liq) \cup {a, b}
      /\ \A t : LiquidityNet(more, t) = LiquidityNet(liq, t) + (IF t = a THEN amount ELSE 0)
                                                             - (IF t = b THEN amount ELSE 0)
  BY NetChanges DEF a, b
<1>8. ASSUME NEW u \in U
      PROVE  s2[u] = LiquidityNet(more, u)
  <2> DEFINE net == LiquidityNet(liq, u)
  <2>1. net \in Int /\ (u \notin T => net = 0)
    <3>1. u \in Ticks
      BY <1>5 DEF Spaced
    <3> QED
      BY <1>6, <3>1, NetType
  <2>2. u \in T => s[u] = net
    BY <1>6
  <2>3. LiquidityNet(more, u) = net + (IF u = a THEN amount ELSE 0) - (IF u = b THEN amount ELSE 0)
    BY <1>7
  <2>4. s2[u] = (IF u \in T \cup {a} THEN s1[u] ELSE 0) + (IF u = b THEN -amount ELSE 0)
    BY <1>5
  <2>5. u \in T \cup {a} => s1[u] = (IF u \in T THEN s[u] ELSE 0) + (IF u = a THEN amount ELSE 0)
    BY <1>4
  <2> HIDE DEF net, U
  <2>6. u \in T \cup {a} => s1[u] = net + (IF u = a THEN amount ELSE 0)
    BY <2>1, <2>2, <2>5
  <2>7. u \notin T \cup {a} => net = 0 /\ u # a
    BY <2>1
  <2> QED
    BY <1>2, <2>1, <2>3, <2>4, <2>6, <2>7
<1>9. Initialised(more) \subseteq U
  BY <1>6, <1>7
<1> DEFINE w == PositionReacts(r, q, amount)
<1>10. w = [r EXCEPT !.states = s2]
  BY DEF PositionReacts, s2, s1, s, a, b
<1>11. /\ w.states = s2 /\ w.tick = current /\ w.stored
       /\ w = [stored |-> r.stored, tick |-> r.tick, states |-> s2]
  BY <1>6, <1>10 DEF Records
<1> HIDE DEF w, U
<1>12. s2 \in UNION {[S -> Int] : S \in SUBSET Spaced}
  BY <1>5
<1>13. w \in Records
  BY <1>11, <1>12 DEF Records
<1>14. DOMAIN s2 = U
  BY <1>5
<1>15. IsSnapshot(w, current, more)
  BY <1>8, <1>9, <1>11, <1>14 DEF IsSnapshot
<1> QED
  BY <1>11, <1>13, <1>15 DEF w

LEMMA SnapshotSwaps ==
    ASSUME NEW liq, NEW current, NEW t \in Ticks,
           NEW r \in Records, r.stored, IsSnapshot(r, current, liq)
    PROVE  /\ [r EXCEPT !.tick = t] \in Records /\ [r EXCEPT !.tick = t].stored
           /\ IsSnapshot([r EXCEPT !.tick = t], t, liq)
BY DEF Records, IsSnapshot

-----------------------------------------------------------------------------
(* The logs of the pool, parsed and applied. *)

MintLog(q, amount) ==
    [address |-> Pool, topics |-> <<MintTopic0, Owner, Word(q[1]), Word(q[2])>>,
     data |-> <<Owner, amount, Spent, Spent>>]

BurnLog(q, amount) ==
    [address |-> Pool, topics |-> <<BurnTopic0, Owner, Word(q[1]), Word(q[2])>>,
     data |-> <<amount, Spent, Spent>>]

SwapLog(t) ==
    [address |-> Pool, topics |-> <<SwapTopic0, Owner, Owner>>,
     data |-> <<Spent, Word(-Spent), Spent, Spent, Word(t), 0, 0>>]

LEMMA Topics ==
    /\ MintTopic0 # BurnTopic0 /\ MintTopic0 # SwapTopic0 /\ BurnTopic0 # SwapTopic0
    /\ DOMAIN InputParserBook = {MintTopic0, BurnTopic0, SwapTopic0}
    /\ InputParserBook[MintTopic0].topicLen = 4 /\ InputParserBook[MintTopic0].dataUnpackLen = 4
    /\ InputParserBook[BurnTopic0].topicLen = 4 /\ InputParserBook[BurnTopic0].dataUnpackLen = 3
    /\ InputParserBook[SwapTopic0].topicLen = 3 /\ InputParserBook[SwapTopic0].dataUnpackLen = 7
<1>1. MintTopic0 # BurnTopic0 /\ MintTopic0 # SwapTopic0 /\ BurnTopic0 # SwapTopic0
  BY DEF MintTopic0, BurnTopic0, SwapTopic0
<1> QED
  BY <1>1 DEF InputParserBook

LEMMA MintParses ==
    ASSUME NEW q, NEW amount
    PROVE  /\ Parses(MintLog(q, amount))
           /\ ParseLog(MintLog(q, amount))
                = [address |-> Pool, type |-> "mint", amount |-> amount,
                   lower |-> Word(q[1]), upper |-> Word(q[2])]
<1> DEFINE log == MintLog(q, amount)
<1>1. /\ log.address = Pool /\ log.topics # <<>> /\ Head(log.topics) = MintTopic0
      /\ Len(log.topics) = 4 /\ Len(log.data) = 4 /\ log.data[2] = amount
      /\ log.topics[3] = Word(q[1]) /\ log.topics[4] = Word(q[2])
  BY DEF MintLog
<1> HIDE DEF log
<1>2. Parses(log)
  BY <1>1, Topics DEF Parses
<1>3. ParseLog(log) = ParseMint(log)
  BY <1>1, Topics DEF ParseLog
<1> QED
  BY <1>1, <1>2, <1>3 DEF ParseMint, log

LEMMA BurnParses ==
    ASSUME NEW q, NEW amount
    PROVE  /\ Parses(BurnLog(q, amount))
           /\ ParseLog(BurnLog(q, amount))
                = [address |-> Pool, type |-> "burn", amount |-> amount,
                   lower |-> Word(q[1]), upper |-> Word(q[2])]
<1> DEFINE log == BurnLog(q, amount)
<1>1. /\ log.address = Pool /\ log.topics # <<>> /\ Head(log.topics) = BurnTopic0
      /\ Len(log.topics) = 4 /\ Len(log.data) = 3 /\ log.data[1] = amount
      /\ log.topics[3] = Word(q[1]) /\ log.topics[4] = Word(q[2])
  BY DEF BurnLog
<1> HIDE DEF log
<1>2. Parses(log)
  BY <1>1, Topics DEF Parses
<1>3. ParseLog(log) = ParseBurn(log)
  BY <1>1, Topics DEF ParseLog
<1> QED
  BY <1>1, <1>2, <1>3 DEF ParseBurn, log

LEMMA SwapParses ==
    ASSUME NEW t
    PROVE  /\ Parses(SwapLog(t))
           /\ ParseLog(SwapLog(t)) = [address |-> Pool, type |-> "swap", tick |-> Signed(Word(t))]
<1> DEFINE log == SwapLog(t)
<1>1. /\ log.address = Pool /\ log.topics # <<>> /\ Head(log.topics) = SwapTopic0
      /\ Len(log.topics) = 3 /\ Len(log.data) = 7 /\ log.data[5] = Word(t)
  BY DEF SwapLog
<1> HIDE DEF log
<1>2. Parses(log)
  BY <1>1, Topics DEF Parses
<1>3. ParseLog(log) = ParseSwap(log)
  BY <1>1, Topics DEF ParseLog
<1> QED
  BY <1>1, <1>2, <1>3 DEF ParseSwap, log

LEMMA PositionEvent ==
    ASSUME NEW r \in Records, NEW q \in Positions, NEW amount \in Nat
    PROVE  /\ ReactEvent(r, ParseLog(MintLog(q, amount))) = PositionReacts(r, q, amount)
           /\ ReactEvent(r, ParseLog(BurnLog(q, amount))) = PositionReacts(r, q, -amount)
<1>1. Int32(Word(q[1])) = q[1] /\ Int32(Word(q[2])) = q[2]
  BY PositionsFinite, TickKept
<1>2. -(-amount) = amount
  OBVIOUS
<1>3. ReactEvent(r, ParseLog(MintLog(q, amount))) = PositionReacts(r, q, amount)
  BY <1>1, MintParses DEF ReactEvent, PositionReacts
<1>4. ReactEvent(r, ParseLog(BurnLog(q, amount))) = PositionReacts(r, q, -amount)
  BY <1>1, <1>2, BurnParses DEF ReactEvent, PositionReacts
<1> QED
  BY <1>3, <1>4

-----------------------------------------------------------------------------
(* The inductive invariant. *)

\* The record is of its type, and what the lens would return.
StoreInv ==
    /\ liquidity \in [Positions -> 0..MaxLiquidity]
    /\ tick \in Ticks
    /\ record \in Records
    /\ record.stored => IsSnapshot(record, tick, liquidity)

\* An answer with a state is that of the record.
AnswerInv ==
    \/ answer \in {NoAnswer, BadRequest, Failure}
    \/ \E p \in Params : /\ FromHttpRequest(p) /\ record.stored
                         /\ answer = Answer(record, Arrange(p))

IInv == StoreInv /\ AnswerInv

LEMMA LiquidityType ==
    ASSUME NEW liq \in [Positions -> 0..MaxLiquidity]
    PROVE  IsLiquidity(liq)
BY APIAssumption DEF IsLiquidity

\* A block keeps the record a snapshot, if its log's event does.
LEMMA Handled ==
    ASSUME StoreInv, NEW log, Handle(log), Parses(log), ParseLog(log).address = Pool,
           tick' \in Ticks, liquidity' \in [Positions -> 0..MaxLiquidity],
           \A r \in Records : r.stored /\ IsSnapshot(r, tick, liquidity) =>
              /\ ReactEvent(r, ParseLog(log)) \in Records
              /\ ReactEvent(r, ParseLog(log)).stored
              /\ IsSnapshot(ReactEvent(r, ParseLog(log)), tick', liquidity')
    PROVE  IInv'
<1>1. PICK other \in OtherLogs :
         /\ IF record.stored
            THEN record' = ReactBlockEvent(record, ParseBlock(Receipts(log, other)))
            ELSE record' \in {record, Load(tick', liquidity'),
                              ReactBlockEvent(Load(tick, liquidity), ParseBlock(Receipts(log, other)))}
         /\ answer' = NoAnswer
  BY DEF Handle
<1>2. \A r : ReactBlockEvent(r, ParseBlock(Receipts(log, other))) = ReactEvent(r, ParseLog(log))
  BY OnlyPoolEvent
<1>3. IsLiquidity(liquidity) /\ IsLiquidity(liquidity')
  BY LiquidityType DEF StoreInv
<1>4. /\ Load(tick, liquidity) \in Records /\ Load(tick, liquidity).stored
      /\ IsSnapshot(Load(tick, liquidity), tick, liquidity)
  BY <1>3, LoadIsSnapshot DEF StoreInv
<1>5. /\ Load(tick', liquidity') \in Records
      /\ IsSnapshot(Load(tick', liquidity'), tick', liquidity')
  BY <1>3, LoadIsSnapshot
<1>6. record' \in Records /\ (record'.stored => IsSnapshot(record', tick', liquidity'))
  <2>1. CASE record.stored
    <3>1. record' = ReactEvent(record, ParseLog(log))
      BY <1>1, <1>2, <2>1
    <3> QED
      BY <2>1, <3>1 DEF StoreInv
  <2>2. CASE ~record.stored
    <3>1. \/ record' = record
          \/ record' = Load(tick', liquidity')
          \/ record' = ReactEvent(Load(tick, liquidity), ParseLog(log))
      BY <1>1, <1>2, <2>2
    <3> QED
      BY <1>4, <1>5, <2>2, <3>1 DEF StoreInv
  <2> QED
    BY <2>1, <2>2
<1> QED
  BY <1>1, <1>6 DEF IInv, StoreInv, AnswerInv

LEMMA Minted ==
    ASSUME IInv, NEW q \in Positions, NEW amount \in 1..MaxLiquidity, Mint(q, amount)
    PROVE  IInv'
<1>1. StoreInv /\ MaxLiquidity \in Nat /\ amount \in Nat
  BY APIAssumption DEF IInv
<1>2. /\ liquidity' = [liquidity EXCEPT ![q] = @ + amount] /\ tick' = tick
      /\ liquidity[q] + amount <= MaxLiquidity
      /\ Handle(MintLog(q, amount))
  BY DEF Mint, MintLog
<1>3. liquidity' \in [Positions -> 0..MaxLiquidity] /\ liquidity \in [Positions -> 0..MaxLiquidity]
  BY <1>1, <1>2 DEF StoreInv
<1>4. /\ liquidity'[q] = liquidity[q] + amount
      /\ \A p \in Positions : p # q => liquidity'[p] = liquidity[p]
  BY <1>2, <1>3
<1>5. tick' \in Ticks
  BY <1>1, <1>2 DEF StoreInv
<1>6. ASSUME NEW r \in Records, r.stored, IsSnapshot(r, tick, liquidity)
      PROVE  /\ ReactEvent(r, ParseLog(MintLog(q, amount))) \in Records
             /\ ReactEvent(r, ParseLog(MintLog(q, amount))).stored
             /\ IsSnapshot(ReactEvent(r, ParseLog(MintLog(q, amount))), tick', liquidity')
  <2>1. IsLiquidity(liquidity) /\ IsLiquidity(liquidity')
    BY <1>3, LiquidityType
  <2>2. /\ PositionReacts(r, q, amount) \in Records /\ PositionReacts(r, q, amount).stored
        /\ IsSnapshot(PositionReacts(r, q, amount), tick, liquidity')
    BY <1>1, <1>4, <1>6, <2>1, SnapshotChanges
  <2>3. ReactEvent(r, ParseLog(MintLog(q, amount))) = PositionReacts(r, q, amount)
    BY <1>1, PositionEvent
  <2> QED
    BY <1>2, <2>2, <2>3
<1>7. Parses(MintLog(q, amount)) /\ ParseLog(MintLog(q, amount)).address = Pool
  BY MintParses
<1> QED
  BY <1>1, <1>2, <1>3, <1>5, <1>6, <1>7, Handled

LEMMA Burned ==
    ASSUME IInv, NEW q \in Positions, NEW amount \in 0..MaxLiquidity, Burn(q, amount)
    PROVE  IInv'
<1>1. StoreInv /\ MaxLiquidity \in Nat /\ amount \in Nat /\ -amount \in Int
  BY APIAssumption DEF IInv
<1>2. /\ liquidity' = [liquidity EXCEPT ![q] = @ - amount] /\ tick' = tick
      /\ amount <= liquidity[q]
      /\ Handle(BurnLog(q, amount))
  BY DEF Burn, BurnLog
<1>3. liquidity' \in [Positions -> 0..MaxLiquidity] /\ liquidity \in [Positions -> 0..MaxLiquidity]
  BY <1>1, <1>2 DEF StoreInv
<1>4. /\ liquidity'[q] = liquidity[q] + (-amount)
      /\ \A p \in Positions : p # q => liquidity'[p] = liquidity[p]
  BY <1>1, <1>2, <1>3
<1>5. tick' \in Ticks
  BY <1>1, <1>2 DEF StoreInv
<1>6. ASSUME NEW r \in Records, r.stored, IsSnapshot(r, tick, liquidity)
      PROVE  /\ ReactEvent(r, ParseLog(BurnLog(q, amount))) \in Records
             /\ ReactEvent(r, ParseLog(BurnLog(q, amount))).stored
             /\ IsSnapshot(ReactEvent(r, ParseLog(BurnLog(q, amount))), tick', liquidity')
  <2>1. IsLiquidity(liquidity) /\ IsLiquidity(liquidity')
    BY <1>3, LiquidityType
  <2>2. /\ PositionReacts(r, q, -amount) \in Records /\ PositionReacts(r, q, -amount).stored
        /\ IsSnapshot(PositionReacts(r, q, -amount), tick, liquidity')
    BY <1>1, <1>4, <1>6, <2>1, SnapshotChanges
  <2>3. ReactEvent(r, ParseLog(BurnLog(q, amount))) = PositionReacts(r, q, -amount)
    BY <1>1, PositionEvent
  <2> QED
    BY <1>2, <2>2, <2>3
<1>7. Parses(BurnLog(q, amount)) /\ ParseLog(BurnLog(q, amount)).address = Pool
  BY BurnParses
<1> QED
  BY <1>1, <1>2, <1>3, <1>5, <1>6, <1>7, Handled

LEMMA Swapped ==
    ASSUME IInv, NEW t \in SwapTicks, Swap(t)
    PROVE  IInv'
<1>1. StoreInv /\ t \in Ticks
  BY APIAssumption DEF IInv
<1>2. tick' = t /\ liquidity' = liquidity /\ Handle(SwapLog(t))
  BY DEF Swap, SwapLog
<1>3. liquidity' \in [Positions -> 0..MaxLiquidity] /\ tick' \in Ticks
  BY <1>1, <1>2 DEF StoreInv
<1>4. Parses(SwapLog(t)) /\ ParseLog(SwapLog(t)).address = Pool
  BY SwapParses
<1>5. ASSUME NEW r \in Records, r.stored, IsSnapshot(r, tick, liquidity)
      PROVE  /\ ReactEvent(r, ParseLog(SwapLog(t))) \in Records
             /\ ReactEvent(r, ParseLog(SwapLog(t))).stored
             /\ IsSnapshot(ReactEvent(r, ParseLog(SwapLog(t))), tick', liquidity')
  <2>1. Int32(Signed(Word(t))) = t
    BY <1>1, TickKept
  <2>2. ReactEvent(r, ParseLog(SwapLog(t))) = [r EXCEPT !.tick = t]
    BY <2>1, SwapParses DEF ReactEvent
  <2>3. /\ [r EXCEPT !.tick = t] \in Records /\ [r EXCEPT !.tick = t].stored
        /\ IsSnapshot([r EXCEPT !.tick = t], t, liquidity)
    BY <1>1, <1>5, SnapshotSwaps
  <2> QED
    BY <1>2, <2>2, <2>3
<1> QED
  BY <1>1, <1>2, <1>3, <1>4, <1>5, Handled

LEMMA Answered ==
    ASSUME IInv, NEW p \in Params, HandlerPoolState(p)
    PROVE  IInv'
<1>1. liquidity' = liquidity /\ tick' = tick
  BY DEF HandlerPoolState
<1>2. IsLiquidity(liquidity)
  BY LiquidityType DEF IInv, StoreInv
<1>3. CASE answer' \in {BadRequest, Failure} /\ record' = record
  BY <1>1, <1>3 DEF IInv, StoreInv, AnswerInv
<1>4. CASE /\ FromHttpRequest(p)
           /\ record' = IF record.stored THEN record ELSE Load(tick, liquidity)
           /\ answer' = Answer(record', Arrange(p))
  <2>1. record' \in Records /\ record'.stored /\ IsSnapshot(record', tick, liquidity)
    BY <1>2, <1>4, LoadIsSnapshot DEF IInv, StoreInv
  <2> QED
    BY <1>1, <1>4, <2>1 DEF IInv, StoreInv, AnswerInv
<1> QED
  BY <1>3, <1>4 DEF HandlerPoolState

LEMMA Started == Init => IInv
<1> SUFFICES ASSUME Init
             PROVE  IInv
  OBVIOUS
<1>1. liquidity \in [Positions -> 0..MaxLiquidity]
  BY APIAssumption DEF Init
<1>2. tick \in Ticks
  BY APIAssumption DEF Init
<1>3. record \in Records /\ ~record.stored
  <2>1. 0 \in Ticks
    BY IntegerSizes
  <2>2. <<>> \in [{} -> Int]
    OBVIOUS
  <2>3. <<>> \in UNION {[T -> Int] : T \in SUBSET Spaced}
    BY <2>2
  <2> QED
    BY <2>1, <2>3 DEF Init, NotStored, Records
<1> QED
  BY <1>1, <1>2, <1>3 DEF Init, IInv, StoreInv, AnswerInv

\* IInv is inductive: blocks and requests keep the stored record what the lens
\* would return, and an answer with a state is always that of the record.
\* (ParseBlock, reactEvent, HandlerPoolState)
THEOREM Invariance == Spec => []IInv
<1>1. IInv /\ [Next]_vars => IInv'
  <2> SUFFICES ASSUME IInv, [Next]_vars
               PROVE  IInv'
    OBVIOUS
  <2>1. CASE Next
    BY <2>1, Minted, Burned, Swapped, Answered DEF Next
  <2>2. CASE UNCHANGED vars
    BY <2>2 DEF vars, IInv, StoreInv, AnswerInv
  <2> QED
    BY <2>1, <2>2
<1> QED
  BY Started, <1>1, PTL DEF Spec

\* The walk of the lens finds every tick of every state.  (getAllTicks)
THEOREM LensIsComplete == Spec => []LensFindsAll
<1>1. IInv => LensFindsAll
  <2> SUFFICES ASSUME IInv
               PROVE  LensFindsAll
    OBVIOUS
  <2> DEFINE ticks == GetAllTicks(liquidity)
  <2>1. ListsTicks(ticks, liquidity, Initialised(liquidity))
    BY LiquidityType, LensListsTicks DEF IInv, StoreInv
  <2> HIDE DEF ticks
  <2>2. /\ {ticks[i].index : i \in 1..Len(ticks)} = Initialised(liquidity)
        /\ \A i, j \in 1..Len(ticks) : i < j => ticks[i].index < ticks[j].index
        /\ \A i \in 1..Len(ticks) : ticks[i].net = LiquidityNet(liquidity, ticks[i].index)
    BY <2>1 DEF ListsTicks
  <2> QED
    BY <2>2 DEF LensFindsAll, ticks
<1> QED
  BY Invariance, <1>1, PTL

\* The stored record is what the lens would return, wherever its parts come from.
\* (ParseBlock, reactEvent, SetPoolState)
THEOREM ReplicaIsExact == Spec => []ReplicaIsSnapshot
<1>1. IInv => ReplicaIsSnapshot
  <2> SUFFICES ASSUME IInv, record.stored
               PROVE  LET now == Load(tick, liquidity)
                          net(r, t) == IF t \in DOMAIN r.states THEN r.states[t] ELSE 0
                      IN  /\ record.tick = now.tick
                          /\ DOMAIN now.states \subseteq DOMAIN record.states
                          /\ \A t \in DOMAIN record.states : record.states[t] = net(now, t)
    BY DEF ReplicaIsSnapshot
  <2> DEFINE now == Load(tick, liquidity)
  <2>1. IsLiquidity(liquidity) /\ tick \in Ticks /\ IsSnapshot(record, tick, liquidity)
        /\ record \in Records
    BY LiquidityType DEF IInv, StoreInv
  <2>2. now = [stored |-> TRUE, tick |-> tick,
               states |-> [t \in Initialised(liquidity) |-> LiquidityNet(liquidity, t)]]
    BY <2>1, Loaded
  <2> HIDE DEF now
  <2>3. /\ now.tick = tick /\ DOMAIN now.states = Initialised(liquidity)
        /\ \A t \in Initialised(liquidity) : now.states[t] = LiquidityNet(liquidity, t)
    BY <2>2
  <2>4. \A t \in DOMAIN record.states : t \in Ticks
    BY <2>1 DEF Records, Spaced
  <2>5. ASSUME NEW t \in DOMAIN record.states
        PROVE  record.states[t] = IF t \in DOMAIN now.states THEN now.states[t] ELSE 0
    <3>1. record.states[t] = LiquidityNet(liquidity, t)
      BY <2>1 DEF IsSnapshot
    <3>2. t \notin Initialised(liquidity) => LiquidityNet(liquidity, t) = 0
      BY <2>1, <2>4, NetType
    <3> QED
      BY <2>3, <3>1, <3>2
  <2>6. record.tick = now.tick /\ DOMAIN now.states \subseteq DOMAIN record.states
    BY <2>1, <2>3 DEF IsSnapshot
  <2> QED
    BY <2>5, <2>6 DEF now
<1> QED
  BY Invariance, <1>1, PTL

-----------------------------------------------------------------------------
(* The ranges. *)

\* LiquidityAt for a given liquidity of the positions.
Active(liq, t) == Sum(liq, {q \in Positions : q[1] <= t /\ t < q[2]})

LEMMA ActiveType ==
    ASSUME NEW liq, IsLiquidity(liq), NEW t
    PROVE  /\ Active(liq, t) \in Nat
           /\ Active(liq, t) > 0 <=> \E q \in Positions : liq[q] > 0 /\ q[1] <= t /\ t < q[2]
<1> DEFINE A == {q \in Positions : q[1] <= t /\ t < q[2]}
<1>1. A \subseteq Positions /\ Active(liq, t) = Sum(liq, A)
  BY DEF Active
<1>2. \A q \in A : liq[q] \in Nat
  BY DEF IsLiquidity
<1>3. (\E q \in A : liq[q] > 0) <=> \E q \in Positions : liq[q] > 0 /\ q[1] <= t /\ t < q[2]
  OBVIOUS
<1> HIDE DEF A
<1> QED
  BY <1>1, <1>2, <1>3, SumOfPositions

\* Positions without liquidity do not count.
LEMMA SumOfLive ==
    ASSUME NEW liq, IsLiquidity(liq), NEW S, S \subseteq Positions, NEW T, T \subseteq Positions,
           \A q \in Positions : liq[q] > 0 => (q \in S <=> q \in T)
    PROVE  Sum(liq, S) = Sum(liq, T)
<1>1. ASSUME NEW U, U \subseteq Positions
      PROVE  Sum(liq, U) = Sum(liq, {q \in U : liq[q] > 0})
  <2> DEFINE L == {q \in U : liq[q] > 0}
  <2>1. L \subseteq U /\ U \ L \subseteq Positions /\ L \subseteq Positions
    BY <1>1
  <2>2. \A q \in U \ L : liq[q] = 0
    <3>1. \A q \in U : liq[q] \in Nat
      BY <1>1 DEF IsLiquidity
    <3> QED
      BY <3>1
  <2> HIDE DEF L
  <2>3. Sum(liq, U) = Sum(liq, L) + Sum(liq, U \ L)
    BY <1>1, <2>1, SumOfPositions, SumOfParts
  <2>4. Sum(liq, U \ L) = 0 /\ Sum(liq, L) \in Nat
    BY <2>1, <2>2, SumOfPositions
  <2>5. Sum(liq, U) = Sum(liq, L)
    BY <2>3, <2>4
  <2> QED
    BY <2>5 DEF L
<1>2. {q \in S : liq[q] > 0} = {q \in T : liq[q] > 0}
  OBVIOUS
<1>3. /\ Sum(liq, S) = Sum(liq, {q \in S : liq[q] > 0})
      /\ Sum(liq, T) = Sum(liq, {q \in T : liq[q] > 0})
  BY <1>1
<1> QED
  BY <1>2, <1>3

\* From t to u the active liquidity changes by the net liquidity of u, if there
\* is no initialised tick between.
LEMMA ActiveChanges ==
    ASSUME NEW liq, IsLiquidity(liq), NEW t \in Int, NEW u \in Int, t < u,
           \A v \in Initialised(liq) : ~(t < v /\ v < u)
    PROVE  Active(liq, u) = Active(liq, t) + LiquidityNet(liq, u)
<1> DEFINE A == {q \in Positions : q[1] <= t /\ t < q[2]}
           D == {q \in Positions : q[1] <= u /\ u < q[2]}
           B == {q \in Positions : q[1] = u}
           C == {q \in Positions : q[2] = u}
           K == A \cap D
<1>1. \A q \in Positions : q[1] \in Int /\ q[2] \in Int /\ q[1] < q[2]
  BY PositionsFinite
<1>2. \A q \in Positions : liq[q] > 0 => q[1] \in Initialised(liq) /\ q[2] \in Initialised(liq)
  BY InitialisedTicks
<1>3. \A q \in Positions : liq[q] > 0 => /\ (~(t < q[1] /\ q[1] < u)) /\ (~(t < q[2] /\ q[2] < u))
  BY <1>2
<1>4. \A q \in Positions : liq[q] > 0 => (q \in D <=> q \in K \cup B)
  BY <1>1, <1>3
<1>5. \A q \in Positions : liq[q] > 0 => (q \in A <=> q \in K \cup C)
  BY <1>1, <1>3
<1>6. K \cap B = {} /\ K \cap C = {}
  BY <1>1
<1>7. /\ A \subseteq Positions /\ D \subseteq Positions /\ B \subseteq Positions
      /\ C \subseteq Positions /\ K \subseteq Positions
      /\ K \cup B \subseteq Positions /\ K \cup C \subseteq Positions
  OBVIOUS
<1>8. /\ Active(liq, t) = Sum(liq, A) /\ Active(liq, u) = Sum(liq, D)
      /\ LiquidityNet(liq, u) = Sum(liq, B) - Sum(liq, C)
  BY DEF Active, LiquidityNet
<1> HIDE DEF A, D, B, C, K
<1>9. Sum(liq, D) = Sum(liq, K \cup B) /\ Sum(liq, A) = Sum(liq, K \cup C)
  BY <1>4, <1>5, <1>7, SumOfLive
<1>10. Sum(liq, K \cup B) = Sum(liq, K) + Sum(liq, B)
  BY <1>6, <1>7, SumOfPositions, SumOfBoth
<1>11. Sum(liq, K \cup C) = Sum(liq, K) + Sum(liq, C)
  BY <1>6, <1>7, SumOfPositions, SumOfBoth
<1>12. Sum(liq, K) \in Nat /\ Sum(liq, B) \in Nat /\ Sum(liq, C) \in Nat
  BY <1>7, SumOfPositions
<1> QED
  BY <1>8, <1>9, <1>10, <1>11, <1>12

LEMMA ActiveStays ==
    ASSUME NEW liq, IsLiquidity(liq), NEW t \in Int, NEW u \in Int, t <= u,
           \A v \in Initialised(liq) : ~(t < v /\ v <= u)
    PROVE  Active(liq, u) = Active(liq, t)
<1>1. CASE t = u
  BY <1>1
<1>2. CASE t < u
  <2>1. u \notin Initialised(liq)
    BY <1>2
  <2>2. LiquidityNet(liq, u) = 0
    <3>1. CASE u \in Ticks
      BY <2>1, <3>1, NetType
    <3>2. CASE u \notin Ticks
      <4> DEFINE B == {q \in Positions : q[1] = u}
                 C == {q \in Positions : q[2] = u}
      <4>1. B = {} /\ C = {}
        BY <3>2, PositionsFinite
      <4>2. Sum(liq, B) = 0 /\ Sum(liq, C) = 0
        <5> HIDE DEF B, C
        <5> QED
          BY <4>1, SumOfNothing
      <4> QED
        BY <4>2 DEF LiquidityNet
    <3> QED
      BY <3>1, <3>2
  <2>3. \A v \in Initialised(liq) : ~(t < v /\ v < u)
    <3>1. \A v \in Initialised(liq) : v \in Int
      BY InitialisedAreMultiples
    <3> QED
      BY <3>1
  <2>4. Active(liq, u) = Active(liq, t) + LiquidityNet(liq, u)
    BY <1>2, <2>3, ActiveChanges
  <2> QED
    BY <2>2, <2>4, ActiveType
<1> QED
  BY <1>1, <1>2

\* The liquidity summed up to each tick.
SumsUp(g, ticks, states) ==
    g = [i \in 0..Len(ticks) |-> IF i = 0 THEN 0 ELSE g[i - 1] + states[ticks[i]]]

Prefix(ticks, states) == CHOOSE g : SumsUp(g, ticks, states)

LEMMA BuildsPrefixes ==
    ASSUME NEW states
    PROVE  LET ticks == Ordered(DOMAIN states)
           IN  BuildRanges(states)
                 = [i \in 1..Len(ticks) - 1 |->
                      [lower |-> ticks[i], upper |-> ticks[i + 1],
                       liquidity |-> Prefix(ticks, states)[i]]]
BY DEF BuildRanges, Prefix, SumsUp

\* The ticks of a snapshot have their net liquidity, and all initialised ones are there.
HasTicks(states, liq) ==
    /\ Initialised(liq) \subseteq DOMAIN states
    /\ \A t \in DOMAIN states : states[t] = LiquidityNet(liq, t)

\* Up to a tick, the net liquidity adds up to the active liquidity.
LEMMA PrefixIsActive ==
    ASSUME NEW liq, IsLiquidity(liq), NEW T \in SUBSET Spaced, NEW states \in [T -> Int],
           HasTicks(states, liq), Cardinality(T) \in Nat, NEW ticks \in [1..Cardinality(T) -> T],
           Ascends(ticks, T), NEW i \in 1..Cardinality(T)
    PROVE  Prefix(ticks, states)[i] = Active(liq, ticks[i])
<1> DEFINE n == Cardinality(T)
<1>0. /\ n \in Nat /\ ticks \in [1..n -> T] /\ i \in 1..n /\ Len(ticks) = n
      /\ \A t \in T : \E k \in 1..n : ticks[k] = t
      /\ \A k, j \in 1..n : k < j => ticks[k] < ticks[j]
  BY DEF Ascends
<1> HIDE DEF n
<1> USE <1>0
<1> DEFINE h == [k \in 0..n |-> IF k = 0 THEN 0 ELSE Active(liq, ticks[k])]
           g == Prefix(ticks, states)
<1>1. /\ \A t \in T : t \in Int /\ states[t] = LiquidityNet(liq, t)
      /\ Initialised(liq) \subseteq T
  BY IntegerSizes DEF HasTicks, Spaced
<1>2. \A k \in 1..n : ticks[k] \in T /\ ticks[k] \in Int
  BY <1>1
<1>3. ASSUME NEW k \in 1..n
      PROVE  h[k] = h[k - 1] + states[ticks[k]]
  <2> DEFINE u == ticks[k]
  <2>1. u \in Int /\ u \in T /\ states[u] = LiquidityNet(liq, u) /\ h[k] = Active(liq, u)
    BY <1>1, <1>2
  <2>2. CASE k = 1
    <3>1. \A v \in Initialised(liq) : u <= v
      <4> TAKE v \in Initialised(liq)
      <4>1. PICK j \in 1..n : ticks[j] = v
        BY <1>1
      <4>2. j = 1 \/ 1 < j
        OBVIOUS
      <4>3. 1 < j => ticks[1] < ticks[j]
        BY <2>2
      <4> QED
        BY <1>2, <2>2, <4>1, <4>2, <4>3
    <3> HIDE DEF u
    <3>2. \A v \in Initialised(liq) : v \in Int
      BY <1>1
    <3>3. Active(liq, u - 1) = 0
      <4>1. ~ \E q \in Positions : liq[q] > 0 /\ q[1] <= u - 1 /\ u - 1 < q[2]
        <5> SUFFICES ASSUME NEW q \in Positions, liq[q] > 0, q[1] <= u - 1
                     PROVE  FALSE
          OBVIOUS
        <5>1. q[1] \in Initialised(liq)
          BY InitialisedTicks
        <5> QED
          BY <2>1, <3>1, <3>2, <5>1
      <4>2. Active(liq, u - 1) \in Nat /\ ~(Active(liq, u - 1) > 0)
        BY <4>1, ActiveType
      <4> QED
        BY <4>2
    <3>4. Active(liq, u) = Active(liq, u - 1) + LiquidityNet(liq, u)
      <4>1. u - 1 \in Int /\ u - 1 < u /\ \A v \in Initialised(liq) : ~(u - 1 < v /\ v < u)
        BY <2>1, <3>1, <3>2
      <4> QED
        BY <2>1, <4>1, ActiveChanges
    <3>5. h[k - 1] = 0
      BY <2>2
    <3> QED
      BY <2>1, <3>3, <3>4, <3>5 DEF u
  <2>3. CASE k # 1
    <3> DEFINE t == ticks[k - 1]
    <3>1. k - 1 \in 1..n /\ k - 1 \in 0..n /\ k - 1 # 0 /\ k - 1 < k
      BY <2>3
    <3>2. t \in Int /\ t < u
      BY <1>2, <3>1
    <3>3. \A v \in Initialised(liq) : ~(t < v /\ v < u)
      <4> SUFFICES ASSUME NEW v \in Initialised(liq), t < v, v < u
                   PROVE  FALSE
        OBVIOUS
      <4>1. PICK j \in 1..n : ticks[j] = v
        BY <1>1
      <4>2. j <= k - 1 \/ k <= j
        BY <3>1
      <4>3. (j < k - 1 => ticks[j] < ticks[k - 1]) /\ (k < j => ticks[k] < ticks[j])
        BY <3>1
      <4>4. ticks[j] \in Int /\ ticks[k - 1] \in Int /\ ticks[k] \in Int
        BY <1>2, <3>1
      <4>5. ~(ticks[j] < ticks[k - 1]) /\ ~(ticks[k] < ticks[j]) /\ j # k - 1 /\ j # k
        BY <4>1, <4>4
      <4> QED
        BY <3>1, <4>2, <4>3, <4>5
    <3>4. h[k - 1] = Active(liq, t)
      BY <3>1
    <3> HIDE DEF t, u, h
    <3>5. Active(liq, u) = Active(liq, t) + LiquidityNet(liq, u)
      BY <2>1, <3>2, <3>3, ActiveChanges
    <3> QED
      BY <2>1, <3>4, <3>5 DEF u
  <2> QED
    BY <2>2, <2>3
<1>4. SumsUp(h, ticks, states)
  <2> DEFINE k == [j \in 0..n |-> IF j = 0 THEN 0 ELSE h[j - 1] + states[ticks[j]]]
  <2>1. \A j \in 0..n : h[j] = k[j]
    <3> TAKE j \in 0..n
    <3>1. CASE j = 0
      BY <3>1
    <3>2. CASE j # 0
      <4>1. j \in 1..n
        BY <3>2
      <4>2. k[j] = h[j - 1] + states[ticks[j]]
        BY <3>2
      <4> HIDE DEF h, k
      <4> QED
        BY <1>3, <4>1, <4>2
    <3> QED
      BY <3>1, <3>2
  <2>2. h = k
    BY <2>1
  <2> HIDE DEF h
  <2> QED
    BY <2>2 DEF SumsUp
<1>5. SumsUp(g, ticks, states)
  <2> HIDE DEF h
  <2> QED
    BY <1>4 DEF Prefix
<1> HIDE DEF g
<1>6. \A k \in 0..n : g[k] = h[k]
  <2> DEFINE Bad == {k \in 0..n : g[k] # h[k]}
  <2>1. SUFFICES ASSUME Bad # {}
                 PROVE  FALSE
    OBVIOUS
  <2>2. PICK k \in Bad : \A j \in Bad : k <= j
    <3>1. Bad \subseteq Nat
      OBVIOUS
    <3> HIDE DEF Bad
    <3> QED
      BY <2>1, <3>1, Smallest
  <2>3. k \in 0..n /\ g[k] # h[k]
    OBVIOUS
  <2>4. g[0] = 0 /\ h[0] = 0
    <3>1. 0 \in 0..n
      OBVIOUS
    <3>2. g[0] = 0
      BY <1>5, <3>1 DEF SumsUp
    <3> QED
      BY <3>1, <3>2
  <2> HIDE DEF h
  <2>5. k # 0
    BY <2>3, <2>4
  <2>6. k - 1 \in 0..n /\ ~(k <= k - 1) /\ k \in 1..n
    BY <2>3, <2>5
  <2>7. g[k - 1] = h[k - 1]
    BY <2>2, <2>6
  <2>8. g[k] = g[k - 1] + states[ticks[k]]
    BY <1>5, <2>3, <2>5 DEF SumsUp
  <2> QED
    BY <1>3, <2>3, <2>6, <2>7, <2>8
<1>7. i \in 0..n /\ h[i] = Active(liq, ticks[i])
  OBVIOUS
<1> QED
  BY <1>6, <1>7 DEF g

Pieces == [lower : Spaced, upper : Spaced, liquidity : Int]

\* The ranges follow each other without a hole, each with its active liquidity.
IsCut(ranges, liq) ==
    /\ ranges \in Seq(Pieces)
    /\ \A i \in 1..Len(ranges) :
          /\ ranges[i].lower < ranges[i].upper
          /\ \A t \in Int : In(ranges[i], t) => ranges[i].liquidity = Active(liq, t)
    /\ \A i \in 1..Len(ranges) - 1 : ranges[i].upper = ranges[i + 1].lower

\* They hold every tick between two ends that has liquidity.
Covers(ranges, liq, from, to) ==
    \A t \in Int : from <= t /\ t < to /\ Active(liq, t) > 0 =>
       \E i \in 1..Len(ranges) : In(ranges[i], t)

LEMMA SpacedType == Spaced \subseteq Int /\ \A t \in Spaced : t \in Ticks /\ t % Spacing = 0
BY IntegerSizes DEF Spaced

LEMMA Built ==
    ASSUME NEW liq, IsLiquidity(liq), NEW T \in SUBSET Spaced, NEW states \in [T -> Int],
           HasTicks(states, liq), NEW from, NEW to
    PROVE  IsCut(BuildRanges(states), liq) /\ Covers(BuildRanges(states), liq, from, to)
<1> DEFINE ticks == Ordered(T)
           n == Cardinality(T)
           m == IF n = 0 THEN 0 ELSE n - 1
           prefix == Prefix(ticks, states)
           ranges == BuildRanges(states)
<1>1. DOMAIN states = T /\ T \subseteq -MaxTick..MaxTick /\ -MaxTick \in Int /\ MaxTick \in Int
  BY IntegerSizes, SpacedType
<1>2. n \in Nat /\ ticks \in [1..n -> T] /\ Ascends(ticks, T)
  BY <1>1, Ranked
<1>3. /\ \A t \in T : \E i \in 1..n : ticks[i] = t
      /\ \A i, j \in 1..n : i < j => ticks[i] < ticks[j]
  BY <1>2 DEF Ascends
<1> HIDE DEF ticks, n
<1>4. Len(ticks) = n
  BY <1>2
<1>5. ASSUME NEW i \in 1..n
      PROVE  prefix[i] = Active(liq, ticks[i])
  BY <1>2, PrefixIsActive DEF n
<1>6. ranges = [i \in 1..n - 1 |-> [lower |-> ticks[i], upper |-> ticks[i + 1], liquidity |-> prefix[i]]]
  BY <1>1, <1>4, BuildsPrefixes DEF ticks
<1> HIDE DEF prefix, ranges
<1>7. m \in Nat /\ 1..n - 1 = 1..m /\ \A i \in 1..m : i \in 1..n /\ i + 1 \in 1..n /\ i < i + 1
  BY <1>2
<1> HIDE DEF m
<1>8. \A t \in T : t \in Int /\ t \in Spaced
  BY SpacedType
<1>9. \A i \in 1..m : /\ ticks[i] \in T /\ ticks[i + 1] \in T
                      /\ ranges[i].lower = ticks[i] /\ ranges[i].upper = ticks[i + 1]
                      /\ ranges[i].liquidity = Active(liq, ticks[i])
                      /\ ranges[i] = [lower |-> ranges[i].lower, upper |-> ranges[i].upper,
                                      liquidity |-> ranges[i].liquidity]
  <2> TAKE i \in 1..m
  <2>1. ranges[i] = [lower |-> ticks[i], upper |-> ticks[i + 1], liquidity |-> prefix[i]]
    BY <1>6, <1>7
  <2>2. prefix[i] = Active(liq, ticks[i]) /\ ticks[i] \in T /\ ticks[i + 1] \in T
    BY <1>2, <1>5, <1>7
  <2> QED
    BY <2>1, <2>2
<1>10. ranges \in Seq(Pieces) /\ Len(ranges) = m
  <2>1. \A i \in 1..m : ranges[i] \in Pieces
    <3> TAKE i \in 1..m
    <3>1. ticks[i] \in T /\ ticks[i + 1] \in T
      BY <1>9
    <3>2. Active(liq, ticks[i]) \in Int
      BY <1>8, <3>1, ActiveType
    <3>3. [lower |-> ticks[i], upper |-> ticks[i + 1], liquidity |-> Active(liq, ticks[i])]
            \in Pieces
      BY <1>8, <3>1, <3>2 DEF Pieces
    <3>4. prefix[i] = Active(liq, ticks[i])
      BY <1>5, <1>7
    <3> QED
      BY <1>6, <1>7, <3>3, <3>4
  <2>2. ranges \in [1..m -> Pieces]
    BY <1>6, <1>7, <2>1
  <2> QED
    BY <1>7, <2>2
<1>11. \A v \in Initialised(liq) : v \in T
  BY <1>1 DEF HasTicks
<1>12. ASSUME NEW i \in 1..m
       PROVE  /\ ranges[i].lower < ranges[i].upper
              /\ \A t \in Int : In(ranges[i], t) => ranges[i].liquidity = Active(liq, t)
  <2>1. ranges[i].lower = ticks[i] /\ ranges[i].upper = ticks[i + 1]
        /\ ranges[i].liquidity = Active(liq, ticks[i])
    BY <1>9
  <2>2. ticks[i] < ticks[i + 1]
    BY <1>3, <1>7
  <2>3. ASSUME NEW t \in Int, ticks[i] <= t, t < ticks[i + 1]
        PROVE  Active(liq, ticks[i]) = Active(liq, t)
    <3>1. \A v \in Initialised(liq) : ~(ticks[i] < v /\ v <= t)
      <4> SUFFICES ASSUME NEW v \in Initialised(liq), ticks[i] < v, v <= t
                   PROVE  FALSE
        OBVIOUS
      <4>1. PICK j \in 1..n : ticks[j] = v
        BY <1>3, <1>11
      <4>2. (j < i => ticks[j] < ticks[i]) /\ (i + 1 < j => ticks[i + 1] < ticks[j])
        BY <1>3, <1>7
      <4>3. ticks[i] \in Int /\ ticks[i + 1] \in Int /\ ticks[j] \in Int
        BY <1>2, <1>8, <1>9
      <4>4. ~(ticks[j] < ticks[i]) /\ ~(ticks[i + 1] < ticks[j]) /\ j # i /\ j # i + 1
        BY <2>3, <4>1, <4>3
      <4> QED
        BY <1>2, <1>7, <4>2, <4>4
    <3>2. ticks[i] \in Int
      BY <1>8, <1>9
    <3> QED
      BY <2>3, <3>1, <3>2, ActiveStays
  <2> QED
    BY <2>1, <2>2, <2>3 DEF In
<1>13. ASSUME NEW i \in 1..Len(ranges) - 1
       PROVE  ranges[i].upper = ranges[i + 1].lower
  <2>1. i \in 1..m /\ i + 1 \in 1..m
    BY <1>7, <1>10
  <2> QED
    BY <1>9, <2>1
<1>14. IsCut(ranges, liq)
  BY <1>10, <1>12, <1>13 DEF IsCut
<1>15. ASSUME NEW t \in Int, Active(liq, t) > 0
       PROVE  \E i \in 1..Len(ranges) : In(ranges[i], t)
  <2>1. PICK q \in Positions : liq[q] > 0 /\ q[1] <= t /\ t < q[2]
    BY <1>15, ActiveType
  <2>2. q[1] \in T /\ q[2] \in T
    <3>1. q[1] \in Initialised(liq) /\ q[2] \in Initialised(liq)
      BY <2>1, InitialisedTicks
    <3> QED
      BY <1>11, <3>1
  <2>3. PICK j \in 1..n : ticks[j] = q[1]
    BY <1>3, <2>2
  <2>4. PICK k \in 1..n : ticks[k] = q[2]
    BY <1>3, <2>2
  <2> DEFINE D == {i \in 1..n : t < ticks[i]}
  <2>5. PICK l \in D : \A i \in D : l <= i
    <3>1. k \in D /\ D \subseteq Nat
      BY <2>1, <2>4
    <3> HIDE DEF D
    <3> QED
      BY <3>1, Smallest
  <2>6. l \in 1..n /\ t < ticks[l]
    OBVIOUS
  <2>7. l # 1
    <3>1. ~(l < j) /\ l # j
      <4>1. ticks[l] \in Int /\ ticks[j] \in Int /\ ~(ticks[l] <= ticks[j])
        BY <1>2, <1>8, <2>1, <2>3, <2>6
      <4>2. l < j => ticks[l] < ticks[j]
        BY <1>3, <2>6
      <4> QED
        BY <4>1, <4>2
    <3> QED
      BY <2>6, <3>1
  <2>8. l - 1 \in 1..n /\ ~(l <= l - 1) /\ l - 1 \in 1..m /\ (l - 1) + 1 = l
    BY <1>2, <2>6, <2>7 DEF m
  <2>9. ~(t < ticks[l - 1])
    BY <2>5, <2>8
  <2>10. ticks[l - 1] \in Int
    BY <1>2, <1>8, <2>8
  <2>11. ranges[l - 1].lower = ticks[l - 1] /\ ranges[l - 1].upper = ticks[l]
    BY <1>9, <2>8
  <2>12. In(ranges[l - 1], t)
    BY <2>6, <2>9, <2>10, <2>11 DEF In
  <2> QED
    BY <1>10, <2>8, <2>12
<1>16. Covers(ranges, liq, from, to)
  BY <1>15 DEF Covers
<1> QED
  BY <1>14, <1>16 DEF ranges

\* The ranges of a cut rise.
LEMMA CutRises ==
    ASSUME NEW liq, NEW ranges, IsCut(ranges, liq),
           NEW i \in 1..Len(ranges), NEW j \in 1..Len(ranges), i < j
    PROVE  ranges[i].lower < ranges[j].lower /\ ranges[i].upper <= ranges[j].lower
<1> DEFINE n == Len(ranges)
           a == [k \in 1..n |-> ranges[k].lower]
<1>1. /\ n \in Nat /\ ranges \in Seq(Pieces)
      /\ \A k \in 1..n : ranges[k] \in Pieces /\ ranges[k].lower < ranges[k].upper
      /\ \A k \in 1..n - 1 : ranges[k].upper = ranges[k + 1].lower
  BY DEF IsCut
<1>2. \A k \in 1..n : ranges[k].lower \in Int /\ ranges[k].upper \in Int
  BY <1>1, SpacedType DEF Pieces
<1>3. a \in [1..n -> Int] /\ \A k \in 1..n : a[k] = ranges[k].lower
  BY <1>2
<1> HIDE DEF a, n
<1>4. \A k \in 1..n - 1 : a[k] < a[k + 1]
  <2> TAKE k \in 1..n - 1
  <2>1. k \in 1..n /\ k + 1 \in 1..n
    BY <1>1
  <2> QED
    BY <1>1, <1>3, <2>1
<1>5. i \in 1..n /\ j \in 1..n
  BY DEF n
<1>6. a[i] < a[j]
  BY <1>1, <1>3, <1>4, <1>5, Rises
<1>7. \A k \in 1..n - 1 : a[k] <= a[k + 1]
  <2> TAKE k \in 1..n - 1
  <2>1. k \in 1..n /\ k + 1 \in 1..n
    BY <1>1
  <2>2. a[k] \in Int /\ a[k + 1] \in Int
    BY <1>3, <2>1
  <2> QED
    BY <1>4, <2>2
<1>8. i \in 1..n - 1 /\ i + 1 \in 1..n /\ i + 1 <= j
  BY <1>1, <1>5
<1>9. a[i + 1] <= a[j]
  BY <1>1, <1>3, <1>5, <1>7, <1>8, Grows
<1>10. ranges[i].upper = ranges[i + 1].lower
  BY <1>1, <1>8
<1> QED
  BY <1>3, <1>5, <1>6, <1>8, <1>9, <1>10

\* Of the ranges those are kept that meet the window, and no other.
Keeps(kept, ranges, window) ==
    /\ \A i \in 1..Len(kept) : \E j \in 1..Len(ranges) :
          kept[i] = ranges[j] /\ ranges[j].upper > window.from /\ ranges[j].lower < window.to
    /\ \A j \in 1..Len(ranges) : ranges[j].upper > window.from /\ ranges[j].lower < window.to =>
          \E i \in 1..Len(kept) : kept[i] = ranges[j]

\* What a filter leaves of a cut is one.  (FilterRangeLiquidityArray)
LEMMA Filtered ==
    ASSUME NEW liq, NEW ranges, IsCut(ranges, liq), NEW window,
           window.from \in Int, window.to \in Int
    PROVE  IsCut(Filter(ranges, window), liq) /\ Keeps(Filter(ranges, window), ranges, window)
<1> DEFINE n == Len(ranges)
           I == {i \in 1..n : ranges[i].upper > window.from /\ ranges[i].lower < window.to}
           o == Ordered(I)
           m == Cardinality(I)
           kept == Filter(ranges, window)
<1>1. /\ n \in Nat /\ ranges \in Seq(Pieces) /\ DOMAIN ranges = 1..n
      /\ \A k \in 1..n : /\ ranges[k] \in Pieces /\ ranges[k].lower < ranges[k].upper
                         /\ \A t \in Int : In(ranges[k], t) =>
                               ranges[k].liquidity = Active(liq, t)
      /\ \A k \in 1..n - 1 : ranges[k].upper = ranges[k + 1].lower
  BY DEF IsCut
<1>2. \A k \in 1..n : ranges[k].lower \in Int /\ ranges[k].upper \in Int
  BY <1>1, SpacedType DEF Pieces
<1>3. kept = [i \in 1..m |-> ranges[o[i]]]
  BY <1>1 DEF Filter, Pick
<1>4. Stretch(I)
  <2> SUFFICES ASSUME NEW i \in I, NEW j \in I, NEW k \in Int, i < k, k < j
               PROVE  k \in I
    BY DEF Stretch
  <2>1. i \in 1..n /\ j \in 1..n /\ k \in 1..n
    OBVIOUS
  <2>2. ranges[i].upper <= ranges[k].lower /\ ranges[k].lower < ranges[j].lower
    BY <2>1, CutRises
  <2>3. ranges[i].upper > window.from /\ ranges[j].lower < window.to
    OBVIOUS
  <2>4. ranges[k].lower < ranges[k].upper
    BY <1>1, <2>1
  <2>5. ranges[k].upper > window.from /\ ranges[k].lower < window.to
    BY <1>2, <2>1, <2>2, <2>3, <2>4
  <2> QED
    BY <2>1, <2>5
<1>5. m \in Nat /\ Follows(o, I)
  <2>1. I \subseteq 1..n /\ 1 \in Int /\ n \in Int
    BY <1>1
  <2> HIDE DEF I
  <2> QED
    BY <1>4, <2>1, Consecutive
<1>6. /\ o \in [1..m -> I]
      /\ \A x \in I : \E i \in 1..m : o[i] = x
      /\ \A i \in 1..m - 1 : o[i + 1] = o[i] + 1
  BY <1>5 DEF Follows
<1> HIDE DEF o, m, kept
<1>7. \A i \in 1..m : /\ o[i] \in 1..n /\ kept[i] = ranges[o[i]]
                      /\ ranges[o[i]].upper > window.from /\ ranges[o[i]].lower < window.to
  BY <1>3, <1>6
<1>8. \A j \in 1..n : ranges[j].upper > window.from /\ ranges[j].lower < window.to =>
         \E i \in 1..m : o[i] = j
  BY <1>6
<1> HIDE DEF I
<1>9. kept \in Seq(Pieces) /\ Len(kept) = m
  <2>1. \A i \in 1..m : ranges[o[i]] \in Pieces
    BY <1>1, <1>7
  <2>2. kept \in [1..m -> Pieces]
    BY <1>3, <2>1
  <2> QED
    BY <1>5, <2>2
<1>10. ASSUME NEW i \in 1..m - 1
       PROVE  kept[i].upper = kept[i + 1].lower
  <2>1. i \in 1..m /\ i + 1 \in 1..m
    BY <1>5
  <2>2. o[i + 1] = o[i] + 1 /\ o[i] \in 1..n /\ o[i + 1] \in 1..n
    BY <1>6, <1>7, <2>1
  <2>3. o[i] \in 1..n - 1
    BY <1>1, <2>2
  <2> QED
    BY <1>1, <1>7, <2>1, <2>2, <2>3
<1>11. IsCut(kept, liq)
  <2>1. \A i \in 1..m : /\ kept[i].lower < kept[i].upper
                        /\ \A t \in Int : In(kept[i], t) => kept[i].liquidity = Active(liq, t)
    BY <1>1, <1>7
  <2> QED
    BY <1>9, <1>10, <2>1 DEF IsCut
<1>12. \A i \in 1..m : \E j \in 1..n :
          kept[i] = ranges[j] /\ ranges[j].upper > window.from /\ ranges[j].lower < window.to
  BY <1>7
<1>13. \A j \in 1..n : ranges[j].upper > window.from /\ ranges[j].lower < window.to =>
          \E i \in 1..m : kept[i] = ranges[j]
  BY <1>7, <1>8
<1>14. Keeps(kept, ranges, window)
  BY <1>9, <1>12, <1>13 DEF Keeps, n
<1> QED
  BY <1>11, <1>14 DEF kept

\* The pieces of a range: each is one spacing wide, and they fill it.
FillUp(pieces, r) ==
    /\ pieces \in Seq(Pieces)
    /\ Len(pieces) >= 1
    /\ r.upper = r.lower + Len(pieces) * Spacing
    /\ \A i \in 1..Len(pieces) : /\ pieces[i].lower = r.lower + (i - 1) * Spacing
                                 /\ pieces[i].upper = r.lower + i * Spacing
                                 /\ pieces[i].liquidity = r.liquidity

LEMMA SpacedBetween ==
    ASSUME NEW a \in Spaced, NEW b \in Spaced, NEW i \in Nat, a + i * Spacing <= b
    PROVE  a + i * Spacing \in Spaced
<1>1. /\ Spacing \in Nat \ {0} /\ MaxTick \in Nat /\ a \in Int /\ b \in Int /\ a % Spacing = 0
      /\ -MaxTick <= a /\ b <= MaxTick /\ Ticks = -MaxTick..MaxTick
  BY IntegerSizes, SpacedType
<1> DEFINE q == a \div Spacing
<1>2. q \in Int /\ a = Spacing * q
  BY <1>1, Division
<1> HIDE DEF q
<1>3. a + i * Spacing = Spacing * (q + i) + 0 /\ q + i \in Int
  <2>1. Spacing \in Int /\ q \in Int /\ i \in Int
    BY <1>1, <1>2
  <2>2. Spacing * (q + i) + 0 = Spacing * q + i * Spacing
    BY <2>1
  <2> QED
    BY <1>2, <2>1, <2>2
<1>4. (Spacing * (q + i) + 0) % Spacing = 0
  <2> DEFINE c == q + i
  <2>1. c \in Int /\ 0 \in Int /\ 0 <= 0 /\ 0 < Spacing
    BY <1>1, <1>3
  <2> HIDE DEF c
  <2>2. (Spacing * c + 0) % Spacing = 0
    BY <1>1, <2>1, DivisionIsUnique
  <2> QED
    BY <2>2 DEF c
<1>5. i * Spacing \in Nat
  BY <1>1
<1>6. a + i * Spacing \in -MaxTick..MaxTick
  BY <1>1, <1>5
<1> QED
  BY <1>1, <1>3, <1>4, <1>6 DEF Spaced

LEMMA FilledUp ==
    ASSUME NEW r \in Pieces, r.lower < r.upper
    PROVE  FillUp(SplitToTickSpacing(r), r)
<1> DEFINE k == (r.upper - r.lower + Spacing - 1) \div Spacing
           s == SplitToTickSpacing(r)
           next(t) == IF t + Spacing > r.upper THEN r.upper ELSE t + Spacing
<1>1. /\ Spacing \in Nat \ {0} /\ r.lower \in Spaced /\ r.upper \in Spaced /\ r.liquidity \in Int
      /\ r.lower \in Int /\ r.upper \in Int /\ r.lower % Spacing = 0 /\ r.upper % Spacing = 0
  BY IntegerSizes, SpacedType DEF Pieces
<1> DEFINE a == r.lower \div Spacing
           b == r.upper \div Spacing
<1>2. a \in Int /\ b \in Int /\ r.lower = Spacing * a /\ r.upper = Spacing * b
  <2>1. \A x \in Int : x % Spacing = 0 => x \div Spacing \in Int /\ x = Spacing * (x \div Spacing)
    BY <1>1, Division
  <2> QED
    BY <1>1, <2>1
<1> HIDE DEF a, b
<1>3. a < b
  <2>1. SUFFICES ASSUME b <= a
                 PROVE  FALSE
    BY <1>2
  <2>2. Spacing * b <= Spacing * a
    BY <1>1, <1>2, <2>1
  <2>3. r.upper <= r.lower
    BY <1>2, <2>2
  <2> QED
    BY <1>1, <2>3
<1>4. k = b - a
  <2> DEFINE d == b - a
             rest == Spacing - 1
  <2>1. r.upper - r.lower + Spacing - 1 = Spacing * d + rest
    BY <1>1, <1>2
  <2>2. d \in Int /\ rest \in Int /\ 0 <= rest /\ rest < Spacing
    BY <1>1, <1>2
  <2> HIDE DEF d, rest
  <2>3. (Spacing * d + rest) \div Spacing = d
    BY <1>1, <2>2, DivisionIsUnique
  <2> QED
    BY <2>1, <2>3 DEF d
<1> HIDE DEF k
<1>5. k \in Nat /\ k >= 1 /\ r.upper = r.lower + k * Spacing
  BY <1>1, <1>2, <1>3, <1>4
<1>6. s = [i \in 1..k |-> [lower |-> r.lower + (i - 1) * Spacing,
                           upper |-> next(r.lower + (i - 1) * Spacing),
                           liquidity |-> r.liquidity]]
  BY DEF SplitToTickSpacing, k
<1>7. ASSUME NEW i \in 1..k
      PROVE  /\ next(r.lower + (i - 1) * Spacing) = r.lower + i * Spacing
             /\ r.lower + (i - 1) * Spacing \in Spaced
             /\ r.lower + i * Spacing \in Spaced
  <2>1. i \in Nat /\ i - 1 \in Nat /\ i <= k
    BY <1>5
  <2>2. r.lower + (i - 1) * Spacing + Spacing = r.lower + i * Spacing
    BY <1>1, <2>1
  <2>3. i * Spacing <= k * Spacing /\ (i - 1) * Spacing <= k * Spacing
    BY <1>1, <1>5, <2>1
  <2>4. i * Spacing \in Nat /\ (i - 1) * Spacing \in Nat /\ k * Spacing \in Nat
    BY <1>1, <1>5, <2>1
  <2>5. r.lower + i * Spacing <= r.upper /\ r.lower + (i - 1) * Spacing <= r.upper
    BY <1>1, <1>5, <2>3, <2>4
  <2>6. next(r.lower + (i - 1) * Spacing) = r.lower + i * Spacing
    BY <1>1, <2>2, <2>4, <2>5
  <2> QED
    BY <1>1, <2>1, <2>5, <2>6, SpacedBetween
<1> HIDE DEF next, s
<1>8. ASSUME NEW i \in 1..k
      PROVE  s[i] \in Pieces /\ s[i].lower = r.lower + (i - 1) * Spacing
             /\ s[i].upper = r.lower + i * Spacing /\ s[i].liquidity = r.liquidity
  <2>1. s[i] = [lower |-> r.lower + (i - 1) * Spacing, upper |-> r.lower + i * Spacing,
                liquidity |-> r.liquidity]
    BY <1>6, <1>7
  <2>2. r.lower + (i - 1) * Spacing \in Spaced /\ r.lower + i * Spacing \in Spaced
    BY <1>7
  <2> QED
    BY <1>1, <2>1, <2>2 DEF Pieces
<1>9. s \in Seq(Pieces) /\ Len(s) = k
  <2>1. \A i \in 1..k : s[i] \in Pieces
    BY <1>8
  <2>2. s \in [1..k -> Pieces]
    BY <1>6, <2>1
  <2> QED
    BY <1>5, <2>2
<1>10. FillUp(s, r)
  BY <1>5, <1>8, <1>9 DEF FillUp
<1> QED
  BY <1>10 DEF s

\* A cut whose ranges fill the same ticks, with the same liquidity.
Refines(fine, ranges) ==
    /\ \A k \in 1..Len(fine) : fine[k].upper = fine[k].lower + Spacing
    /\ \A i \in 1..Len(ranges) : \A t \in Int :
          In(ranges[i], t) => \E k \in 1..Len(fine) : In(fine[k], t)

LEMMA SplitNothing ==
    ASSUME NEW ranges \in Seq(Pieces), Len(ranges) = 0
    PROVE  Split(ranges) = <<>>
<1> DEFINE s == [i \in 1..Len(ranges) |-> SplitToTickSpacing(ranges[i])]
<1>1. s = <<>>
  OBVIOUS
<1>2. Split(ranges) = FlattenSeq(s)
  BY DEF Split
<1> HIDE DEF s
<1> QED
  BY <1>1, <1>2 DEF FlattenSeq

LEMMA Times ==
    ASSUME NEW a \in Int, NEW b \in Int, NEW c \in Nat \ {0}
    PROVE  /\ a * c \in Int /\ b * c \in Int /\ c * a = a * c
           /\ (a + 1) * c = a * c + c
           /\ a <= b => a * c <= b * c
           /\ a < b => a * c < b * c
<1>1. a * c \in Int /\ b * c \in Int /\ c * a = a * c
  OBVIOUS
<1>2. (a + 1) * c = a * c + c
  OBVIOUS
<1>3. a <= b => a * c <= b * c
  OBVIOUS
<1>4. a < b => a * c < b * c
  OBVIOUS
<1> QED
  BY <1>1, <1>2, <1>3, <1>4

\* The tick t of a range lies in one of the pieces that fill it.
LEMMA PieceOf ==
    ASSUME NEW r \in Pieces, NEW pieces, FillUp(pieces, r), NEW t \in Int, In(r, t)
    PROVE  \E j \in 1..Len(pieces) : In(pieces[j], t)
<1> DEFINE n == Len(pieces)
           d == t - r.lower
           q == d \div Spacing
<1>1. /\ Spacing \in Nat \ {0} /\ Spacing \in Int /\ r.lower \in Int /\ r.upper \in Int
      /\ r.lower <= t /\ t < r.upper
  <2>1. Spacing \in Nat \ {0} /\ Spacing \in Int
    BY IntegerSizes
  <2>2. r.lower \in Int /\ r.upper \in Int
    BY SpacedType DEF Pieces
  <2>3. r.lower <= t /\ t < r.upper
    BY DEF In
  <2> QED
    BY <2>1, <2>2, <2>3
<1>2. n \in Nat /\ r.upper = r.lower + n * Spacing
  BY DEF FillUp
<1>3. \A i \in 1..n : /\ pieces[i].lower = r.lower + (i - 1) * Spacing
                      /\ pieces[i].upper = r.lower + i * Spacing
  BY DEF FillUp
<1>4. d \in Int /\ 0 <= d /\ t = r.lower + d
  BY <1>1
<1> HIDE DEF n, d
<1>5. n * Spacing \in Int
  BY <1>1, <1>2
<1>6. d < n * Spacing
  <2> DEFINE w == n * Spacing
  <2>1. w \in Int /\ r.upper = r.lower + w
    BY <1>2, <1>5
  <2> HIDE DEF w
  <2>2. d < w
    BY <1>1, <1>4, <2>1
  <2> QED
    BY <2>2 DEF w
<1>7. q \in Int /\ d % Spacing \in Int /\ d = Spacing * q + (d % Spacing)
      /\ 0 <= d % Spacing /\ d % Spacing < Spacing
  BY <1>1, <1>4, Division
<1> DEFINE z == q * Spacing
<1>8. z \in Int /\ d = z + (d % Spacing) /\ (q + 1) * Spacing = z + Spacing
  BY <1>1, <1>7, Times
<1>9. (q <= -1 => z <= (-1) * Spacing) /\ (n <= q => n * Spacing <= z)
  <2>1. -1 \in Int /\ n \in Int
    BY <1>2
  <2> HIDE DEF q
  <2>2. q <= -1 => q * Spacing <= (-1) * Spacing
    BY <1>1, <1>7, <2>1, Times
  <2>3. n <= q => n * Spacing <= q * Spacing
    BY <1>1, <1>7, <2>1, Times
  <2> QED
    BY <2>2, <2>3
<1>10. (-1) * Spacing = -Spacing
  BY <1>1
<1> DEFINE rest == d % Spacing
           w == n * Spacing
<1>11. rest \in Int /\ 0 <= rest /\ rest < Spacing /\ d = z + rest /\ w \in Int /\ d < w
       /\ (q <= -1 => z <= -Spacing) /\ (n <= q => w <= z)
  BY <1>5, <1>6, <1>7, <1>8, <1>9, <1>10
<1>12. z <= d /\ d < (q + 1) * Spacing
  <2> HIDE DEF z, rest
  <2>1. z <= d /\ d < z + Spacing
    BY <1>1, <1>4, <1>8, <1>11
  <2> QED
    BY <1>8, <2>1
<1>13. 0 <= q /\ q < n
  <2> HIDE DEF z, rest, w, q
  <2>1. ~(q <= -1) /\ ~(n <= q)
    BY <1>1, <1>4, <1>8, <1>11
  <2> QED
    BY <1>2, <1>7, <2>1
<1> HIDE DEF q
<1>14. q + 1 \in 1..n /\ (q + 1) - 1 = q
  BY <1>2, <1>7, <1>13
<1>15. pieces[q + 1].lower = r.lower + z /\ pieces[q + 1].upper = r.lower + (q + 1) * Spacing
  BY <1>3, <1>14
<1> HIDE DEF z
<1>16. pieces[q + 1].lower <= t /\ t < pieces[q + 1].upper
  <2>1. pieces[q + 1].upper = r.lower + (z + Spacing) /\ d < z + Spacing
    BY <1>8, <1>12, <1>15
  <2> QED
    BY <1>1, <1>4, <1>8, <1>12, <1>15, <2>1
<1> QED
  BY <1>14, <1>16 DEF n, In

\* A piece lies in the range it is from.
LEMMA PieceIn ==
    ASSUME NEW r \in Pieces, NEW pieces, FillUp(pieces, r), NEW j \in 1..Len(pieces)
    PROVE  /\ pieces[j].lower \in Int /\ pieces[j].upper \in Int
           /\ r.lower <= pieces[j].lower /\ pieces[j].upper <= r.upper
           /\ pieces[j].upper = pieces[j].lower + Spacing
           /\ pieces[j].lower < pieces[j].upper
           /\ pieces[j].liquidity = r.liquidity
<1> DEFINE n == Len(pieces)
           x == (j - 1) * Spacing
           y == n * Spacing
           z == j * Spacing
<1>1. /\ Spacing \in Nat \ {0} /\ r.lower \in Int /\ r.upper \in Int
  BY IntegerSizes, SpacedType DEF Pieces
<1>2. /\ n \in Nat /\ r.upper = r.lower + y /\ pieces[j].lower = r.lower + x
      /\ pieces[j].upper = r.lower + z /\ pieces[j].liquidity = r.liquidity
  BY DEF FillUp
<1>3. j \in Int /\ j - 1 \in Int /\ n \in Int /\ 0 \in Int /\ 0 <= j - 1 /\ j <= n /\ (j - 1) + 1 = j
  BY <1>2
<1> HIDE DEF n
<1>4. z = x + Spacing /\ x \in Int /\ z \in Int
  BY <1>1, <1>3, Times
<1>5. y \in Int /\ z <= y
  BY <1>1, <1>3, Times
<1>6. 0 <= x
  <2>1. 0 * Spacing <= x
    BY <1>1, <1>3, Times
  <2>2. 0 * Spacing = 0
    BY <1>1
  <2> HIDE DEF x
  <2> QED
    BY <2>1, <2>2
<1> HIDE DEF x, y, z
<1>7. /\ pieces[j].lower \in Int /\ pieces[j].upper \in Int
      /\ r.lower <= pieces[j].lower /\ pieces[j].upper <= r.upper
  BY <1>1, <1>2, <1>4, <1>5, <1>6
<1>8. pieces[j].upper = pieces[j].lower + Spacing /\ pieces[j].lower < pieces[j].upper
  <2>1. pieces[j].upper = r.lower + (x + Spacing) /\ pieces[j].lower = r.lower + x
    BY <1>2, <1>4
  <2> QED
    BY <1>1, <1>4, <2>1
<1> QED
  BY <1>2, <1>7, <1>8

\* The pieces of all ranges of a cut are one, too.  (SplitToTickSpacingRanges)
LEMMA Splits ==
    ASSUME NEW liq, NEW ranges, IsCut(ranges, liq)
    PROVE  IsCut(Split(ranges), liq) /\ Refines(Split(ranges), ranges)
<1> DEFINE n == Len(ranges)
           s == [i \in 1..n |-> SplitToTickSpacing(ranges[i])]
           flat == Split(ranges)
<1>1. /\ n \in Nat /\ ranges \in Seq(Pieces)
      /\ \A i \in 1..n : /\ ranges[i] \in Pieces /\ ranges[i].lower < ranges[i].upper
                         /\ \A t \in Int : In(ranges[i], t) =>
                               ranges[i].liquidity = Active(liq, t)
      /\ \A i \in 1..n - 1 : ranges[i].upper = ranges[i + 1].lower
  BY DEF IsCut
<1>2. CASE n = 0
  <2>1. flat = <<>>
    BY <1>1, <1>2, SplitNothing
  <2>2. flat \in Seq(Pieces) /\ Len(flat) = 0
    BY <2>1
  <2>3. IsCut(flat, liq)
    BY <2>2 DEF IsCut
  <2>4. Refines(flat, ranges)
    BY <1>2, <2>2 DEF Refines
  <2> QED
    BY <2>3, <2>4
<1>3. CASE n # 0
  <2>1. n \in Nat \ {0}
    BY <1>1, <1>3
  <2>2. \A i \in 1..n : FillUp(s[i], ranges[i])
    <3>1. \A i \in 1..n : s[i] = SplitToTickSpacing(ranges[i])
      OBVIOUS
    <3> HIDE DEF s
    <3> QED
      BY <1>1, <3>1, FilledUp
  <2>3. s \in [1..n -> Seq(Pieces)]
    <3>1. \A i \in 1..n : s[i] \in Seq(Pieces)
      <4> HIDE DEF s
      <4> QED
        BY <2>2 DEF FillUp
    <3> QED
      BY <3>1
  <2>4. flat = FlattenSeq(s)
    BY DEF Split
  <2> HIDE DEF s, flat
  <2>5. flat \in Seq(Pieces) /\ \E at : Places(s, n, flat, at)
    BY <2>1, <2>3, <2>4, Flattened
  <2>6. PICK at : Places(s, n, flat, at)
    BY <2>5
  <2>7. \A k \in 1..Len(flat) : \E i : IsAt(s, n, at, k, i)
    BY <2>1, <2>3, <2>6, PlaceOf
  <2>8. \A i, j \in 1..n + 1 : i <= j => at[i] <= at[j]
    BY <2>1, <2>3, <2>6, PlacesGrow
  <2>9. /\ \A i \in 1..n + 1 : at[i] \in Nat
        /\ \A i \in 1..n : at[i + 1] = at[i] + Len(s[i])
        /\ Len(flat) = at[n + 1]
        /\ \A i \in 1..n : \A j \in 1..Len(s[i]) : flat[at[i] + j] = s[i][j]
    BY <2>6 DEF Places
  <2> HIDE DEF n
  <2>10. ASSUME NEW i \in 1..n, NEW j \in 1..Len(s[i])
         PROVE  /\ s[i][j].lower \in Int /\ s[i][j].upper \in Int
                /\ ranges[i].lower <= s[i][j].lower /\ s[i][j].upper <= ranges[i].upper
                /\ s[i][j].upper = s[i][j].lower + Spacing
                /\ s[i][j].lower < s[i][j].upper
                /\ s[i][j].liquidity = ranges[i].liquidity
                /\ ranges[i].lower \in Int /\ ranges[i].upper \in Int
    <3>1. ranges[i] \in Pieces /\ FillUp(s[i], ranges[i])
      BY <1>1, <2>2
    <3>2. ranges[i].lower \in Int /\ ranges[i].upper \in Int
      BY <3>1, SpacedType DEF Pieces
    <3> QED
      BY <3>1, <3>2, PieceIn
  <2>11. \A i \in 1..n : /\ Len(s[i]) \in Nat /\ 1 <= Len(s[i])
                         /\ s[i][1].lower = ranges[i].lower
                         /\ s[i][Len(s[i])].upper = ranges[i].upper
    <3> TAKE i \in 1..n
    <3>1. s[i] \in Seq(Pieces) /\ Len(s[i]) \in Nat
      BY <2>3
    <3>2. /\ 1 <= Len(s[i])
          /\ ranges[i].upper = ranges[i].lower + Len(s[i]) * Spacing
          /\ \A j \in 1..Len(s[i]) : /\ s[i][j].lower = ranges[i].lower + (j - 1) * Spacing
                                     /\ s[i][j].upper = ranges[i].lower + j * Spacing
      BY <2>2, <3>1 DEF FillUp
    <3>3. 1 \in 1..Len(s[i]) /\ Len(s[i]) \in 1..Len(s[i])
      BY <3>1, <3>2
    <3>4. s[i][1].lower = ranges[i].lower + 0 * Spacing
      BY <3>2, <3>3
    <3>5. 0 * Spacing = 0 /\ ranges[i].lower \in Int
      <4>1. Spacing \in Int /\ ranges[i] \in Pieces
        BY <1>1, IntegerSizes
      <4>2. 0 * Spacing = 0
        BY <4>1
      <4>3. ranges[i].lower \in Int
        BY <4>1, SpacedType DEF Pieces
      <4> QED
        BY <4>2, <4>3
    <3> QED
      BY <3>1, <3>2, <3>3, <3>4, <3>5
  <2>12. ASSUME NEW k \in 1..Len(flat)
         PROVE  \E i \in 1..n : \E j \in 1..Len(s[i]) : k = at[i] + j /\ flat[k] = s[i][j]
    <3>1. PICK i \in 1..n : \E j \in 1..Len(s[i]) : k = at[i] + j
      BY <2>7 DEF IsAt
    <3> QED
      BY <2>9, <3>1
  <2>13. ASSUME NEW k \in 1..Len(flat)
         PROVE  /\ flat[k].lower < flat[k].upper
                /\ \A t \in Int : In(flat[k], t) => flat[k].liquidity = Active(liq, t)
                /\ flat[k].upper = flat[k].lower + Spacing
    <3>0. PICK i \in 1..n : \E j \in 1..Len(s[i]) : k = at[i] + j /\ flat[k] = s[i][j]
      BY <2>12
    <3>1. PICK j \in 1..Len(s[i]) : k = at[i] + j /\ flat[k] = s[i][j]
      BY <3>0
    <3>2. ASSUME NEW t \in Int, In(s[i][j], t)
          PROVE  In(ranges[i], t)
      BY <2>10, <3>2 DEF In
    <3>3. /\ s[i][j].lower < s[i][j].upper /\ s[i][j].upper = s[i][j].lower + Spacing
          /\ s[i][j].liquidity = ranges[i].liquidity
      BY <2>10
    <3>4. ASSUME NEW t \in Int, In(flat[k], t)
          PROVE  flat[k].liquidity = Active(liq, t)
      <4>1. In(ranges[i], t)
        BY <3>1, <3>2, <3>4
      <4>2. ranges[i].liquidity = Active(liq, t)
        BY <1>1, <4>1
      <4> QED
        BY <3>1, <3>3, <4>2
    <3> QED
      BY <3>1, <3>3, <3>4
  <2>14. ASSUME NEW k \in 1..Len(flat) - 1
         PROVE  flat[k].upper = flat[k + 1].lower
    <3>1. k \in 1..Len(flat) /\ k + 1 \in 1..Len(flat)
      BY <2>5
    <3>0. PICK i \in 1..n : \E j \in 1..Len(s[i]) : k = at[i] + j /\ flat[k] = s[i][j]
      BY <2>12, <3>1
    <3>2. PICK j \in 1..Len(s[i]) : k = at[i] + j /\ flat[k] = s[i][j]
      BY <3>0
    <3>3. at[i] \in Nat /\ j \in Nat /\ 1 <= j /\ j <= Len(s[i]) /\ Len(s[i]) \in Nat
      <4>1. i \in 1..n + 1
        BY <2>1
      <4>2. at[i] \in Nat
        BY <2>9, <4>1
      <4>3. Len(s[i]) \in Nat
        BY <2>11
      <4> QED
        BY <4>2, <4>3
    <3>4. CASE j < Len(s[i])
      <4>1. j + 1 \in 1..Len(s[i]) /\ k + 1 = at[i] + (j + 1)
        <5>1. k = at[i] + j
          BY <3>2
        <5> QED
          BY SMTT(30), <3>3, <3>4, <5>1
      <4>2. flat[k + 1] = s[i][j + 1]
        BY <2>9, <4>1
      <4>3. FillUp(s[i], ranges[i]) /\ (j + 1) - 1 = j
        BY <2>2, <3>3
      <4>4. s[i][j].upper = ranges[i].lower + j * Spacing
            /\ s[i][j + 1].lower = ranges[i].lower + j * Spacing
        BY <4>1, <4>3 DEF FillUp
      <4> QED
        BY <3>2, <4>2, <4>4
    <3>5. CASE j = Len(s[i])
      <4>1. k = at[i + 1]
        BY <2>9, <3>2, <3>5
      <4>2. i # n
        <5>1. k < at[n + 1]
          BY <2>5, <2>9, <3>1
        <5> QED
          BY <4>1, <5>1, <2>5, <2>9
      <4>3. i \in 1..n - 1 /\ i + 1 \in 1..n
        BY <2>1, <4>2
      <4>4. 1 \in 1..Len(s[i + 1]) /\ k + 1 = at[i + 1] + 1
        BY <2>11, <4>1, <4>3
      <4>5. flat[k + 1] = s[i + 1][1]
        BY <2>9, <4>3, <4>4
      <4>6. flat[k + 1].lower = ranges[i + 1].lower /\ flat[k].upper = ranges[i].upper
        BY <2>11, <3>2, <3>5, <4>3, <4>5
      <4> QED
        BY <1>1, <4>3, <4>6
    <3> QED
      BY <3>3, <3>4, <3>5
  <2>15. IsCut(flat, liq)
    BY <2>5, <2>13, <2>14 DEF IsCut
  <2>16. ASSUME NEW i \in 1..n, NEW t \in Int, In(ranges[i], t)
         PROVE  \E k \in 1..Len(flat) : In(flat[k], t)
    <3>1. PICK j \in 1..Len(s[i]) : In(s[i][j], t)
      BY <1>1, <2>2, <2>16, PieceOf
    <3>2. flat[at[i] + j] = s[i][j]
      BY <2>9
    <3>3. at[i] + j \in 1..Len(flat)
      <4>1. i + 1 \in 1..n + 1 /\ n + 1 \in 1..n + 1 /\ i + 1 <= n + 1 /\ i \in 1..n + 1
        BY <2>1
      <4>2. at[i + 1] <= at[n + 1] /\ at[i + 1] = at[i] + Len(s[i])
        BY <2>8, <2>9, <4>1
      <4>3. at[i] \in Nat /\ at[n + 1] \in Nat /\ Len(s[i]) \in Nat
        BY <2>9, <2>11, <4>1
      <4> QED
        BY <2>9, <4>2, <4>3
    <3> QED
      BY <3>1, <3>2, <3>3
  <2>17. Refines(flat, ranges)
    BY <2>13, <2>16 DEF Refines, n
  <2> QED
    BY <2>15, <2>17 DEF flat
<1> QED
  BY <1>2, <1>3

-----------------------------------------------------------------------------
(* The answers. *)

LEMMA Int32Type ==
    ASSUME NEW x \in Int
    PROVE  Int32(x) \in Int
<1>1. PICK half \in Nat : IntSize \div 2 = half
  BY IntegerSizes
<1>2. IntSize \in Nat \ {0} /\ x + half \in Int
  BY IntegerSizes
<1>3. (x + half) % IntSize \in Int
  BY <1>2, Division
<1> QED
  BY <1>1, <1>3 DEF Int32

LEMMA WindowType ==
    ASSUME NEW current \in Ticks, NEW offset \in Int
    PROVE  /\ CalculateTickRange(current, offset).from \in Int
           /\ CalculateTickRange(current, offset).to \in Int
<1>1. Spacing \in Nat \ {0} /\ current \in Int
  BY IntegerSizes
<1>2. CenterTick(current) \in Int
  <2>1. -current \in Int
    BY <1>1
  <2>2. current \div Spacing \in Int /\ (-current) \div Spacing \in Int
    BY <1>1, <2>1, Division
  <2>3. Quotient(current, Spacing) \in Int
    BY <2>2 DEF Quotient
  <2> QED
    BY <1>1, <2>3 DEF CenterTick
<1>3. offset * Spacing \in Int /\ offset + 1 \in Int
  BY <1>1
<1>4. Int32(offset * Spacing) \in Int /\ Int32(offset + 1) \in Int
  BY <1>3, Int32Type
<1>5. Int32(offset + 1) * Spacing \in Int
  BY <1>1, <1>4
<1>6. Int32(Int32(offset + 1) * Spacing) \in Int
  BY <1>5, Int32Type
<1>7. /\ CenterTick(current) - Int32(offset * Spacing) \in Int
      /\ CenterTick(current) + Int32(Int32(offset + 1) * Spacing) \in Int
  BY <1>2, <1>4, <1>6
<1>8. /\ Int32(CenterTick(current) - Int32(offset * Spacing)) \in Int
      /\ Int32(CenterTick(current) + Int32(Int32(offset + 1) * Spacing)) \in Int
  BY <1>7, Int32Type
<1> QED
  BY <1>8 DEF CalculateTickRange

\* What a filter leaves holds the window's ticks that have liquidity.
LEMMA KeepsCovered ==
    ASSUME NEW liq, NEW ranges, IsCut(ranges, liq), NEW kept, NEW window,
           window.from \in Int, window.to \in Int, Keeps(kept, ranges, window),
           Covers(ranges, liq, window.from, window.to)
    PROVE  Covers(kept, liq, window.from, window.to)
<1> SUFFICES ASSUME NEW t \in Int, window.from <= t, t < window.to, Active(liq, t) > 0
             PROVE  \E i \in 1..Len(kept) : In(kept[i], t)
  BY DEF Covers
<1>1. PICK j \in 1..Len(ranges) : In(ranges[j], t)
  BY DEF Covers
<1>2. ranges[j].lower \in Int /\ ranges[j].upper \in Int
  <2>1. ranges \in Seq(Pieces)
    BY DEF IsCut
  <2>2. ranges[j] \in Pieces
    BY <2>1
  <2> QED
    BY <2>2, SpacedType DEF Pieces
<1>3. ranges[j].upper > window.from /\ ranges[j].lower < window.to
  BY <1>1, <1>2 DEF In
<1>4. PICK i \in 1..Len(kept) : kept[i] = ranges[j]
  BY <1>3 DEF Keeps
<1> QED
  BY <1>1, <1>4

\* What the ranges of an answer are: a cut that holds the window's liquidity, for
\* type 3 of ranges that are one spacing wide and meet the window.
Presents(ranges, liq, type, window) ==
    /\ IsCut(ranges, liq)
    /\ Covers(ranges, liq, window.from, window.to)
    /\ type = "3" =>
          \A i \in 1..Len(ranges) :
             /\ ranges[i].upper = ranges[i].lower + Spacing
             /\ ranges[i].upper > window.from /\ ranges[i].lower < window.to

LEMMA RangesPresent ==
    ASSUME NEW liq, IsLiquidity(liq), NEW current \in Ticks, NEW r \in Records,
           IsSnapshot(r, current, liq), NEW type \in {"2", "3"}, NEW offset \in Int
    PROVE  Presents(Ranges(r, type, offset), liq, type, CalculateTickRange(current, Int32(offset)))
<1> DEFINE window == CalculateTickRange(current, Int32(offset))
           built == BuildRanges(r.states)
           coarse == Filter(built, window)
           fine == Split(coarse)
           shown == Filter(fine, window)
<1>1. window.from \in Int /\ window.to \in Int
  BY Int32Type, WindowType
<1>2. r.tick = current /\ HasTicks(r.states, liq)
  BY DEF IsSnapshot, HasTicks
<1>3. Ranges(r, type, offset) = IF type = "3" THEN shown ELSE coarse
  BY <1>2 DEF Ranges
<1> HIDE DEF window
<1>4. IsCut(built, liq) /\ Covers(built, liq, window.from, window.to)
  <2>1. PICK T \in SUBSET Spaced : r.states \in [T -> Int]
    BY DEF Records
  <2> QED
    BY <1>2, <2>1, Built
<1> HIDE DEF built
<1>5. IsCut(coarse, liq) /\ Keeps(coarse, built, window)
  BY <1>1, <1>4, Filtered
<1>6. Covers(coarse, liq, window.from, window.to)
  BY <1>1, <1>4, <1>5, KeepsCovered
<1> HIDE DEF coarse
<1>7. IsCut(fine, liq) /\ Refines(fine, coarse)
  BY <1>5, Splits
<1>8. Covers(fine, liq, window.from, window.to)
  BY <1>6, <1>7 DEF Covers, Refines
<1> HIDE DEF fine
<1>9. IsCut(shown, liq) /\ Keeps(shown, fine, window)
  BY <1>1, <1>7, Filtered
<1>10. Covers(shown, liq, window.from, window.to)
  BY <1>1, <1>7, <1>8, <1>9, KeepsCovered
<1> HIDE DEF shown
<1>11. \A i \in 1..Len(shown) : /\ shown[i].upper = shown[i].lower + Spacing
                                /\ shown[i].upper > window.from /\ shown[i].lower < window.to
  <2> TAKE i \in 1..Len(shown)
  <2>1. PICK j \in 1..Len(fine) : shown[i] = fine[j] /\ fine[j].upper > window.from
                                     /\ fine[j].lower < window.to
    BY <1>9 DEF Keeps
  <2>2. fine[j].upper = fine[j].lower + Spacing
    BY <1>7 DEF Refines
  <2> QED
    BY <2>1, <2>2
<1>12. type = "3" => Presents(shown, liq, type, window)
  BY <1>9, <1>10, <1>11 DEF Presents
<1>13. type # "3" => Presents(coarse, liq, type, window)
  BY <1>5, <1>6 DEF Presents
<1> QED
  BY <1>3, <1>12, <1>13 DEF window

\* The answer is of these ranges, each with its amounts.
Shows(ranges) ==
    /\ Presents(ranges, liquidity, answer.type, Window)
    /\ answer.ranges = [i \in 1..Len(ranges) |-> CalcRangeAmount(ranges[i])]
    /\ DOMAIN answer.ranges = 1..Len(ranges) /\ Len(answer.ranges) = Len(ranges)
    /\ \A i \in 1..Len(ranges) : answer.ranges[i] = CalcRangeAmount(ranges[i])

LEMMA ArrangedType ==
    ASSUME NEW p \in Params, FromHttpRequest(p)
    PROVE  /\ Arrange(p).type \in Types /\ Arrange(p).format \in Formats
           /\ Arrange(p).offset \in 1..IntSize - 1
<1>1. p.offset \in Offsets
  BY DEF Params, FromHttpRequest
<1>2. p.offset \in 0..IntSize - 1 /\ DefaultOffset \in 1..IntSize - 1 /\ IntSize \in Nat
  BY <1>1, APIAssumption, IntegerSizes
<1>3. Arrange(p).offset \in 1..IntSize - 1
  BY <1>2 DEF Arrange
<1>4. Arrange(p).type \in Types /\ Arrange(p).format \in Formats
  BY DEF Arrange, Types, Formats
<1> QED
  BY <1>3, <1>4

LEMMA AnswerShows ==
    ASSUME IInv, HasRanges
    PROVE  answer.offset \in 1..IntSize - 1 /\ \E ranges : Shows(ranges)
<1>1. PICK p \in Params : /\ FromHttpRequest(p) /\ record.stored
                          /\ answer = Answer(record, Arrange(p))
  BY DEF IInv, AnswerInv, HasRanges, NoAnswer, BadRequest, Failure
<1> DEFINE a == Arrange(p)
           ranges == Ranges(record, a.type, a.offset)
<1>2. a.type \in Types /\ a.offset \in 1..IntSize - 1
  BY <1>1, ArrangedType
<1>3. a.offset \in Int
  BY <1>2
<1> HIDE DEF a
<1>4. /\ answer.type = a.type /\ answer.offset = a.offset
      /\ answer.ranges = IF a.type = "1" THEN <<>> ELSE CalcRangeAmountArray(ranges)
  BY <1>1 DEF Answer, a
<1>5. a.type \in {"2", "3"}
  BY <1>4 DEF HasRanges
<1>6. /\ IsLiquidity(liquidity) /\ tick \in Ticks /\ record \in Records
      /\ IsSnapshot(record, tick, liquidity)
  BY <1>1, LiquidityType DEF IInv, StoreInv
<1>7. Presents(ranges, liquidity, a.type, CalculateTickRange(tick, Int32(a.offset)))
  BY <1>3, <1>5, <1>6, RangesPresent
<1> HIDE DEF ranges
<1>8. Presents(ranges, liquidity, answer.type, Window)
  BY <1>4, <1>7 DEF Window
<1>9. Len(ranges) \in Nat
  BY <1>7 DEF Presents, IsCut
<1>10. answer.ranges = [i \in 1..Len(ranges) |-> CalcRangeAmount(ranges[i])]
  BY <1>4, <1>5 DEF CalcRangeAmountArray
<1>11. Shows(ranges)
  BY <1>8, <1>9, <1>10 DEF Shows
<1> QED
  BY <1>2, <1>4, <1>11

\* A range of the answer and the one it is made of.
LEMMA ShownRange ==
    ASSUME NEW ranges, Shows(ranges), NEW i \in 1..Len(ranges)
    PROVE  /\ ranges[i] \in Pieces
           /\ ranges[i].lower \in Int /\ ranges[i].upper \in Int /\ ranges[i].liquidity \in Int
           /\ ranges[i].lower < ranges[i].upper
           /\ answer.ranges[i] = CalcRangeAmount(ranges[i])
           /\ answer.ranges[i].lower = ranges[i].lower
           /\ answer.ranges[i].upper = ranges[i].upper
           /\ answer.ranges[i].liquidity = ranges[i].liquidity
           /\ \A t : In(answer.ranges[i], t) <=> In(ranges[i], t)
<1>1. ranges[i] \in Pieces /\ ranges[i].lower < ranges[i].upper
  BY DEF Shows, Presents, IsCut
<1>2. ranges[i].lower \in Int /\ ranges[i].upper \in Int /\ ranges[i].liquidity \in Int
  BY <1>1, SpacedType DEF Pieces
<1>3. answer.ranges[i] = CalcRangeAmount(ranges[i])
  BY DEF Shows
<1>4. /\ answer.ranges[i].lower = ranges[i].lower
      /\ answer.ranges[i].upper = ranges[i].upper
      /\ answer.ranges[i].liquidity = ranges[i].liquidity
  BY <1>3 DEF CalcRangeAmount
<1> QED
  BY <1>1, <1>2, <1>3, <1>4 DEF In

LEMMA AmountType ==
    ASSUME NEW r \in Pieces
    PROVE  /\ CalcRangeAmount(r).amount0 \in Amount(r) /\ CalcRangeAmount(r).amount1 \in Amount(r)
           /\ Amount(CalcRangeAmount(r)) = Amount(r)
<1>1. r.liquidity \in Int /\ -r.liquidity \in Int
  BY DEF Pieces
<1>2. /\ Coefficients(r, r.liquidity, -r.liquidity) \in Amount(r)
      /\ Coefficients(r, -r.liquidity, r.liquidity) \in Amount(r)
  BY <1>1 DEF Coefficients, Amount
<1> QED
  BY <1>2 DEF CalcRangeAmount, Amount

\* The record and the answers keep their types in every state: ticks are decoded
\* with their sign, answers have the known types and formats.  (ParseLog, arrange)
THEOREM TypeCorrect == Spec => []TypeOK
<1>1. IInv => TypeOK
  <2> SUFFICES ASSUME IInv
               PROVE  TypeOK
    OBVIOUS
  <2>1. /\ liquidity \in [Positions -> 0..MaxLiquidity] /\ tick \in Ticks
        /\ record.stored \in BOOLEAN /\ record.tick \in Ticks
    BY DEF IInv, StoreInv, Records
  <2>2. DOMAIN record.states \subseteq Ticks /\ \A t \in DOMAIN record.states : record.states[t] \in Int
    <3>1. PICK T \in SUBSET Spaced : record.states \in [T -> Int]
      BY DEF IInv, StoreInv, Records
    <3> QED
      BY <3>1, SpacedType
  <2>3. CASE answer \in {NoAnswer, BadRequest, Failure}
    <3>1. /\ answer.status \in {0, 200, 400, 500} /\ answer.type \in Types
          /\ answer.format \in Formats /\ answer.offset \in Nat /\ answer.ranges = <<>>
      BY <2>3 DEF NoAnswer, BadRequest, Failure, Types, Formats
    <3>2. Len(answer.ranges) = 0
      BY <3>1
    <3> QED
      BY <2>1, <2>2, <3>1, <3>2 DEF TypeOK
  <2>4. CASE \E p \in Params : /\ FromHttpRequest(p) /\ record.stored
                               /\ answer = Answer(record, Arrange(p))
    <3>1. PICK p \in Params : /\ FromHttpRequest(p) /\ record.stored
                              /\ answer = Answer(record, Arrange(p))
      BY <2>4
    <3>2. /\ answer.status = 200 /\ answer.type = Arrange(p).type
          /\ answer.format = Arrange(p).format /\ answer.offset = Arrange(p).offset
          /\ answer.type = "1" => answer.ranges = <<>>
      BY <3>1 DEF Answer
    <3>3. answer.type \in Types /\ answer.format \in Formats /\ answer.offset \in Nat
      <4>1. Arrange(p).offset \in Nat
        BY <3>1, ArrangedType, IntegerSizes
      <4> QED
        BY <3>1, <3>2, <4>1, ArrangedType
    <3>4. \A i \in 1..Len(answer.ranges) :
             LET r == answer.ranges[i]
             IN  r.liquidity \in Int /\ r.amount0 \in Amount(r) /\ r.amount1 \in Amount(r)
      <4>1. CASE answer.type = "1"
        <5>1. Len(answer.ranges) = 0
          BY <3>2, <4>1
        <5> QED
          BY <5>1
      <4>2. CASE answer.type # "1"
        <5>1. HasRanges
          BY <3>2, <3>3, <4>2 DEF HasRanges, Types
        <5>2. PICK ranges : Shows(ranges)
          BY <5>1, AnswerShows
        <5>3. Len(answer.ranges) = Len(ranges)
          BY <5>2 DEF Shows
        <5> TAKE i \in 1..Len(answer.ranges)
        <5>4. /\ ranges[i] \in Pieces /\ answer.ranges[i] = CalcRangeAmount(ranges[i])
              /\ answer.ranges[i].liquidity \in Int
          BY <5>2, <5>3, ShownRange
        <5> QED
          BY <5>4, AmountType
      <4> QED
        BY <4>1, <4>2
    <3> QED
      BY <2>1, <2>2, <3>2, <3>3, <3>4 DEF TypeOK
  <2> QED
    BY <2>3, <2>4 DEF IInv, AnswerInv
<1> QED
  BY Invariance, <1>1, PTL

\* The liquidity of every range of every answer is what the chain's positions
\* add up to at each tick of it.  (BuildRangeLiquidityArray, reactTick)
THEOREM AnswersAreLiquidity == Spec => []AnswerIsLiquidity
<1>1. IInv => AnswerIsLiquidity
  <2> SUFFICES ASSUME IInv, HasRanges, NEW i \in 1..Len(answer.ranges), NEW t \in Ticks,
                      In(answer.ranges[i], t)
               PROVE  answer.ranges[i].liquidity = LiquidityAt(t)
    BY DEF AnswerIsLiquidity
  <2>1. PICK ranges : Shows(ranges)
    BY AnswerShows
  <2>2. i \in 1..Len(ranges) /\ t \in Int
    BY <2>1, IntegerSizes DEF Shows
  <2>3. In(ranges[i], t) /\ answer.ranges[i].liquidity = ranges[i].liquidity
    BY <2>1, <2>2, ShownRange
  <2>4. ranges[i].liquidity = Active(liquidity, t)
    BY <2>1, <2>2, <2>3 DEF Shows, Presents, IsCut
  <2> QED
    BY <2>3, <2>4 DEF Active, LiquidityAt
<1> QED
  BY Invariance, <1>1, PTL

\* The ranges of an answer leave no hole, and no tick of the window that has
\* liquidity out.  (FilterRangeLiquidityArray)
THEOREM AnswersCoverWindow == Spec => []AnswerCoversWindow
<1>1. IInv => AnswerCoversWindow
  <2> SUFFICES ASSUME IInv, HasRanges
               PROVE  /\ \A i \in 1..Len(answer.ranges) - 1 :
                            answer.ranges[i].upper = answer.ranges[i + 1].lower
                      /\ \A t \in Ticks :
                            Window.from <= t /\ t < Window.to /\ LiquidityAt(t) > 0 =>
                               \E i \in 1..Len(answer.ranges) : In(answer.ranges[i], t)
    BY DEF AnswerCoversWindow
  <2>1. PICK ranges : Shows(ranges)
    BY AnswerShows
  <2>2. Len(answer.ranges) = Len(ranges) /\ Len(ranges) \in Nat
    BY <2>1 DEF Shows, Presents, IsCut
  <2>3. ASSUME NEW i \in 1..Len(ranges) - 1
        PROVE  answer.ranges[i].upper = answer.ranges[i + 1].lower
    <3>1. i \in 1..Len(ranges) /\ i + 1 \in 1..Len(ranges)
      BY <2>2
    <3>2. ranges[i].upper = ranges[i + 1].lower
      BY <2>1 DEF Shows, Presents, IsCut
    <3>3. answer.ranges[i].upper = ranges[i].upper /\ answer.ranges[i + 1].lower = ranges[i + 1].lower
      BY <2>1, <3>1, ShownRange
    <3> QED
      BY <3>2, <3>3
  <2>4. ASSUME NEW t \in Ticks, Window.from <= t, t < Window.to, LiquidityAt(t) > 0
        PROVE  \E i \in 1..Len(ranges) : In(answer.ranges[i], t)
    <3>1. t \in Int /\ Active(liquidity, t) > 0
      BY <2>4, IntegerSizes DEF Active, LiquidityAt
    <3>2. PICK i \in 1..Len(ranges) : In(ranges[i], t)
      BY <2>1, <2>4, <3>1 DEF Shows, Presents, Covers
    <3>3. In(answer.ranges[i], t)
      BY <2>1, <3>2, ShownRange
    <3> QED
      BY <3>3
  <2> QED
    BY <2>2, <2>3, <2>4
<1> QED
  BY Invariance, <1>1, PTL

-----------------------------------------------------------------------------
(* Windows that fit into 32 bits. *)

\* The window of an offset that fits: so many spacings on both sides of the
\* multiple of the spacing next to the tick on the way to zero.
LEMMA WindowFits ==
    ASSUME NEW current \in Ticks, NEW offset \in Nat,
           2 * (MaxTick + (offset + 1) * Spacing) < IntSize
    PROVE  \E c \in Int :
              /\ CalculateTickRange(current, Int32(offset)).from = (c - offset) * Spacing
              /\ CalculateTickRange(current, Int32(offset)).to = (c + offset + 1) * Spacing
              /\ (c - 1) * Spacing < current /\ current < (c + 1) * Spacing
<1>1. /\ Spacing \in Nat \ {0} /\ Spacing \in Int /\ MaxTick \in Nat /\ current \in Int
      /\ -MaxTick <= current /\ current <= MaxTick
  BY IntegerSizes
<1>2. PICK half \in Nat : IntSize \div 2 = half /\ IntSize = 2 * half
  BY IntegerSizes
<1> DEFINE c == Quotient(current, Spacing)
           x == c * Spacing
           y == offset * Spacing
           z == (offset + 1) * Spacing
<1>3. y \in Int /\ z \in Int /\ z = y + Spacing /\ 0 <= y /\ offset <= y
  <2>1. y \in Int /\ z = y + Spacing
    BY <1>1, Times
  <2>2. 1 <= Spacing
    BY <1>1
  <2>3. y = Spacing * offset
    BY <1>1
  <2>4. 1 * offset <= Spacing * offset
    BY <1>1, <2>2
  <2> HIDE DEF y, z
  <2> QED
    BY <1>1, <2>1, <2>3, <2>4
<1>4. c \in Int /\ x \in Int /\ x - Spacing < current /\ current < x + Spacing
      /\ -MaxTick <= x /\ x <= MaxTick
  <2>1. CASE current >= 0
    <3>1. c = current \div Spacing
      BY <2>1 DEF Quotient
    <3>2. c \in Int /\ current % Spacing \in Int /\ current = Spacing * c + (current % Spacing)
          /\ 0 <= current % Spacing /\ current % Spacing < Spacing
      BY <1>1, <3>1, Division
    <3> HIDE DEF c
    <3>3. x \in Int /\ x = Spacing * c
      BY <1>1, <3>2, Times
    <3>4. 0 <= c
      BY <1>1, <2>1, <3>1
    <3>5. 0 * Spacing <= x /\ 0 * Spacing = 0
      <4>1. 0 \in Int
        OBVIOUS
      <4> QED
        BY <1>1, <3>2, <3>4, <4>1, Times
    <3> DEFINE rest == current % Spacing
    <3>6. rest \in Int /\ 0 <= rest /\ rest < Spacing /\ current = x + rest
      BY <3>2, <3>3
    <3> HIDE DEF x, rest
    <3> QED
      BY <1>1, <3>2, <3>3, <3>5, <3>6
  <2>2. CASE ~(current >= 0)
    <3> DEFINE b == (-current) \div Spacing
               rest == (-current) % Spacing
    <3>1. c = -b
      BY <2>2 DEF Quotient
    <3>2. -current \in Int /\ 0 <= -current
      BY <1>1, <2>2
    <3>3. b \in Int /\ rest \in Int /\ -current = Spacing * b + rest
          /\ 0 <= rest /\ rest < Spacing
      BY <1>1, <3>2, Division
    <3>4. 0 <= b
      BY <1>1, <3>2
    <3> HIDE DEF c, b, rest
    <3>5. 0 * Spacing <= b * Spacing /\ 0 * Spacing = 0 /\ b * Spacing \in Int
          /\ Spacing * b = b * Spacing
      <4>1. 0 \in Int
        OBVIOUS
      <4> QED
        BY <1>1, <3>3, <3>4, <4>1, Times
    <3>6. x = -(b * Spacing)
      BY <1>1, <3>1, <3>3
    <3> DEFINE w == b * Spacing
    <3>7. w \in Int /\ 0 <= w /\ -current = w + rest /\ x = -w
      BY <3>3, <3>5, <3>6
    <3>8. c \in Int
      BY <3>1, <3>3
    <3> HIDE DEF x, w
    <3> QED
      BY <1>1, <2>2, <3>3, <3>7, <3>8
  <2> QED
    BY <2>1, <2>2
<1> HIDE DEF c
<1>5. MaxTick + z < half
  <2> HIDE DEF z
  <2>1. 2 * (MaxTick + z) < 2 * half
    BY <1>2 DEF z
  <2> QED
    BY <1>1, <1>2, <1>3, <2>1
<1>6. Int32(offset) = offset
  <2>1. offset \in Int /\ -(IntSize \div 2) <= offset /\ offset < IntSize \div 2
    <3> HIDE DEF y, z
    <3> QED
      BY <1>1, <1>2, <1>3, <1>5
  <2> QED
    BY <2>1, SmallInt32
<1>7. Int32(offset + 1) = offset + 1
  <2>1. offset + 1 \in Int /\ -(IntSize \div 2) <= offset + 1 /\ offset + 1 < IntSize \div 2
    <3> HIDE DEF y, z
    <3> QED
      BY <1>1, <1>2, <1>3, <1>5
  <2> QED
    BY <2>1, SmallInt32
<1>8. Int32(y) = y /\ Int32(z) = z
  <2> HIDE DEF y, z
  <2>1. /\ -(IntSize \div 2) <= y /\ y < IntSize \div 2
        /\ -(IntSize \div 2) <= z /\ z < IntSize \div 2
    BY <1>1, <1>2, <1>3, <1>5
  <2> QED
    BY <1>3, <2>1, SmallInt32
<1>9. Int32(x - y) = x - y /\ Int32(x + z) = x + z
  <2> HIDE DEF x, y, z
  <2>1. /\ x - y \in Int /\ -(IntSize \div 2) <= x - y /\ x - y < IntSize \div 2
        /\ x + z \in Int /\ -(IntSize \div 2) <= x + z /\ x + z < IntSize \div 2
    BY <1>1, <1>2, <1>3, <1>4, <1>5
  <2> QED
    BY <2>1, SmallInt32
<1>10. CenterTick(current) = x
  BY DEF CenterTick, c
<1>11. /\ CalculateTickRange(current, Int32(offset)).from = x - y
       /\ CalculateTickRange(current, Int32(offset)).to = x + z
  BY <1>6, <1>7, <1>8, <1>9, <1>10 DEF CalculateTickRange
<1>12. x - y = (c - offset) * Spacing /\ x + z = (c + offset + 1) * Spacing
  <2>1. c \in Int /\ offset \in Int
    BY <1>4
  <2>2. (c - offset) * Spacing = c * Spacing - offset * Spacing
    BY <1>1, <2>1
  <2>3. (c + offset + 1) * Spacing = c * Spacing + (offset + 1) * Spacing
    BY <1>1, <2>1
  <2> QED
    BY <2>2, <2>3
<1>13. (c - 1) * Spacing = x - Spacing /\ (c + 1) * Spacing = x + Spacing
  <2>1. c \in Int
    BY <1>4
  <2>2. (c - 1) * Spacing = c * Spacing - Spacing
    BY <1>1, <2>1
  <2>3. (c + 1) * Spacing = c * Spacing + Spacing
    BY <1>1, <2>1
  <2> QED
    BY <2>2, <2>3
<1> QED
  BY <1>4, <1>11, <1>12, <1>13

LEMMA LessTimes ==
    ASSUME NEW a \in Int, NEW b \in Int, a * Spacing < b * Spacing
    PROVE  a < b
<1>1. Spacing \in Nat \ {0}
  BY IntegerSizes
<1>2. a * Spacing \in Int /\ b * Spacing \in Int /\ (b <= a => b * Spacing <= a * Spacing)
  BY <1>1, Times
<1> QED
  BY <1>2

\* Ranges one spacing wide that follow each other and lie between two multiples
\* of the spacing are no more than the multiples.
LEMMA Counted ==
    ASSUME NEW n \in Nat, NEW l \in [1..n -> Int], NEW from \in Int, NEW to \in Int, from <= to,
           \A i \in 1..n : from <= l[i] /\ l[i] < to,
           \A i \in 1..n - 1 : l[i] < l[i + 1]
    PROVE  n <= to - from
<1>1. CASE n = 0
  BY <1>1
<1>2. CASE n # 0
  <2> DEFINE a == [i \in 1..n |-> l[i] - i]
  <2>1. a \in [1..n -> Int]
    OBVIOUS
  <2>2. \A i \in 1..n - 1 : a[i] <= a[i + 1]
    <3> TAKE i \in 1..n - 1
    <3>1. i \in 1..n /\ i + 1 \in 1..n
      OBVIOUS
    <3>2. l[i] \in Int /\ l[i + 1] \in Int /\ l[i] < l[i + 1]
      BY <3>1
    <3> QED
      BY <3>1, <3>2
  <2>3. 1 \in 1..n /\ n \in 1..n /\ 1 <= n
    BY <1>2
  <2>4. a[1] = l[1] - 1 /\ a[n] = l[n] - n
    BY <2>3
  <2> HIDE DEF a
  <2>5. a[1] <= a[n]
    BY <2>1, <2>2, <2>3, Grows
  <2>6. l[1] \in Int /\ l[n] \in Int /\ from <= l[1] /\ l[n] < to
    BY <2>3
  <2> QED
    BY <2>4, <2>5, <2>6
<1> QED
  BY <1>1, <1>2

\* Each range of type 3 is one spacing wide; in a window that fits there are as
\* many as it has spacings.  (SplitToTickSpacingRanges)
THEOREM DetailFits == Spec => []DetailFitsWindow
<1>1. IInv => DetailFitsWindow
  <2> SUFFICES ASSUME IInv, HasRanges, answer.type = "3"
               PROVE  /\ \A i \in 1..Len(answer.ranges) :
                            answer.ranges[i].upper = answer.ranges[i].lower + Spacing
                      /\ Fits =>
                            /\ \A i \in 1..Len(answer.ranges) :
                                  /\ Window.from <= answer.ranges[i].lower
                                  /\ answer.ranges[i].upper <= Window.to
                            /\ Len(answer.ranges) <= 2 * answer.offset + 1
    BY DEF DetailFitsWindow
  <2>1. PICK ranges : Shows(ranges)
    BY AnswerShows
  <2> DEFINE n == Len(ranges)
  <2>2. Len(answer.ranges) = n /\ n \in Nat
    BY <2>1 DEF Shows, Presents, IsCut
  <2>3. \A i \in 1..n : /\ ranges[i].upper = ranges[i].lower + Spacing
                        /\ ranges[i].upper > Window.from /\ ranges[i].lower < Window.to
    BY <2>1 DEF Shows, Presents
  <2>4. \A i \in 1..n : /\ ranges[i] \in Pieces
                        /\ ranges[i].lower \in Int /\ ranges[i].upper \in Int
                        /\ answer.ranges[i].lower = ranges[i].lower
                        /\ answer.ranges[i].upper = ranges[i].upper
    BY <2>1, ShownRange
  <2>5. \A i \in 1..n - 1 : ranges[i].upper = ranges[i + 1].lower
    BY <2>1 DEF Shows, Presents, IsCut
  <2> HIDE DEF n
  <2>6. ASSUME Fits
        PROVE  /\ \A i \in 1..n : Window.from <= ranges[i].lower /\ ranges[i].upper <= Window.to
               /\ n <= 2 * answer.offset + 1
    <3> DEFINE off == answer.offset
    <3>1. off \in Nat /\ 2 * (MaxTick + (off + 1) * Spacing) < IntSize /\ tick \in Ticks
          /\ Spacing \in Nat \ {0}
      BY <2>6, AnswerShows, IntegerSizes DEF Fits, IInv, StoreInv
    <3> HIDE DEF off
    <3>2. PICK c \in Int : /\ Window.from = (c - off) * Spacing
                           /\ Window.to = (c + off + 1) * Spacing
      BY <3>1, WindowFits DEF Window, off
    <3> DEFINE l == [i \in 1..n |-> ranges[i].lower \div Spacing]
    <3>3. \A i \in 1..n : l[i] \in Int /\ ranges[i].lower = l[i] * Spacing
      <4> TAKE i \in 1..n
      <4>1. ranges[i].lower \in Int /\ ranges[i].lower % Spacing = 0
        BY <2>4, SpacedType DEF Pieces
      <4>2. l[i] \in Int /\ ranges[i].lower = Spacing * l[i]
        <5>1. \A x \in Int : x % Spacing = 0 =>
                 x \div Spacing \in Int /\ x = Spacing * (x \div Spacing)
          BY <3>1, Division
        <5>2. l[i] = ranges[i].lower \div Spacing
          OBVIOUS
        <5> HIDE DEF l
        <5> QED
          BY <4>1, <5>1, <5>2
      <4> HIDE DEF l
      <4> QED
        BY <3>1, <4>2, Times
    <3>4. l \in [1..n -> Int]
      BY <3>3
    <3> HIDE DEF l
    <3>5. ASSUME NEW i \in 1..n
          PROVE  /\ c - off <= l[i] /\ l[i] < c + off + 1
                 /\ Window.from <= ranges[i].lower /\ ranges[i].upper <= Window.to
      <4>1. /\ c - off \in Int /\ c + off + 1 \in Int /\ l[i] \in Int /\ l[i] + 1 \in Int
        BY <3>1, <3>3
      <4>2. ranges[i].upper = (l[i] + 1) * Spacing /\ ranges[i].lower = l[i] * Spacing
        BY <2>3, <3>1, <3>3, <4>1, Times
      <4>3. (c - off) * Spacing < (l[i] + 1) * Spacing
            /\ l[i] * Spacing < (c + off + 1) * Spacing
        <5>1. ranges[i].upper > Window.from /\ ranges[i].lower < Window.to
          BY <2>3
        <5>2. ranges[i].upper \in Int /\ (c - off) * Spacing \in Int
          BY <2>4, <3>1, <4>1, Times
        <5> QED
          BY <3>2, <4>2, <5>1, <5>2
      <4>4. c - off < l[i] + 1 /\ l[i] < c + off + 1
        BY <4>1, <4>3, LessTimes
      <4>5. c - off <= l[i] /\ l[i] + 1 <= c + off + 1
        BY <3>1, <4>1, <4>4
      <4>6. (c - off) * Spacing <= l[i] * Spacing
        BY <3>1, <4>1, <4>5, Times
      <4>7. (l[i] + 1) * Spacing <= (c + off + 1) * Spacing
        BY <3>1, <4>1, <4>5, Times
      <4> QED
        BY <3>2, <4>2, <4>4, <4>5, <4>6, <4>7
    <3>6. ASSUME NEW i \in 1..n - 1
          PROVE  l[i] < l[i + 1]
      <4>1. i \in 1..n /\ i + 1 \in 1..n
        BY <2>2
      <4>2. ranges[i + 1].lower = ranges[i].lower + Spacing
        BY <2>3, <2>5, <4>1
      <4>3. l[i] \in Int /\ l[i + 1] \in Int /\ l[i] * Spacing < l[i + 1] * Spacing
        <5>1. ranges[i].lower \in Int /\ ranges[i].lower < ranges[i + 1].lower
          BY <2>4, <3>1, <4>1, <4>2
        <5> QED
          BY <3>3, <4>1, <5>1
      <4> QED
        BY <4>3, LessTimes
    <3>7. n <= (c + off + 1) - (c - off)
      <4>1. c - off \in Int /\ c + off + 1 \in Int /\ c - off <= c + off + 1
        BY <3>1
      <4> QED
        BY <2>2, <3>4, <3>5, <3>6, <4>1, Counted
    <3>8. n <= 2 * off + 1
      BY <2>2, <3>1, <3>7
    <3> QED
      BY <3>5, <3>8 DEF off
  <2> QED
    BY <2>2, <2>3, <2>4, <2>6
<1> QED
  BY Invariance, <1>1, PTL

\* A window that fits holds the current tick, so that an answer has one range
\* with it while there is liquidity.  (CalculateTickRange, arrange)
THEOREM CurrentBarIsShown == Spec => []CurrentBarShown
<1>1. IInv => CurrentBarShown
  <2> SUFFICES ASSUME IInv, HasRanges, Fits, LiquidityAt(tick) > 0
               PROVE  Cardinality(CurrentBars) = 1
    BY DEF CurrentBarShown
  <2>1. PICK ranges : Shows(ranges)
    BY AnswerShows
  <2> DEFINE off == answer.offset
             n == Len(ranges)
  <2>2. /\ off \in Nat /\ 1 <= off /\ 2 * (MaxTick + (off + 1) * Spacing) < IntSize
        /\ tick \in Ticks /\ tick \in Int /\ Spacing \in Nat \ {0}
    BY AnswerShows, IntegerSizes DEF Fits, IInv, StoreInv
  <2> HIDE DEF off
  <2>3. PICK c \in Int : /\ Window.from = (c - off) * Spacing
                         /\ Window.to = (c + off + 1) * Spacing
                         /\ (c - 1) * Spacing < tick /\ tick < (c + 1) * Spacing
    BY <2>2, WindowFits DEF Window, off
  <2>4. Window.from <= tick /\ tick < Window.to
    <3>1. /\ c - off \in Int /\ c - 1 \in Int /\ c + 1 \in Int /\ c + off + 1 \in Int
          /\ c - off <= c - 1 /\ c + 1 <= c + off + 1
      BY <2>2
    <3>2. (c - off) * Spacing <= (c - 1) * Spacing /\ (c - off) * Spacing \in Int
          /\ (c - 1) * Spacing \in Int
      BY <2>2, <3>1, Times
    <3>3. (c + 1) * Spacing <= (c + off + 1) * Spacing /\ (c + 1) * Spacing \in Int
          /\ (c + off + 1) * Spacing \in Int
      BY <2>2, <3>1, Times
    <3> QED
      BY <2>2, <2>3, <3>2, <3>3
  <2>5. Len(answer.ranges) = n /\ n \in Nat
    BY <2>1 DEF Shows, Presents, IsCut
  <2>6. PICK i \in 1..n : In(ranges[i], tick)
    <3>1. Active(liquidity, tick) > 0
      BY DEF Active, LiquidityAt
    <3> QED
      BY <2>1, <2>2, <2>4, <3>1 DEF Shows, Presents, Covers
  <2>7. ASSUME NEW j \in 1..n, In(ranges[j], tick)
        PROVE  j = i
    <3>1. IsCut(ranges, liquidity)
      BY <2>1 DEF Shows, Presents
    <3>2. /\ ranges[i].lower \in Int /\ ranges[i].upper \in Int
          /\ ranges[j].lower \in Int /\ ranges[j].upper \in Int
      BY <2>1, ShownRange
    <3>3. i < j => ranges[i].upper <= ranges[j].lower
      BY <3>1, CutRises
    <3>4. j < i => ranges[j].upper <= ranges[i].lower
      BY <3>1, CutRises
    <3>5. ~(i < j) /\ ~(j < i)
      BY <2>2, <2>6, <2>7, <3>2, <3>3, <3>4 DEF In
    <3> QED
      BY <2>5, <3>5
  <2>8. \A j \in 1..n : In(answer.ranges[j], tick) <=> In(ranges[j], tick)
    BY <2>1, ShownRange
  <2> HIDE DEF n
  <2>9. CurrentBars = {i}
    BY <2>5, <2>6, <2>7, <2>8 DEF CurrentBars
  <2> QED
    BY <2>9, FS_Singleton
<1> QED
  BY Invariance, <1>1, PTL

-----------------------------------------------------------------------------
(* The amounts. *)

\* The coefficients of the price at t in the ranges' amounts of token 1.
PriceAt(ranges, t) ==
    [i \in 1..Len(ranges) |-> IF t = ranges[i].upper THEN ranges[i].liquidity
                              ELSE IF t = ranges[i].lower THEN -ranges[i].liquidity
                              ELSE 0]

\* What they add up to, between the ends of the ranges.
PriceBetween(liq, low, high, t) ==
    IF t = low THEN -Active(liq, low)
    ELSE IF t = high THEN Active(liq, high - 1)
    ELSE IF low < t /\ t < high THEN -LiquidityNet(liq, t)
    ELSE 0

\* The ranges of a cut hold each tick between its ends.
LEMMA CutHolds ==
    ASSUME NEW liq, NEW ranges, IsCut(ranges, liq), Len(ranges) >= 1, NEW t \in Int,
           ranges[1].lower <= t, t < ranges[Len(ranges)].upper
    PROVE  \E i \in 1..Len(ranges) : In(ranges[i], t)
<1> DEFINE n == Len(ranges)
           D == {i \in 1..n : t < ranges[i].upper}
<1>1. /\ n \in Nat /\ n \in 1..n
      /\ \A i \in 1..n : ranges[i] \in Pieces
      /\ \A i \in 1..n - 1 : ranges[i].upper = ranges[i + 1].lower
  BY DEF IsCut
<1>2. \A i \in 1..n : ranges[i].lower \in Int /\ ranges[i].upper \in Int
  BY <1>1, SpacedType DEF Pieces
<1>3. PICK l \in D : \A i \in D : l <= i
  <2>1. D \subseteq Nat /\ n \in D
    BY <1>1
  <2> HIDE DEF D
  <2> QED
    BY <2>1, Smallest
<1>4. l \in 1..n /\ t < ranges[l].upper
  OBVIOUS
<1>5. ranges[l].lower <= t
  <2>1. CASE l = 1
    BY <2>1
  <2>2. CASE l # 1
    <3> HIDE DEF n
    <3>1. l - 1 \in 1..n /\ l - 1 \in 1..n - 1 /\ (l - 1) + 1 = l /\ ~(l <= l - 1)
      BY <1>1, <1>4, <2>2
    <3>2. ~(t < ranges[l - 1].upper)
      BY <1>3, <3>1
    <3>3. ranges[l - 1].upper = ranges[l].lower
      BY <1>1, <3>1
    <3> QED
      BY <1>2, <1>4, <3>2, <3>3
  <2> QED
    BY <2>1, <2>2
<1> QED
  BY <1>4, <1>5 DEF In

\* Inner ends cancel, but for the positions that begin or end there.
LEMMA PricesCancel ==
    ASSUME NEW liq, IsLiquidity(liq), NEW ranges, IsCut(ranges, liq), Len(ranges) >= 1,
           NEW t \in Int
    PROVE  Sum(PriceAt(ranges, t), 1..Len(ranges))
             = PriceBetween(liq, ranges[1].lower, ranges[Len(ranges)].upper, t)
<1> DEFINE n == Len(ranges)
           f == PriceAt(ranges, t)
           low == ranges[1].lower
           high == ranges[n].upper
<1>1. /\ n \in Nat /\ 1 \in 1..n /\ n \in 1..n
      /\ \A i \in 1..n : /\ ranges[i] \in Pieces /\ ranges[i].lower < ranges[i].upper
                         /\ \A u \in Int : In(ranges[i], u) =>
                               ranges[i].liquidity = Active(liq, u)
      /\ \A i \in 1..n - 1 : ranges[i].upper = ranges[i + 1].lower
  BY DEF IsCut
<1>2. \A i \in 1..n : /\ ranges[i].lower \in Int /\ ranges[i].upper \in Int
                      /\ ranges[i].liquidity \in Int
  BY <1>1, SpacedType DEF Pieces
<1>3. \A i, j \in 1..n : i < j => /\ ranges[i].lower < ranges[j].lower
                                  /\ ranges[i].upper <= ranges[j].lower
  BY CutRises
<1>4. \A i \in 1..n : f[i] = IF t = ranges[i].upper THEN ranges[i].liquidity
                             ELSE IF t = ranges[i].lower THEN -ranges[i].liquidity
                             ELSE 0
  BY DEF PriceAt
<1>5. IsFiniteSet(1..n) /\ IsIntegerOn(f, 1..n)
  <2>1. IsFiniteSet(1..n)
    <3>1. 1 \in Int /\ n \in Int
      BY <1>1
    <3> QED
      BY <3>1, FS_Interval
  <2>2. \A i \in 1..n : f[i] \in Int
    <3> TAKE i \in 1..n
    <3>1. ranges[i].liquidity \in Int
      BY <1>2
    <3> HIDE DEF f
    <3> QED
      BY <1>4, <3>1
  <2> HIDE DEF f
  <2> QED
    BY <2>1, <2>2 DEF IsIntegerOn
<1>6. \A i \in 1..n : \A u \in Int : ranges[i].lower <= u /\ u < ranges[i].upper =>
         ranges[i].liquidity = Active(liq, u)
  BY <1>1 DEF In
<1>7. \A i \in 1..n : low <= ranges[i].lower /\ ranges[i].upper <= high
  <2> TAKE i \in 1..n
  <2>1. low <= ranges[i].lower
    <3>1. i = 1 \/ 1 < i
      BY <1>1
    <3> QED
      BY <1>1, <1>2, <1>3, <3>1
  <2>2. ranges[i].upper <= high
    <3>1. i = n \/ i < n
      BY <1>1
    <3>2. i < n => ranges[i].upper <= ranges[n].lower
      BY <1>1, <1>3
    <3>3. ranges[n].lower < ranges[n].upper /\ ranges[n].lower \in Int /\ ranges[n].upper \in Int
          /\ ranges[i].upper \in Int
      BY <1>1, <1>2
    <3> QED
      BY <3>1, <3>2, <3>3
  <2> QED
    BY <2>1, <2>2
<1>8. low \in Int /\ high \in Int /\ low < high
  BY <1>1, <1>2, <1>7
<1> HIDE DEF f, n
<1>9. CASE t = low
  <2>1. \A i \in 1..n : i # 1 => f[i] = 0
    <3> SUFFICES ASSUME NEW i \in 1..n, i # 1
                 PROVE  f[i] = 0
      OBVIOUS
    <3>0. 1 < i
      BY <1>1
    <3>1. ranges[1].lower < ranges[i].lower
      BY <1>1, <1>3, <3>0
    <3>2. t # ranges[i].lower /\ t # ranges[i].upper
      BY <1>1, <1>2, <1>9, <3>1
    <3> QED
      BY <1>4, <3>2
  <2>2. f[1] = -ranges[1].liquidity
    BY <1>1, <1>2, <1>4, <1>9
  <2>3. ranges[1].liquidity = Active(liq, low)
    BY <1>1, <1>2, <1>6
  <2>4. Sum(f, 1..n) = f[1]
    BY <1>1, <1>5, <2>1, SumOfOne
  <2> QED
    BY <1>9, <2>2, <2>3, <2>4 DEF PriceBetween, f, n
<1>10. CASE t = high
  <2>1. \A i \in 1..n : i # n => f[i] = 0
    <3> SUFFICES ASSUME NEW i \in 1..n, i # n
                 PROVE  f[i] = 0
      OBVIOUS
    <3>1. i < n
      BY <1>1
    <3>2. ranges[i].upper <= ranges[n].lower
      BY <1>1, <1>3, <3>1
    <3>3. t # ranges[i].lower /\ t # ranges[i].upper
      <4>1. /\ ranges[n].lower < ranges[n].upper /\ ranges[i].lower < ranges[i].upper
            /\ ranges[n].lower \in Int /\ ranges[n].upper \in Int
            /\ ranges[i].lower \in Int /\ ranges[i].upper \in Int
        BY <1>1, <1>2
      <4> QED
        BY <1>10, <3>2, <4>1
    <3> QED
      BY <1>4, <3>3
  <2>2. f[n] = ranges[n].liquidity
    BY <1>1, <1>4, <1>10
  <2>3. ranges[n].liquidity = Active(liq, high - 1)
    <3>1. high - 1 \in Int /\ ranges[n].lower <= high - 1 /\ high - 1 < ranges[n].upper
      BY <1>1, <1>2
    <3> QED
      BY <1>1, <1>6, <3>1
  <2>4. Sum(f, 1..n) = f[n]
    BY <1>1, <1>5, <2>1, SumOfOne
  <2> QED
    BY <1>8, <1>10, <2>2, <2>3, <2>4 DEF PriceBetween, f, n
<1>11. CASE low < t /\ t < high
  <2>1. PICK i \in 1..n : In(ranges[i], t)
    <3>1. ranges[1].lower <= t
      BY <1>8, <1>11
    <3> QED
      BY <1>11, <3>1, CutHolds DEF n
  <2>2. ranges[i].lower <= t /\ t < ranges[i].upper
    BY <2>1 DEF In
  <2>3. PriceBetween(liq, low, high, t) = -LiquidityNet(liq, t)
    BY <1>8, <1>11 DEF PriceBetween
  <2>4. Active(liq, t) = Active(liq, t - 1) + LiquidityNet(liq, t)
    <3>1. t - 1 \in Int /\ t - 1 < t /\ \A v \in Initialised(liq) : ~(t - 1 < v /\ v < t)
      <4>1. \A v \in Initialised(liq) : v \in Int
        BY IntegerSizes DEF Initialised
      <4> QED
        BY <4>1
    <3> QED
      BY <3>1, ActiveChanges
  <2>5. Active(liq, t) \in Int /\ Active(liq, t - 1) \in Int /\ LiquidityNet(liq, t) \in Int
    BY ActiveType, NetType
  <2>6. CASE t = ranges[i].lower
    <3>1. i # 1
      BY <1>8, <1>11, <2>6
    <3>2. i - 1 \in 1..n /\ i - 1 \in 1..n - 1 /\ (i - 1) + 1 = i /\ i - 1 # i
      BY <1>1, <3>1
    <3>3. ranges[i - 1].upper = t
      BY <1>1, <2>6, <3>2
    <3>4. f[i - 1] = ranges[i - 1].liquidity /\ f[i] = -ranges[i].liquidity
      BY <1>4, <2>2, <2>6, <3>2, <3>3
    <3>5. ranges[i].liquidity = Active(liq, t)
      BY <1>6, <2>2
    <3>6. ranges[i - 1].liquidity = Active(liq, t - 1)
      <4>1. ranges[i - 1].lower < ranges[i - 1].upper /\ ranges[i - 1].lower \in Int
        BY <1>1, <1>2, <3>2
      <4>2. t - 1 \in Int /\ ranges[i - 1].lower <= t - 1 /\ t - 1 < ranges[i - 1].upper
        BY <3>3, <4>1
      <4> QED
        BY <1>6, <3>2, <4>2
    <3>7. \A j \in 1..n : j # i - 1 /\ j # i => f[j] = 0
      <4> SUFFICES ASSUME NEW j \in 1..n, j # i - 1, j # i
                   PROVE  f[j] = 0
        OBVIOUS
      <4>1. j < i - 1 \/ i < j
        BY <1>1, <3>2
      <4>2. /\ ranges[j].lower \in Int /\ ranges[j].upper \in Int
            /\ ranges[j].lower < ranges[j].upper
            /\ ranges[i - 1].lower \in Int /\ ranges[i - 1].upper \in Int
            /\ ranges[i - 1].lower < ranges[i - 1].upper
        BY <1>1, <1>2, <3>2
      <4>3. j < i - 1 => ranges[j].upper <= ranges[i - 1].lower
        BY <1>3, <3>2
      <4>4. i < j => ranges[i].lower < ranges[j].lower
        BY <1>3
      <4>5. t # ranges[j].lower /\ t # ranges[j].upper
        BY <2>6, <3>3, <4>1, <4>2, <4>3, <4>4
      <4> QED
        BY <1>4, <4>5
    <3>8. Sum(f, 1..n) = f[i - 1] + f[i]
      BY <1>5, <3>2, <3>7, SumOfTwo
    <3>9. Sum(f, 1..n) = -LiquidityNet(liq, t)
      BY <2>4, <2>5, <3>4, <3>5, <3>6, <3>8
    <3> QED
      BY <2>3, <3>9 DEF f, n
  <2>7. CASE t # ranges[i].lower
    <3>1. ranges[i].lower <= t - 1 /\ t - 1 < ranges[i].upper /\ t - 1 \in Int
      BY <1>2, <2>2, <2>7
    <3>2. ranges[i].liquidity = Active(liq, t) /\ ranges[i].liquidity = Active(liq, t - 1)
      BY <1>6, <2>2, <3>1
    <3>3. LiquidityNet(liq, t) = 0
      BY <2>4, <2>5, <3>2
    <3>4. \A j \in 1..n : f[j] = 0
      <4> TAKE j \in 1..n
      <4>1. j = i \/ j < i \/ i < j
        BY <1>1
      <4>2. /\ ranges[j].lower \in Int /\ ranges[j].upper \in Int
            /\ ranges[j].lower < ranges[j].upper
            /\ ranges[i].lower \in Int /\ ranges[i].upper \in Int
        BY <1>1, <1>2
      <4>3. j < i => ranges[j].upper <= ranges[i].lower
        BY <1>3
      <4>4. i < j => ranges[i].upper <= ranges[j].lower
        BY <1>3
      <4>5. t # ranges[j].lower /\ t # ranges[j].upper
        BY <2>2, <2>7, <4>1, <4>2, <4>3, <4>4
      <4> QED
        BY <1>4, <4>5
    <3>5. Sum(f, 1..n) = 0
      BY <1>5, <3>4, SumOfZeros
    <3> QED
      BY <2>3, <3>3, <3>5 DEF f, n
  <2> QED
    BY <2>6, <2>7
<1>12. CASE t < low \/ high < t
  <2>1. \A i \in 1..n : f[i] = 0
    <3> TAKE i \in 1..n
    <3>1. low <= ranges[i].lower /\ ranges[i].upper <= high /\ ranges[i].lower < ranges[i].upper
          /\ ranges[i].lower \in Int /\ ranges[i].upper \in Int
      BY <1>1, <1>2, <1>7
    <3> HIDE DEF low, high
    <3>2. t # ranges[i].lower /\ t # ranges[i].upper
      BY <1>8, <1>12, <3>1
    <3> QED
      BY <1>4, <3>2
  <2>2. Sum(f, 1..n) = 0
    BY <1>5, <2>1, SumOfZeros
  <2>3. PriceBetween(liq, low, high, t) = 0
    <3> HIDE DEF low, high
    <3> QED
      BY <1>8, <1>12 DEF PriceBetween
  <2> QED
    BY <2>2, <2>3 DEF f, n
<1>13. t = low \/ t = high \/ (low < t /\ t < high) \/ t < low \/ high < t
  <2> HIDE DEF low, high
  <2> QED
    BY <1>8
<1> QED
  BY <1>9, <1>10, <1>11, <1>12, <1>13

\* The coefficients of the price at t in what the positions are worth between
\* two ticks.
Worth(liq, low, high, t) ==
    LET from(q) == IF q[1] < low THEN low ELSE q[1]
        to(q) == IF q[2] > high THEN high ELSE q[2]
        shown == {q \in Positions : from(q) < to(q)}
    IN  Sum(liq, {q \in shown : to(q) = t}) - Sum(liq, {q \in shown : from(q) = t})

LEMMA WorthBetween ==
    ASSUME NEW liq, IsLiquidity(liq), NEW low \in Int, NEW high \in Int, low < high, NEW t \in Int
    PROVE  Worth(liq, low, high, t) = PriceBetween(liq, low, high, t)
<1> DEFINE from(q) == IF q[1] < low THEN low ELSE q[1]
           to(q) == IF q[2] > high THEN high ELSE q[2]
           shown == {q \in Positions : from(q) < to(q)}
           A == {q \in shown : to(q) = t}
           B == {q \in shown : from(q) = t}
<1>1. Worth(liq, low, high, t) = Sum(liq, A) - Sum(liq, B)
  BY DEF Worth
<1>2. \A q \in Positions : q[1] \in Int /\ q[2] \in Int /\ q[1] < q[2]
  BY PositionsFinite
<1>3. \A q \in Positions : q \in shown <=> q[1] < high /\ low < q[2]
  BY <1>2
<1>4. A \subseteq Positions /\ B \subseteq Positions
  OBVIOUS
<1>5. \A q : q \in A <=> q \in Positions /\ q[1] < high /\ low < q[2] /\ to(q) = t
  BY <1>3
<1>6. \A q : q \in B <=> q \in Positions /\ q[1] < high /\ low < q[2] /\ from(q) = t
  BY <1>3
<1>7. \A q \in Positions :
         /\ (to(q) = t <=> (q[2] > high /\ t = high) \/ (q[2] <= high /\ t = q[2]))
         /\ (from(q) = t <=> (q[1] < low /\ t = low) \/ (q[1] >= low /\ t = q[1]))
  BY <1>2
<1>8. Sum(liq, A) \in Int /\ Sum(liq, B) \in Int
  <2> HIDE DEF A, B
  <2> QED
    BY <1>4, SumOfPositions
<1> HIDE DEF A, B, shown, from, to
<1>9. CASE t = low
  <2>1. A = {}
    <3> SUFFICES ASSUME NEW q \in A
                 PROVE  FALSE
      OBVIOUS
    <3>1. q \in Positions /\ low < q[2] /\ to(q) = t
      BY <1>5
    <3> QED
      BY <1>2, <1>7, <1>9, <3>1
  <2>2. B = {q \in Positions : q[1] <= low /\ low < q[2]}
    <3>1. \A q \in Positions : q \in B <=> q[1] <= low /\ low < q[2]
      BY <1>2, <1>6, <1>7, <1>9
    <3> QED
      BY <1>4, <3>1
  <2>3. Sum(liq, A) = 0
    BY <2>1, SumOfNothing
  <2>4. Sum(liq, B) = Active(liq, low)
    BY <2>2 DEF Active
  <2> QED
    BY <1>1, <1>8, <1>9, <2>3, <2>4 DEF PriceBetween
<1>10. CASE t = high
  <2>1. B = {}
    <3> SUFFICES ASSUME NEW q \in B
                 PROVE  FALSE
      OBVIOUS
    <3>1. q \in Positions /\ q[1] < high /\ from(q) = t
      BY <1>6
    <3> QED
      BY <1>2, <1>7, <1>10, <3>1
  <2>2. A = {q \in Positions : q[1] <= high - 1 /\ high - 1 < q[2]}
    <3>1. \A q \in Positions : q \in A <=> q[1] <= high - 1 /\ high - 1 < q[2]
      BY <1>2, <1>5, <1>7, <1>10
    <3> QED
      BY <1>4, <3>1
  <2>3. Sum(liq, B) = 0
    BY <2>1, SumOfNothing
  <2>4. Sum(liq, A) = Active(liq, high - 1)
    BY <2>2 DEF Active
  <2>5. t # low
    BY <1>10
  <2> QED
    BY <1>1, <1>8, <1>10, <2>3, <2>4, <2>5 DEF PriceBetween
<1>11. CASE low < t /\ t < high
  <2>1. A = {q \in Positions : q[2] = t}
    <3>1. \A q \in Positions : q \in A <=> q[2] = t
      BY <1>2, <1>5, <1>7, <1>11
    <3> QED
      BY <1>4, <3>1
  <2>2. B = {q \in Positions : q[1] = t}
    <3>1. \A q \in Positions : q \in B <=> q[1] = t
      BY <1>2, <1>6, <1>7, <1>11
    <3> QED
      BY <1>4, <3>1
  <2>3. LiquidityNet(liq, t) = Sum(liq, B) - Sum(liq, A)
    BY <2>1, <2>2 DEF LiquidityNet
  <2>4. t # low /\ t # high
    BY <1>11
  <2> QED
    BY <1>1, <1>8, <1>11, <2>3, <2>4 DEF PriceBetween
<1>12. CASE t < low \/ high < t
  <2>1. A = {}
    <3> SUFFICES ASSUME NEW q \in A
                 PROVE  FALSE
      OBVIOUS
    <3>1. q \in Positions /\ low < q[2] /\ to(q) = t
      BY <1>5
    <3> QED
      BY <1>2, <1>7, <1>12, <3>1
  <2>2. B = {}
    <3> SUFFICES ASSUME NEW q \in B
                 PROVE  FALSE
      OBVIOUS
    <3>1. q \in Positions /\ q[1] < high /\ from(q) = t
      BY <1>6
    <3> QED
      BY <1>2, <1>7, <1>12, <3>1
  <2>3. Sum(liq, A) = 0 /\ Sum(liq, B) = 0
    BY <2>1, <2>2, SumOfNothing
  <2>4. t # low /\ t # high /\ ~(low < t /\ t < high)
    BY <1>12
  <2> QED
    BY <1>1, <2>3, <2>4 DEF PriceBetween
<1> QED
  BY <1>9, <1>10, <1>11, <1>12

\* The amounts of an answer add up to what the positions are worth between its
\* ends, for both tokens.  (CalcRangeAmount, SplitRangeLiquidityArray)
THEOREM AmountsAreWorth == Spec => []AmountsAddUp
<1>1. IInv => AmountsAddUp
  <2> SUFFICES ASSUME IInv, HasRanges, answer.ranges # <<>>
               PROVE  \A t \in Ticks :
                         LET indexes == 1..Len(answer.ranges)
                             worth == Worth(liquidity, Head(answer.ranges).lower,
                                            Last(answer.ranges).upper, t)
                         IN  /\ Sum([i \in indexes |-> At(answer.ranges[i].amount1, t)], indexes)
                                  = worth
                             /\ Sum([i \in indexes |-> At(answer.ranges[i].amount0, t)], indexes)
                                  = -worth
    BY DEF AmountsAddUp, Worth
  <2> TAKE t \in Ticks
  <2>1. PICK ranges : Shows(ranges)
    BY AnswerShows
  <2> DEFINE n == Len(ranges)
             f == PriceAt(ranges, t)
             g == [i \in 1..n |-> At(answer.ranges[i].amount1, t)]
             h == [i \in 1..n |-> At(answer.ranges[i].amount0, t)]
  <2>2. /\ IsCut(ranges, liquidity) /\ n \in Nat
        /\ DOMAIN answer.ranges = 1..n /\ Len(answer.ranges) = n
        /\ answer.ranges = [i \in 1..n |-> CalcRangeAmount(ranges[i])]
    BY <2>1 DEF Shows, Presents, IsCut
  <2>3. n >= 1
    <3>1. n = 0 => answer.ranges = <<>>
      BY <2>2
    <3> QED
      BY <2>2, <3>1
  <2>4. /\ Head(answer.ranges).lower = ranges[1].lower
        /\ Last(answer.ranges).upper = ranges[n].upper
    <3>1. 1 \in 1..n /\ n \in 1..n
      BY <2>2, <2>3
    <3>2. Head(answer.ranges) = answer.ranges[1]
      BY <2>2
    <3>3. Last(answer.ranges) = answer.ranges[n]
      BY <2>2 DEF Last
    <3>4. answer.ranges[1].lower = ranges[1].lower /\ answer.ranges[n].upper = ranges[n].upper
      BY <2>1, <3>1, ShownRange
    <3> QED
      BY <3>2, <3>3, <3>4
  <2>5. ASSUME NEW i \in 1..n
        PROVE  /\ f[i] \in Int
               /\ At(answer.ranges[i].amount1, t) = f[i]
               /\ At(answer.ranges[i].amount0, t) = -f[i]
    <3> DEFINE r == ranges[i]
    <3>1. /\ r.lower \in Int /\ r.upper \in Int /\ r.liquidity \in Int /\ r.lower < r.upper
          /\ answer.ranges[i] = CalcRangeAmount(r)
      BY <2>1, ShownRange
    <3>2. f[i] = IF t = r.upper THEN r.liquidity ELSE IF t = r.lower THEN -r.liquidity ELSE 0
      BY DEF PriceAt
    <3> HIDE DEF r, f
    <3>3. /\ answer.ranges[i].amount1 = Coefficients(r, -r.liquidity, r.liquidity)
          /\ answer.ranges[i].amount0 = Coefficients(r, r.liquidity, -r.liquidity)
      BY <3>1 DEF CalcRangeAmount
    <3>4. ASSUME NEW a, NEW b
          PROVE  At(Coefficients(r, a, b), t)
                   = IF t = r.upper THEN b ELSE IF t = r.lower THEN a ELSE 0
      <4>1. r.lower # r.upper
        BY <3>1
      <4> QED
        BY <4>1 DEF At, Coefficients
    <3> DEFINE x == r.liquidity
    <3>5. /\ x \in Int
          /\ f[i] = IF t = r.upper THEN x ELSE IF t = r.lower THEN -x ELSE 0
          /\ At(answer.ranges[i].amount1, t)
                = IF t = r.upper THEN x ELSE IF t = r.lower THEN -x ELSE 0
          /\ At(answer.ranges[i].amount0, t)
                = IF t = r.upper THEN -x ELSE IF t = r.lower THEN x ELSE 0
      BY <3>1, <3>2, <3>3, <3>4
    <3> HIDE DEF x
    <3> QED
      BY <3>5
  <2>6. IsFiniteSet(1..n) /\ IsIntegerOn(f, 1..n)
    <3>1. IsFiniteSet(1..n)
      <4>1. 1 \in Int /\ n \in Int
        BY <2>2
      <4> QED
        BY <4>1, FS_Interval
    <3> HIDE DEF f
    <3> QED
      BY <2>5, <3>1 DEF IsIntegerOn
  <2>7. Sum(g, 1..n) = Sum(f, 1..n) /\ Sum(h, 1..n) = -Sum(f, 1..n)
    <3>1. \A i \in 1..n : g[i] = f[i] /\ h[i] = -f[i]
      <4> HIDE DEF f
      <4> QED
        BY <2>5
    <3> HIDE DEF f, g, h
    <3> QED
      BY <2>6, <3>1, SumSame, SumNegates
  <2>8. Sum(f, 1..n) = Worth(liquidity, ranges[1].lower, ranges[n].upper, t)
    <3>1. t \in Int /\ IsLiquidity(liquidity)
      BY IntegerSizes, LiquidityType DEF IInv, StoreInv
    <3>2. Sum(f, 1..n) = PriceBetween(liquidity, ranges[1].lower, ranges[n].upper, t)
      BY <2>2, <2>3, <3>1, PricesCancel
    <3>3. /\ ranges[1].lower \in Int /\ ranges[n].upper \in Int
          /\ ranges[1].lower < ranges[n].upper
      <4>1. 1 \in 1..n /\ n \in 1..n /\ (n = 1 \/ 1 < n)
        BY <2>2, <2>3
      <4>2. /\ ranges[1].lower \in Int /\ ranges[n].upper \in Int /\ ranges[n].lower \in Int
            /\ ranges[n].lower < ranges[n].upper
        BY <2>1, <4>1, ShownRange
      <4>3. 1 < n => ranges[1].lower < ranges[n].lower
        BY <2>2, <4>1, CutRises
      <4> QED
        BY <4>1, <4>2, <4>3
    <3> QED
      BY <3>1, <3>2, <3>3, WorthBetween
  <2> HIDE DEF n, f
  <2> QED
    BY <2>2, <2>4, <2>7, <2>8
<1> QED
  BY Invariance, <1>1, PTL
=============================================================================
