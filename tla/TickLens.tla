----------------------------- MODULE TickLens -----------------------------
(***************************************************************************)
(* The lens contract: the initialised ticks of a pool, found by a walk     *)
(* over the words of its tick bitmap.                                      *)
(*                                                                         *)
(* The pool is a given contract.  It keeps for each tick the liquidity of  *)
(* the positions that begin or end there, and in the bitmap one bit for    *)
(* each multiple of the tick spacing: set while some position begins or    *)
(* ends there, cleared again when the last one is withdrawn.               *)
(***************************************************************************)
EXTENDS GoIntegers, SortedMaps, SequencesExt

CONSTANTS
    Spacing,    \* the pool's tick spacing
    MaxTick,    \* the greatest tick; the smallest is its negative
    Positions,  \* <<lower, upper>> of the positions that may exist
    WordBits    \* bits of a word of the bitmap (256)

Ticks == -MaxTick..MaxTick

ASSUME LensAssumption ==
    /\ Spacing \in Nat \ {0}
    /\ MaxTick \in Nat
    /\ WordBits \in Nat \ {0}
    /\ Positions \subseteq Ticks \X Ticks
    /\ \A q \in Positions :
          q[1] < q[2] /\ q[1] % Spacing = 0 /\ q[2] % Spacing = 0

-----------------------------------------------------------------------------
(* The pool contract, given the liquidity of its positions. *)

Sum(liquidity, S) == MapThenSumSet(LAMBDA q : liquidity[q], S)

LiquidityGross(liquidity, t) == Sum(liquidity, {q \in Positions : t \in {q[1], q[2]}})

LiquidityNet(liquidity, t) == Sum(liquidity, {q \in Positions : q[1] = t})
                                - Sum(liquidity, {q \in Positions : q[2] = t})

Initialised(liquidity) == {t \in Ticks : LiquidityGross(liquidity, t) > 0}

\* A tick's place is that of its multiple of the spacing, rounded down.
TickBitmap(liquidity, word) ==
    {(t \div Spacing) % WordBits :
        t \in {u \in Initialised(liquidity) : (u \div Spacing) \div WordBits = word}}

-----------------------------------------------------------------------------
(* The lens. *)

\* Bug: the word of the smallest tick is rounded towards zero, too.
MinWordTruncated == Quotient(Quotient(-MaxTick, Spacing), WordBits)

\* The division rounds towards zero and the shift that follows it down.
MinWord == Quotient(-MaxTick, Spacing) \div WordBits
MaxWord == Quotient(MaxTick, Spacing) \div WordBits

WordTicks(liquidity, word) ==
    LET bits == Ordered(TickBitmap(liquidity, word))
        tick(i) == (word * WordBits + bits[i]) * Spacing
    IN  [i \in 1..Len(bits) |-> [index |-> tick(i), net |-> LiquidityNet(liquidity, tick(i))]]

GetAllTicks(liquidity) ==
    FlattenSeq([i \in 1..MaxWord - MinWord + 1 |-> WordTicks(liquidity, MinWord + i - 1)])
=============================================================================
