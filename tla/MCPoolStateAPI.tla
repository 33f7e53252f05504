-------------------------- MODULE MCPoolStateAPI --------------------------
(* A small instance of PoolStateAPI for TLC. *)
EXTENDS PoolStateAPI

\* Positions that overlap, touch, are nested and straddle zero; their ends are
\* in the first and the last word of the bitmap and in those between.
SomePositions == {<<-9, 3>>, <<-3, 0>>, <<0, 9>>}

\* Multiples of the spacing and ticks between, on both sides of zero.
SomeTicks == {-10, -4, -3, 0, 1, 7}

\* A log without topics, an event of another kind, a Mint of another contract,
\* one with an argument indexed less, and one with too little data.
SomeLogs ==
    {[address |-> "other", topics |-> <<>>, data |-> <<1>>],
     [address |-> Pool, topics |-> <<"Collect", 7, 3, 9>>, data |-> <<7, 1, 1>>],
     [address |-> "other", topics |-> <<MintTopic0, 7, 3, 9>>, data |-> <<7, 1, 1, 1>>],
     [address |-> "other", topics |-> <<MintTopic0, 7, 3>>, data |-> <<7, 1, 1, 1>>],
     [address |-> "other", topics |-> <<SwapTopic0, 7, 2>>, data |-> <<7, 1>>]}
=============================================================================
