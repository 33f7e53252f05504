---------------------------- MODULE BlockParser ----------------------------
(***************************************************************************)
(* From a block's receipts to its events.                                  *)
(*                                                                         *)
(* A log has an address, topics and data, both sequences of 256 bit words  *)
(* but for the first topic, the event's signature.  Words are unsigned: a  *)
(* negative tick is its two's complement, which a topic's event keeps and  *)
(* which the unpacking of the data undoes.                                 *)
(***************************************************************************)
EXTENDS SortedMaps, SequencesExt

CONSTANT WordSize  \* 2^256

ASSUME WordSizeAssumption == WordSize \in Nat \ {0} /\ WordSize % 2 = 0

MintTopic0 == "Mint(address,address,int24,int24,uint128,uint256,uint256)"
BurnTopic0 == "Burn(address,int24,int24,uint128,uint256,uint256)"
SwapTopic0 == "Swap(address,address,int256,int256,uint160,uint128,int24,uint128,uint128)"

\* How the ABI writes an integer, and how a signed one is unpacked.
Word(x) == x % WordSize
Signed(w) == ((w + WordSize \div 2) % WordSize) - WordSize \div 2

-----------------------------------------------------------------------------
(* One log. *)

InputParserBook ==
    [topic0 \in {MintTopic0, BurnTopic0, SwapTopic0} |->
        [topicLen      |-> IF topic0 = SwapTopic0 THEN 3 ELSE 4,
         dataUnpackLen |-> CASE topic0 = MintTopic0 -> 4
                             [] topic0 = BurnTopic0 -> 3
                             [] topic0 = SwapTopic0 -> 7]]

\* ParseLog returns no error.  Data behind the last value is ignored.
Parses(log) ==
    /\ log.topics # <<>>
    /\ Head(log.topics) \in DOMAIN InputParserBook
    /\ LET parser == InputParserBook[Head(log.topics)]
       IN  /\ Len(log.topics) = parser.topicLen
           /\ Len(log.data) >= parser.dataUnpackLen

ParseMint(log) == [address |-> log.address, type |-> "mint", amount |-> log.data[2],
                   lower |-> log.topics[3], upper |-> log.topics[4]]

\* Bug: the amount is where it is in a Mint.
ParseBurnAsMint(log) == [address |-> log.address, type |-> "burn", amount |-> log.data[2],
                         lower |-> log.topics[3], upper |-> log.topics[4]]

ParseBurn(log) == [address |-> log.address, type |-> "burn", amount |-> log.data[1],
                   lower |-> log.topics[3], upper |-> log.topics[4]]

ParseSwap(log) == [address |-> log.address, type |-> "swap", tick |-> Signed(log.data[5])]

ParseLog(log) ==
    CASE Head(log.topics) = MintTopic0 -> ParseMint(log)
      [] Head(log.topics) = BurnTopic0 -> ParseBurn(log)
      [] Head(log.topics) = SwapTopic0 -> ParseSwap(log)

-----------------------------------------------------------------------------
(* Receipts and blocks. *)

\* A log that does not parse is dropped, and the others stay in order.
ParseReceipt(receipt) ==
    LET logs == Pick(receipt.logs, {i \in DOMAIN receipt.logs : Parses(receipt.logs[i])})
    IN  [i \in 1..Len(logs) |-> ParseLog(logs[i])]

ParseBlock(receipts) ==
    LET ok == Pick(receipts, {i \in DOMAIN receipts : receipts[i].status = 1})
    IN  FlattenSeq([i \in 1..Len(ok) |-> ParseReceipt(ok[i])])
=============================================================================
