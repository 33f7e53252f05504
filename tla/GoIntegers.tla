----------------------------- MODULE GoIntegers -----------------------------
(* Integers of the width and with the division of the program. *)
EXTENDS Integers

CONSTANT IntSize  \* 2^32

ASSUME IntSizeAssumption == IntSize \in Nat \ {0} /\ IntSize % 2 = 0

\* The number that the low 32 bits of x are in two's complement.
Int32(x) == ((x + IntSize \div 2) % IntSize) - IntSize \div 2

\* Division rounds towards zero, in Go as in Solidity.
Quotient(a, b) == IF a >= 0 THEN a \div b ELSE -((-a) \div b)
=============================================================================
