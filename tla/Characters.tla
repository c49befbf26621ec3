------------------------------ MODULE Characters ------------------------------
(***************************************************************************)
(* The bits of characters, as both builds of 379-a1/convertsigs.c make     *)
(* them of a line and put them together again.                             *)
(***************************************************************************)
EXTENDS Naturals, Sequences

Bit == {0, 1}

\* The bits of a character, the highest first, and the sum of pow(2, 7 - i).
Weight == <<128, 64, 32, 16, 8, 4, 2, 1>>
convert(c) == [i \in 1 .. 8 |-> (c \div Weight[i]) % 2]

WeightSum(b, w) == b[1] * w[1] + b[2] * w[2] + b[3] * w[3] + b[4] * w[4]
               + b[5] * w[5] + b[6] * w[6] + b[7] * w[7] + b[8] * w[8]

convertBack_Reversed(bits) ==
  WeightSum(bits, <<1, 2, 4, 8, 16, 32, 64, 128>>)   \* mutant: pow(2, i)
convertBack(bits) == WeightSum(bits, Weight)

AllOnes(bits) == \A i \in 1 .. 8 : bits[i] = 1

\* What send() makes of a line, without the end mark.
Bits(line) ==
  [k \in 1 .. 8 * Len(line) |-> convert(line[1 + (k - 1) \div 8])[1 + ((k - 1) % 8)]]
=============================================================================
