----------------------------- MODULE MCDedupWire -----------------------------
(***************************************************************************)
(* Lengths for TLC.  Sizes: the empty file, small ones, one byte less than *)
(* a buffer, a full buffer, more than one and more than two.               *)
(***************************************************************************)
EXTENDS DedupWire

MCSizes == {0, 3, 254, 1022, 1024, 1500, 2100}
\* A file of 255 bytes: the lowest byte of its length with the NUL is zero.
MCSizeByte == {255}
\* A file that does not come in fewer than three pieces of a segment each.
MCSizeThree == {2100}
MCCounts == {0, 1, 3}
=============================================================================
