--------------------------- MODULE MCSignalSingle ---------------------------
(***************************************************************************)
(* Two peers, in ticks of 5/3 ms: 5, 45, 50, 10 and 100 ms are 3, 27, 30,  *)
(* 6 and 60 ticks.  The line has a character that ends in 0s (64), a       *)
(* character boundary, and a run of 1s against the end mark (127); the     *)
(* other line is empty.                                                    *)
(***************************************************************************)
EXTENDS SignalSingle, TLC

CONSTANTS a, b

MCLines == {<<64, 127>>, <<>>}
MCMaxLines == (a :> 2) @@ (b :> 1)
=============================================================================
