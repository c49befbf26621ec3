----------------------------- MODULE MCSignalDuo -----------------------------
(***************************************************************************)
(* Two peers, two lines each: a character that ends in 0s (64), or the    *)
(* end mark as a character (255) before one that begins with a 1 (129).    *)
(***************************************************************************)
EXTENDS SignalDuo, TLC

CONSTANTS a, b

MCLines == {<<64>>, <<255, 129>>}
MCMaxLines == (a :> 2) @@ (b :> 2)
=============================================================================
