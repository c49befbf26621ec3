---------------------------- MODULE MCDraftServer ----------------------------
(***************************************************************************)
(* A small instance of DraftServer for TLC.                                *)
(***************************************************************************)
EXTENDS DraftServer, TLC

CONSTANTS t1, t2, f, g, a, b, ha, hb

MCMd5 == [c \in Content |-> IF c = a THEN ha ELSE hb]
=============================================================================
