----------------------------- MODULE MCSlotTable -----------------------------
(***************************************************************************)
(* Three slots, five connections: the loop comes round once and goes on to *)
(* the second slot; three descriptors, so that accept() may find none.     *)
(***************************************************************************)
EXTENDS SlotTable
=============================================================================
