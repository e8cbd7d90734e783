----------------------------- MODULE MCSlotCache -----------------------------
(***************************************************************************)
(* SlotCacheWindow, and with it SlotCache, on two layers of three          *)
(* interchangeable experts: steps of up to two experts over three slots,   *)
(* so that working sets that fit, that just fit and that do not all occur, *)
(* within one layer and across the two.                                    *)
(***************************************************************************)
EXTENDS SlotCacheWindow, TLC

Symmetry == Permutations(Experts)
=============================================================================
