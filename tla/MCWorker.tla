------------------------------ MODULE MCWorker ------------------------------
(***************************************************************************)
(* Worker with requests that differ in nothing but their choices.          *)
(***************************************************************************)
EXTENDS Worker, TLC

Symmetry == Permutations(Requests)
=============================================================================
