------------------------------ MODULE MCHostMoe ------------------------------
(***************************************************************************)
(* HostMoe on two layers of three interchangeable experts.                 *)
(***************************************************************************)
EXTENDS HostMoe, TLC

Symmetry == Permutations(Experts)
=============================================================================
