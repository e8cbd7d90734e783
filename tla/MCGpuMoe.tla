------------------------------ MODULE MCGpuMoe ------------------------------
(***************************************************************************)
(* GpuMoe with interchangeable experts.                                    *)
(***************************************************************************)
EXTENDS GpuMoe, TLC

Symmetry == Permutations(Experts)
=============================================================================
