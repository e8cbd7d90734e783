--------------------------- MODULE MCLruAdmitBlock ---------------------------
(***************************************************************************)
(* LruAdmitBlock on one step of two sequences that share an expert.        *)
(***************************************************************************)
EXTENDS LruAdmitBlock

SharedExpert == {<<1, 2, 3, 1, 4, 5>>}
=============================================================================
