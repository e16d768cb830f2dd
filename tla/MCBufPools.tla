----------------------------- MODULE MCBufPools -----------------------------
(***************************************************************************)
(* Instances of BufPools for TLC.                                          *)
(***************************************************************************)
EXTENDS BufPools, TLC

Symmetry == Permutations(Procs)
=============================================================================
