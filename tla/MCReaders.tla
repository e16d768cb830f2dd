----------------------------- MODULE MCReaders ------------------------------
(***************************************************************************)
(* Instances of Readers for TLC.                                           *)
(***************************************************************************)
EXTENDS Readers, TLC

Symmetry == Permutations(Procs) \union Permutations(Conns) \union Permutations(Bufs)
=============================================================================
