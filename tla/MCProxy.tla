------------------------------ MODULE MCProxy -------------------------------
(***************************************************************************)
(* Instances of Proxy for TLC.                                             *)
(***************************************************************************)
EXTENDS Proxy, TLC

\* Goroutines, connections and hosts are interchangeable; safety runs only.
Symmetry == Permutations(Procs) \union Permutations(Conns) \union Permutations(Addrs)
=============================================================================
