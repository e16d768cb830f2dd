----------------------------- MODULE MCConnPool -----------------------------
(***************************************************************************)
(* Instances of ConnPool for TLC.                                          *)
(***************************************************************************)
EXTENDS ConnPoolLease, TLC

\* Goroutines, connections and hosts are interchangeable; safety runs only.
Symmetry == Permutations(Procs) \union Permutations(Conns) \union Permutations(Addrs)
=============================================================================
