---------------------------- MODULE MCUpstreams -----------------------------
(***************************************************************************)
(* Instances of Upstreams for TLC.  Two spellings of one address, and two  *)
(* other addresses, of which one is not in the configured list.            *)
(***************************************************************************)
EXTENDS Upstreams, TLC

MCNames == {"a", "http://a", "http://b", "http://c"}
MCSchemed == [x \in MCNames |-> IF x = "a" THEN "http://a" ELSE x]

\* config.go gives the configured addresses their scheme.
MCLists == {<<>>, <<"http://a", "http://c">>}
NoLists == {<<>>}

Symmetry == Permutations(Procs)
=============================================================================
