---------------------------- MODULE ConnPoolLease ---------------------------
(***************************************************************************)
(* ConnPool implements ConnLease.  A connection that Acquire has popped    *)
(* and not yet examined still counts as waiting: it is leased when Acquire *)
(* finds it fresh and expires when Acquire finds it stale.  A connection   *)
(* that Release or CloseAndDrop is about to close is already discarded.    *)
(***************************************************************************)
EXTENDS ConnPool

LeaseOf(p) == IF pc[p] = "held" THEN [host |-> addr[p], conn |-> conn[p]]
                                ELSE [host |-> NoConn, conn |-> NoConn]

WaitingAt(a) == Idle(a) \union {conn[p] : p \in At({"check"}, a)}

Orphans == {c \in Conns : /\ \E a \in Addrs : c \in open[a] \ Idle(a)
                          /\ \A p \in Procs : pc[p] \in Owning => conn[p] # c}

Lease == INSTANCE ConnLease WITH
             idle  <- [a \in Addrs |-> WaitingAt(a)],
             lease <- [p \in Procs |-> LeaseOf(p)],
             lost  <- Orphans

\* The pool's locks, atomic counters and idle stacks implement exclusive leases: no
\* interleaving of Acquire, Release and CloseAndDrop hands a connection to two goroutines,
\* to the wrong host, or back to the pool twice.
ImplementsLease == Lease!LeaseSpec
=============================================================================
