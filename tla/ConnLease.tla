----------------------------- MODULE ConnLease ------------------------------
(***************************************************************************)
(* What the connection pool promises to its callers, without the lock, the *)
(* counter, the stack and the clock: a connection is leased to one         *)
(* goroutine at a time, for the host it leads to, and comes back at most   *)
(* once per lease.                                                         *)
(***************************************************************************)
CONSTANTS Procs, Addrs, Conns, NoConn

VARIABLES
    idle,   \* for every host, the connections to it that wait for reuse
    lease,  \* for every goroutine, the host and the connection it may use
    lost    \* the connections whose user went away without giving them back

vars == <<idle, lease, lost>>

NoLease == [host |-> NoConn, conn |-> NoConn]

Leased == {lease[p].conn : p \in Procs} \ {NoConn}

LeaseInit ==
    /\ idle = [a \in Addrs |-> {}]
    /\ lease = [p \in Procs |-> NoLease]
    /\ lost = {}

\* The goroutine gets a waiting connection to the host, ...
Reuse(p, a, c) ==
    /\ lease[p] = NoLease
    /\ c \in idle[a]
    /\ idle' = [idle EXCEPT ![a] = @ \ {c}]
    /\ lease' = [lease EXCEPT ![p] = [host |-> a, conn |-> c]]
    /\ lost' = lost

\* ... or one that is used nowhere.
Connect(p, a, c) ==
    /\ lease[p] = NoLease
    /\ c \notin Leased \union lost
    /\ \A b \in Addrs : c \notin idle[b]
    /\ lease' = [lease EXCEPT ![p] = [host |-> a, conn |-> c]]
    /\ UNCHANGED <<idle, lost>>

\* It gives the connection back for reuse by the same host's requests, ...
Return(p) ==
    /\ lease[p] # NoLease
    /\ idle' = [idle EXCEPT ![lease[p].host] = @ \union {lease[p].conn}]
    /\ lease' = [lease EXCEPT ![p] = NoLease]
    /\ lost' = lost

\* ... has it closed, ...
Discard(p) ==
    /\ lease[p] # NoLease
    /\ lease' = [lease EXCEPT ![p] = NoLease]
    /\ UNCHANGED <<idle, lost>>

\* ... or goes away with it.
Abandon(p) ==
    /\ lease[p] # NoLease
    /\ lost' = lost \union {lease[p].conn}
    /\ lease' = [lease EXCEPT ![p] = NoLease]
    /\ idle' = idle

\* A waiting connection is closed.
Expire(a, c) ==
    /\ c \in idle[a]
    /\ idle' = [idle EXCEPT ![a] = @ \ {c}]
    /\ UNCHANGED <<lease, lost>>

LeaseNext ==
    \/ \E p \in Procs : Return(p) \/ Discard(p) \/ Abandon(p)
    \/ \E a \in Addrs, c \in Conns :
          \/ Expire(a, c)
          \/ \E p \in Procs : Reuse(p, a, c) \/ Connect(p, a, c)

LeaseSpec == LeaseInit /\ [][LeaseNext]_vars
=============================================================================
