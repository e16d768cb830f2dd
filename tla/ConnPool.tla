------------------------------ MODULE ConnPool ------------------------------
(***************************************************************************)
(* The pool of TCP connections to the upstream servers: internal/pool,     *)
(* files pool.go and upstream_pool.go.                                     *)
(*                                                                         *)
(* Any number of goroutines (Procs) call AcquireUpstreamConnection,        *)
(* ReleaseUpstreamConnection and CloseAndDropUpstreamConnection.  A step   *)
(* of this module is one access to the state the goroutines share: a       *)
(* critical section of cp.mu, one atomic operation on cp.count, the call   *)
(* of dial, the Close of a socket.                                         *)
(***************************************************************************)
EXTENDS Integers, Sequences, FiniteSets

CONSTANTS
    Procs,              \* the goroutines that serve requests
    Addrs,              \* the upstream addresses, keys of upstreamPool
    Conns,              \* identities of net.Conn objects; reused once closed
    NoConn,             \* nil
    DefaultMaxConns,    \* initial value of maxUpstreamConnectionsPerHost
    LimitArgs,          \* arguments MaxConnectionsPerHost is called with
    TopLimit,           \* an upper bound of the limits in force
    HalfInt32,          \* 2^31: an int32 ranges over -HalfInt32 .. HalfInt32-1
    DefaultIdleTimeout, \* initial value of idleTimeout, in seconds
    IdleArgs,           \* arguments IdleTimeout is called with, in seconds
    MaxTime,            \* bound on the clock
    MayForget           \* may a caller end without giving a connection back

ASSUME PoolAssumption ==
    /\ IsFiniteSet(Procs) /\ Procs # {}
    /\ NoConn \notin Conns
    /\ TopLimit \in Nat /\ HalfInt32 \in Nat
    /\ DefaultMaxConns \in 1..TopLimit
    /\ LimitArgs \subseteq Int /\ \A n \in LimitArgs : n <= TopLimit
    /\ DefaultIdleTimeout \in Nat \ {0} /\ IdleArgs \subseteq Int
    /\ MaxTime \in Nat
    /\ MayForget \in BOOLEAN

VARIABLES
    maxConns,     \* maxUpstreamConnectionsPerHost
    idleTimeout,  \* idleTimeout
    count,        \* cp.count of every address
    free,         \* cp.free of every address, a stack whose top is its last element
    open,         \* for every address, the sockets that are open to it
    pc,           \* where each goroutine is in a call of the pool
    addr,         \* the address of that call
    conn,         \* the connection that the call, or its caller, holds
    stamp,        \* returnedAt of the idle connection just popped
    now           \* time.Now, in seconds

settings == <<maxConns, idleTimeout>>
locals == <<pc, addr, conn, stamp>>
poolVars == <<maxConns, idleTimeout, count, free, open, pc, addr, conn, stamp, now>>

(***************************************************************************)
(* Control states of a goroutine.                                          *)
(*   "out"      in no call and holding no connection                       *)
(*   "check"    has popped an idle connection, its age is not yet tested   *)
(*   "undo"     has closed a stale connection, count is not yet lowered    *)
(*   "limit"    about to compare count with the limit, in dialNew          *)
(*   "reserve"  found count below the limit, about to raise it             *)
(*   "dial"     has raised count and waits for dial                        *)
(*   "held"     Acquire has returned a connection, the caller uses it      *)
(*   "evict"    Release found the pool full: count lowered, Close pending, *)
(*              cp.mu still locked                                         *)
(*   "close"    CloseAndDrop has lowered count and unlocked, Close pending *)
(***************************************************************************)
Labels == {"out", "check", "undo", "limit", "reserve", "dial", "held", "evict", "close"}

\* The states in which a goroutine is responsible for an open connection.
Owning == {"check", "held", "evict", "close"}

IdleConn == [conn : Conns, returnedAt : Nat]

\* The conversion int32(n) of dialNew, for n below 3 * HalfInt32.
Int32(n) == IF n < HalfInt32 THEN n ELSE n - 2 * HalfInt32

\* cp.mu stays locked from one step to the next only in the branch of Release that
\* closes a connection under the lock.
Locked(a) == \E p \in Procs : pc[p] = "evict" /\ addr[p] = a

Init ==
    /\ maxConns = DefaultMaxConns
    /\ idleTimeout = DefaultIdleTimeout
    /\ count = [a \in Addrs |-> 0]
    /\ free = [a \in Addrs |-> <<>>]
    /\ open = [a \in Addrs |-> {}]
    /\ pc = [p \in Procs |-> "out"]
    /\ addr \in [Procs -> Addrs]
    /\ conn = [p \in Procs |-> NoConn]
    /\ stamp = [p \in Procs |-> 0]
    /\ now = 0

-----------------------------------------------------------------------------
(* AcquireUpstreamConnection *)

\* Goroutine p goes from one place to another and changes nothing else.
Goto(p, from, to) ==
    /\ pc[p] = from
    /\ pc' = [pc EXCEPT ![p] = to]
    /\ UNCHANGED <<settings, count, free, open, addr, conn, stamp, now>>

\* Under cp.mu, an idle connection is there: take the last one and leave the stack as rest.
TakeTop(p, a, rest) ==
    /\ pc[p] = "out"
    /\ ~Locked(a)
    /\ free[a] # <<>>
    /\ free' = [free EXCEPT ![a] = rest]
    /\ conn' = [conn EXCEPT ![p] = free[a][Len(free[a])].conn]
    /\ stamp' = [stamp EXCEPT ![p] = free[a][Len(free[a])].returnedAt]
    /\ addr' = [addr EXCEPT ![p] = a]
    /\ pc' = [pc EXCEPT ![p] = "check"]
    /\ UNCHANGED <<settings, count, open, now>>

\* Mutant: the idle connection is read but not removed.
AcquirePeek(p, a) == TakeTop(p, a, free[a])

AcquirePop(p, a) == TakeTop(p, a, SubSeq(free[a], 1, Len(free[a]) - 1))

\* Under cp.mu, no idle connection: go to dialNew.
AcquireEmpty(p, a) ==
    /\ pc[p] = "out"
    /\ ~Locked(a)
    /\ free[a] = <<>>
    /\ addr' = [addr EXCEPT ![p] = a]
    /\ pc' = [pc EXCEPT ![p] = "limit"]
    /\ UNCHANGED <<settings, count, free, open, conn, stamp, now>>

\* The popped connection has not been idle for too long: Acquire returns it.
KeepFresh(p) ==
    /\ pc[p] = "check"
    /\ now - stamp[p] <= idleTimeout
    /\ pc' = [pc EXCEPT ![p] = "held"]
    /\ stamp' = [stamp EXCEPT ![p] = 0]
    /\ UNCHANGED <<settings, count, free, open, addr, conn, now>>

\* It has: close it.  An error of Close is only counted and logged.
DropStale(p) ==
    /\ pc[p] = "check"
    /\ now - stamp[p] > idleTimeout
    /\ open' = [open EXCEPT ![addr[p]] = @ \ {conn[p]}]
    /\ conn' = [conn EXCEPT ![p] = NoConn]
    /\ stamp' = [stamp EXCEPT ![p] = 0]
    /\ pc' = [pc EXCEPT ![p] = "undo"]
    /\ UNCHANGED <<settings, count, free, addr, now>>

\* An atomic operation that adds d to count.
AddCount(p, from, to, d) ==
    /\ pc[p] = from
    /\ count' = [count EXCEPT ![addr[p]] = @ + d]
    /\ pc' = [pc EXCEPT ![p] = to]
    /\ UNCHANGED <<settings, free, open, addr, conn, stamp, now>>

\* Mutant: the slot of the stale connection is not given back.
UndoCountMissing(p) == Goto(p, "undo", "limit")

\* ... and give its slot back, then dial a new one.
UndoCount(p) == AddCount(p, "undo", "limit", -1)

\* dialNew: the pool is full, Acquire returns ErrDialTimeout.
LimitReject(p) == count[addr[p]] >= Int32(maxConns) /\ Goto(p, "limit", "out")

\* Mutant: the comparison with the limit admits one too many.
LimitPassOffByOne(p) == count[addr[p]] <= Int32(maxConns) /\ Goto(p, "limit", "reserve")

LimitPass(p) == count[addr[p]] < Int32(maxConns) /\ Goto(p, "limit", "reserve")

Reserve(p) == AddCount(p, "reserve", "dial", 1)

\* dial returned a new connection c, and so does Acquire.
DialOk(p, c) ==
    /\ pc[p] = "dial"
    /\ \A a \in Addrs : c \notin open[a]
    /\ open' = [open EXCEPT ![addr[p]] = @ \union {c}]
    /\ conn' = [conn EXCEPT ![p] = c]
    /\ pc' = [pc EXCEPT ![p] = "held"]
    /\ UNCHANGED <<settings, count, free, addr, stamp, now>>

\* dial failed: the slot is given back and Acquire returns the error.
DialFail(p) == AddCount(p, "dial", "out", -1)

-----------------------------------------------------------------------------
(* ReleaseUpstreamConnection(a, c) and CloseAndDropUpstreamConnection(a, c), *)
(* called by goroutine p.  The pool does not test that c is in use: that is  *)
(* the callers' duty, stated in Next.                                        *)

\* Release with room in the pool: the idle stack becomes s.
PutIdle(p, a, s) ==
    /\ pc[p] \in {"out", "held"}
    /\ ~Locked(a)
    /\ Len(free[a]) < maxConns
    /\ free' = [free EXCEPT ![a] = s]
    /\ conn' = [conn EXCEPT ![p] = NoConn]
    /\ pc' = [pc EXCEPT ![p] = "out"]
    /\ UNCHANGED <<settings, count, open, addr, stamp, now>>

\* Mutant: the connection is put at the bottom of the idle stack.
ReleasePutBottom(p, a, c) == PutIdle(p, a, <<[conn |-> c, returnedAt |-> now]>> \o free[a])

\* c becomes the top of the idle stack.
ReleasePut(p, a, c) == PutIdle(p, a, Append(free[a], [conn |-> c, returnedAt |-> now]))

\* First half of a close, under cp.mu: d is added to count and p goes on to close c.
Uncount(p, a, c, d, to) ==
    /\ pc[p] \in {"out", "held"}
    /\ ~Locked(a)
    /\ count' = [count EXCEPT ![a] = @ + d]
    /\ addr' = [addr EXCEPT ![p] = a]
    /\ conn' = [conn EXCEPT ![p] = c]
    /\ pc' = [pc EXCEPT ![p] = to]
    /\ UNCHANGED <<settings, open, stamp, now>>

\* Mutant: the branch of a full pool does not return, and goes on to the append.
ReleaseEvictFallThrough(p, a, c) ==
    /\ Len(free[a]) >= maxConns
    /\ Uncount(p, a, c, -1, "evict")
    /\ free' = [free EXCEPT ![a] = Append(@, [conn |-> c, returnedAt |-> now])]

\* Release with the pool full: cp.mu stays locked.
ReleaseEvict(p, a, c) == Len(free[a]) >= maxConns /\ Uncount(p, a, c, -1, "evict") /\ UNCHANGED free

\* Mutant: CloseAndDrop only closes.
DropNoDecrement(p, a, c) == Uncount(p, a, c, 0, "close") /\ UNCHANGED free

\* CloseAndDrop.
Drop(p, a, c) == Uncount(p, a, c, -1, "close") /\ UNCHANGED free

\* p lets go of its connection and leaves the sockets o open.
LetGo(p, o) ==
    /\ open' = o
    /\ conn' = [conn EXCEPT ![p] = NoConn]
    /\ pc' = [pc EXCEPT ![p] = "out"]
    /\ UNCHANGED <<settings, count, free, addr, stamp, now>>

CloseSocket(p) == LetGo(p, [open EXCEPT ![addr[p]] = @ \ {conn[p]}])

\* Mutant: a full pool uncounts the connection without closing it.
EvictNoClose(p) == pc[p] = "evict" /\ LetGo(p, open)

\* Release, second half: Close, then the deferred Unlock.
EvictClose(p) == pc[p] = "evict" /\ CloseSocket(p)

\* CloseAndDrop, second half: the deferred Close runs after the Unlock.
DropClose(p) == pc[p] = "close" /\ CloseSocket(p)

-----------------------------------------------------------------------------
(* The callers and the settings. *)

\* A caller ends without calling Release or CloseAndDrop.  The socket stays open and
\* counted, and nobody refers to it any more.
Forget(p) == MayForget /\ pc[p] = "held" /\ LetGo(p, open)

\* Mutant: a limit below 1 is not refused.
AnyLimit(n) == n

\* MaxConnectionsPerHost ignores a limit below 1.
LimitOf(n) == IF n < 1 THEN maxConns ELSE n

MaxConnectionsPerHost(n) ==
    /\ maxConns' = LimitOf(n)
    /\ UNCHANGED <<idleTimeout, count, free, open, locals, now>>

IdleTimeout(d) ==
    /\ idleTimeout' = IF d < 1 THEN idleTimeout ELSE d
    /\ UNCHANGED <<maxConns, count, free, open, locals, now>>

Tick ==
    /\ now < MaxTime
    /\ now' = now + 1
    /\ UNCHANGED <<settings, count, free, open, locals>>

\* A step of goroutine p inside a call of the pool.
PoolStep(p) ==
    \/ KeepFresh(p) \/ DropStale(p) \/ UndoCount(p)
    \/ LimitReject(p) \/ LimitPass(p) \/ Reserve(p)
    \/ \E c \in Conns : DialOk(p, c)
    \/ DialFail(p)
    \/ EvictClose(p) \/ DropClose(p)

Acquire(p) == \E a \in Addrs : AcquirePop(p, a) \/ AcquireEmpty(p, a)

\* A caller gives back the connection it holds, once, under the address it asked for.
GiveBack(p) ==
    /\ pc[p] = "held"
    /\ \/ ReleasePut(p, addr[p], conn[p])
       \/ ReleaseEvict(p, addr[p], conn[p])
       \/ Drop(p, addr[p], conn[p])

Next ==
    \/ \E p \in Procs : PoolStep(p) \/ Acquire(p) \/ GiveBack(p) \/ Forget(p)
    \/ \E n \in LimitArgs : MaxConnectionsPerHost(n)
    \/ \E d \in IdleArgs : IdleTimeout(d)
    \/ Tick

Spec == Init /\ [][Next]_poolVars

-----------------------------------------------------------------------------
(* Properties. *)

\* The goroutines at one of the labels L in a call for address a.
At(L, a) == {p \in Procs : pc[p] \in L /\ addr[p] = a}

\* The sockets to a that some goroutine has already uncounted and has yet to close.
Closing(a) == {conn[p] : p \in At({"evict", "close"}, a)}

\* The connections in the idle stack of a.
Idle(a) == {free[a][i].conn : i \in DOMAIN free[a]}

\* Every variable has its type.  cp.count is an integer here: that it never becomes
\* negative is a consequence of CountExact.
TypeOK ==
    /\ maxConns \in 1..TopLimit
    /\ idleTimeout \in Nat \ {0}
    /\ count \in [Addrs -> Int]
    /\ free \in [Addrs -> Seq(IdleConn)]
    /\ open \in [Addrs -> SUBSET Conns]
    /\ pc \in [Procs -> Labels]
    /\ addr \in [Procs -> Addrs]
    /\ conn \in [Procs -> Conns \union {NoConn}]
    /\ stamp \in [Procs -> Nat]
    /\ now \in Nat

\* Exclusive use: a goroutine that is responsible for a connection has an open socket
\* to the address it asked for, and no other goroutine has the same one.
OwnedOnce ==
    \A p \in Procs :
        /\ pc[p] \in Owning => conn[p] \in open[addr[p]]
        /\ \A q \in Procs : p # q /\ {pc[p], pc[q]} \subseteq Owning => conn[p] # conn[q]

\* No connection is in the idle stack of a twice.
NoTwice(a) == \A i, j \in DOMAIN free[a] : i # j => free[a][i].conn # free[a][j].conn

\* The idle stack of a holds open sockets to a, each once, and none that a goroutine
\* is responsible for: AcquireUpstreamConnection never hands out a connection that was
\* closed, that is in use, or that leads to another host.
IdleUnowned ==
    \A a \in Addrs :
        /\ Idle(a) \subseteq open[a]
        /\ NoTwice(a)
        /\ \A p \in Procs : pc[p] \in Owning => conn[p] \notin Idle(a)

\* A socket leads to one host.
OneHost == \A a, b \in Addrs : a # b => open[a] \intersect open[b] = {}

\* The counter of a host is exact: it is the number of sockets to it that nobody has
\* begun to close, plus the slots of the dials under way and of the stale connections
\* that Acquire has closed and not yet uncounted.  No slot is ever lost or returned
\* twice, whatever the interleaving of the atomic operations with the lock.
CountExact ==
    \A a \in Addrs :
        count[a] = Cardinality(open[a] \ Closing(a)) + Cardinality(At({"dial", "undo"}, a))

\* dialNew compares and increments in two steps, so goroutines that compared before the
\* others incremented exceed the limit together: by at most one less than their number.
OvershootBound ==
    \A a \in Addrs :
        count[a] + Cardinality(At({"reserve"}, a)) <= TopLimit + Cardinality(Procs) - 1

\* The same bound for the descriptors: the open sockets to one host, those that are
\* uncounted but not yet closed included, and those about to be dialled.
SocketBound ==
    \A a \in Addrs :
        Cardinality(open[a]) + Cardinality(At({"reserve", "dial"}, a))
            <= TopLimit + Cardinality(Procs) - 1

\* The idle stack is ordered by age, the most recently used connection on top: when the
\* top is too old to be used, so are all the others, and Acquire need not look at them.
FreshestOnTop ==
    \A a \in Addrs : \A i \in DOMAIN free[a] :
        /\ free[a][i].returnedAt <= now
        /\ \A j \in DOMAIN free[a] :
               i <= j => free[a][i].returnedAt <= free[a][j].returnedAt

\* When every caller gives back what it acquired, a host does not stay exhausted: again
\* and again there is an idle connection to it or room to dial one.
CapacityReturns ==
    \A a \in Addrs : []<>(free[a] # <<>> \/ count[a] < Int32(maxConns))
=============================================================================
