------------------------ MODULE ConnPoolLeaseProofs -------------------------
(***************************************************************************)
(* ConnPool implements ConnLease, for any number of goroutines, hosts and  *)
(* connections: under the mapping of ConnPoolLease every step of the pool  *)
(* is a step of the leases or leaves them alone.  The argument needs the   *)
(* ownership part of the pool's invariant, without which a popped          *)
(* connection could be in a second stack or in another goroutine's hands.  *)
(***************************************************************************)
EXTENDS ConnPoolLease, ConnPoolProofs

-----------------------------------------------------------------------------
(* The mapped state. *)

\* A goroutine has a lease exactly when it holds a connection.
LEMMA HasLease ==
    ASSUME Ownership, NEW p \in Procs
    PROVE  /\ LeaseOf(p) = Lease!NoLease <=> pc[p] # "held"
           /\ pc[p] = "held" => /\ LeaseOf(p).host = addr[p] /\ LeaseOf(p).conn = conn[p]
                                /\ conn[p] \in Conns /\ addr[p] \in Addrs
<1>1. pc[p] = "held" => conn[p] \in Conns /\ addr[p] \in Addrs
  BY DEF Ownership, TypeOK, OwnedOnce, Owning
<1>2. NoConn \notin Conns BY PoolAssumption DEF PoolAssumption
<1>3. LeaseOf(p).conn = IF pc[p] = "held" THEN conn[p] ELSE NoConn BY DEF LeaseOf
<1>4. Lease!NoLease.conn = NoConn BY DEF Lease!NoLease
<1>5. pc[p] = "held" => LeaseOf(p) # Lease!NoLease BY <1>1, <1>2, <1>3, <1>4
<1>6. pc[p] # "held" => LeaseOf(p) = Lease!NoLease BY DEF LeaseOf, Lease!NoLease
<1>7. pc[p] = "held" => LeaseOf(p).host = addr[p] /\ LeaseOf(p).conn = conn[p] BY DEF LeaseOf
<1> QED BY <1>1, <1>5, <1>6, <1>7

\* The members of the waiting set.
LEMMA WaitingMember ==
    ASSUME NEW a \in Addrs, NEW c
    PROVE  c \in WaitingAt(a) <=> c \in Idle(a) \/ \E q \in Procs : pc[q] = "check" /\ addr[q] = a /\ conn[q] = c
BY DEF WaitingAt, At

\* A step that leaves the stacks and the popped connections alone leaves the waiting sets alone.
LEMMA WaitingSame ==
    ASSUME free' = free,
           \A q \in Procs : /\ pc'[q] = "check" <=> pc[q] = "check"
                            /\ pc[q] = "check" => addr'[q] = addr[q] /\ conn'[q] = conn[q]
    PROVE  \A a \in Addrs : WaitingAt(a)' = WaitingAt(a)
<1>1. \A a \in Addrs : Idle(a)' = Idle(a) BY IdleSame
<1>2. \A a \in Addrs : At({"check"}, a)' = At({"check"}, a) BY DEF At
<1>3. \A a \in Addrs : \A q \in At({"check"}, a) : conn'[q] = conn[q] BY DEF At
<1> QED BY <1>1, <1>2, <1>3 DEF WaitingAt

\* A step that leaves the stacks, the sockets and the owned connections alone orphans nothing.
LEMMA OrphansSame ==
    ASSUME free' = free, open' = open,
           \A q \in Procs : /\ pc'[q] \in Owning <=> pc[q] \in Owning
                            /\ pc[q] \in Owning => conn'[q] = conn[q]
    PROVE  Orphans' = Orphans
<1>1. \A a \in Addrs : Idle(a)' = Idle(a) BY IdleSame
<1> QED BY <1>1 DEF Orphans

\* A goroutine that closes its connection and lets go of it orphans nothing.
LEMMA OrphansClosed ==
    ASSUME Ownership, NEW p \in Procs, pc[p] \in Owning, pc'[p] \notin Owning,
           free' = free, open' = [open EXCEPT ![addr[p]] = @ \ {conn[p]}],
           \A q \in Procs \ {p} : pc'[q] = pc[q] /\ conn'[q] = conn[q]
    PROVE  Orphans' = Orphans
<1> DEFINE c == conn[p]
<1>1. open \in [Addrs -> SUBSET Conns] /\ addr[p] \in Addrs /\ c \in open[addr[p]] /\ OneHost
  BY DEF Ownership, TypeOK, OwnedOnce
<1> HIDE DEF c
<1>2. \A b \in Addrs : c \notin open'[b] BY <1>1 DEF OneHost, c
<1>3. \A b \in Addrs : Idle(b)' = Idle(b) BY IdleSame
<1> SUFFICES ASSUME NEW x \in Conns PROVE (x \in Orphans)' <=> x \in Orphans BY DEF Orphans
<1>4. CASE x = c BY <1>2, <1>4 DEF Orphans, c
<1>5. CASE x # c
  <2>1. \A b \in Addrs : x \in open'[b] <=> x \in open[b] BY <1>1, <1>5 DEF c
  <2>2. \A q \in Procs : pc'[q] \in Owning /\ conn'[q] = x <=> pc[q] \in Owning /\ conn[q] = x
    BY <1>5 DEF c
  <2> QED BY <1>3, <2>1, <2>2 DEF Orphans
<1> QED BY <1>4, <1>5

-----------------------------------------------------------------------------
(* What the mapped state must do in each kind of step of the leases. *)

\* Nothing.
LEMMA AsStutter ==
    ASSUME \A a \in Addrs : WaitingAt(a)' = WaitingAt(a),
           \A q \in Procs : LeaseOf(q)' = LeaseOf(q),
           Orphans' = Orphans
    PROVE  UNCHANGED Lease!vars
BY DEF Lease!vars

\* Acquire leases a waiting connection.
LEMMA AsReuse ==
    ASSUME NEW p \in Procs, NEW a \in Addrs, NEW c \in Conns,
           LeaseOf(p) = Lease!NoLease, c \in WaitingAt(a),
           WaitingAt(a)' = WaitingAt(a) \ {c},
           \A b \in Addrs \ {a} : WaitingAt(b)' = WaitingAt(b),
           LeaseOf(p)' = [host |-> a, conn |-> c],
           \A q \in Procs \ {p} : LeaseOf(q)' = LeaseOf(q),
           Orphans' = Orphans
    PROVE  Lease!LeaseNext
<1>1. Lease!Reuse(p, a, c) BY DEF Lease!Reuse
<1> QED BY <1>1 DEF Lease!LeaseNext

\* Acquire leases a new connection.
LEMMA AsConnect ==
    ASSUME NEW p \in Procs, NEW a \in Addrs, NEW c \in Conns,
           LeaseOf(p) = Lease!NoLease,
           \A q \in Procs : LeaseOf(q).conn # c, c \notin Orphans,
           \A b \in Addrs : c \notin WaitingAt(b) /\ WaitingAt(b)' = WaitingAt(b),
           LeaseOf(p)' = [host |-> a, conn |-> c],
           \A q \in Procs \ {p} : LeaseOf(q)' = LeaseOf(q),
           Orphans' = Orphans
    PROVE  Lease!LeaseNext
<1>1. c \notin Lease!Leased BY DEF Lease!Leased
<1>2. Lease!Connect(p, a, c) BY <1>1 DEF Lease!Connect
<1> QED BY <1>2 DEF Lease!LeaseNext

\* Release ends a lease and the connection waits.
LEMMA AsReturn ==
    ASSUME NEW p \in Procs, NEW a \in Addrs, NEW c,
           LeaseOf(p) # Lease!NoLease, LeaseOf(p).host = a, LeaseOf(p).conn = c,
           WaitingAt(a)' = WaitingAt(a) \union {c},
           \A b \in Addrs \ {a} : WaitingAt(b)' = WaitingAt(b),
           LeaseOf(p)' = Lease!NoLease,
           \A q \in Procs \ {p} : LeaseOf(q)' = LeaseOf(q),
           Orphans' = Orphans
    PROVE  Lease!LeaseNext
<1>1. [q \in Procs |-> LeaseOf(q)]' = [[q \in Procs |-> LeaseOf(q)] EXCEPT ![p] = Lease!NoLease]
  BY DEF Lease!NoLease
<1>2. [b \in Addrs |-> WaitingAt(b)]' = [[b \in Addrs |-> WaitingAt(b)] EXCEPT ![a] = @ \union {c}]
  OBVIOUS
<1>3. Lease!Return(p) BY <1>1, <1>2 DEF Lease!Return
<1> QED BY <1>3 DEF Lease!LeaseNext

\* Release on a full pool, or CloseAndDrop, ends a lease for good.
LEMMA AsDiscard ==
    ASSUME NEW p \in Procs, LeaseOf(p) # Lease!NoLease,
           \A b \in Addrs : WaitingAt(b)' = WaitingAt(b),
           LeaseOf(p)' = Lease!NoLease,
           \A q \in Procs \ {p} : LeaseOf(q)' = LeaseOf(q),
           Orphans' = Orphans
    PROVE  Lease!LeaseNext
<1>1. [q \in Procs |-> LeaseOf(q)]' = [[q \in Procs |-> LeaseOf(q)] EXCEPT ![p] = Lease!NoLease]
  BY DEF Lease!NoLease
<1>2. Lease!Discard(p) BY <1>1 DEF Lease!Discard
<1> QED BY <1>2 DEF Lease!LeaseNext

\* A caller goes away with its connection.
LEMMA AsAbandon ==
    ASSUME NEW p \in Procs, LeaseOf(p) # Lease!NoLease,
           \A b \in Addrs : WaitingAt(b)' = WaitingAt(b),
           LeaseOf(p)' = Lease!NoLease,
           \A q \in Procs \ {p} : LeaseOf(q)' = LeaseOf(q),
           Orphans' = Orphans \union {LeaseOf(p).conn}
    PROVE  Lease!LeaseNext
<1>1. [q \in Procs |-> LeaseOf(q)]' = [[q \in Procs |-> LeaseOf(q)] EXCEPT ![p] = Lease!NoLease]
  BY DEF Lease!NoLease
<1>2. Lease!Abandon(p) BY <1>1 DEF Lease!Abandon
<1> QED BY <1>2 DEF Lease!LeaseNext

\* Acquire closes a stale connection.
LEMMA AsExpire ==
    ASSUME NEW a \in Addrs, NEW c \in Conns, c \in WaitingAt(a),
           WaitingAt(a)' = WaitingAt(a) \ {c},
           \A b \in Addrs \ {a} : WaitingAt(b)' = WaitingAt(b),
           \A q \in Procs : LeaseOf(q)' = LeaseOf(q),
           Orphans' = Orphans
    PROVE  Lease!LeaseNext
<1>1. Lease!Expire(a, c) BY DEF Lease!Expire
<1> QED BY <1>1 DEF Lease!LeaseNext

-----------------------------------------------------------------------------
(* Every step of the pool. *)

\* The pool starts with nothing waiting, leased or lost.
LEMMA LeaseStart == Init => Lease!LeaseInit
<1> SUFFICES ASSUME Init PROVE Lease!LeaseInit OBVIOUS
<1> USE DEF Init
<1>1. \A a \in Addrs : Idle(a) = {}
  <2>1. DOMAIN <<>> = {} OBVIOUS
  <2> QED BY <2>1 DEF Idle
<1>2. \A a \in Addrs : At({"check"}, a) = {} BY DEF At
<1>3. \A a \in Addrs : WaitingAt(a) = {} BY <1>1, <1>2 DEF WaitingAt
<1>4. \A p \in Procs : LeaseOf(p) = Lease!NoLease BY DEF LeaseOf, Lease!NoLease
<1>5. Orphans = {} BY DEF Orphans
<1> QED BY <1>3, <1>4, <1>5 DEF Lease!LeaseInit

\* A step of goroutine p is a step of the leases or leaves them alone.
LEMMA LeaseStep ==
    ASSUME Ownership, Ownership', NEW p \in Procs, Step(p)
    PROVE  Lease!LeaseNext \/ UNCHANGED Lease!vars
<1> USE DEF Labels, settings, locals
<1>0. /\ pc \in [Procs -> Labels] /\ conn \in [Procs -> Conns \union {NoConn}]
      /\ addr \in [Procs -> Addrs] /\ open \in [Addrs -> SUBSET Conns] /\ TypeOK
      /\ OwnedOnce /\ IdleUnowned /\ OneHost
  BY DEF Ownership, TypeOK
\* The calls that have no connection yet.
<1>1. CASE \/ UndoCount(p) \/ LimitReject(p) \/ LimitPass(p) \/ Reserve(p) \/ DialFail(p)
           \/ \E a \in Addrs : AcquireEmpty(p, a)
  <2>1. /\ free' = free /\ open' = open /\ conn' = conn
        /\ pc[p] \in {"out", "undo", "limit", "reserve", "dial"}
        /\ pc'[p] \in {"out", "undo", "limit", "reserve", "dial"}
        /\ \A q \in Procs \ {p} : pc'[q] = pc[q] /\ addr'[q] = addr[q]
    BY <1>0, <1>1 DEF UndoCount, LimitReject, LimitPass, Reserve, DialFail, AcquireEmpty, AddCount, Goto
  <2>2. \A a \in Addrs : WaitingAt(a)' = WaitingAt(a) BY <2>1, WaitingSame
  <2>3. Orphans' = Orphans BY <2>1, OrphansSame DEF Owning
  <2>4. \A q \in Procs : LeaseOf(q)' = LeaseOf(q) BY <2>1 DEF LeaseOf
  <2> QED BY <2>2, <2>3, <2>4, AsStutter
\* Acquire pops a connection, which goes on waiting until its age is known.
<1>2. CASE \E a \in Addrs : AcquirePop(p, a)
  <2>1. PICK a \in Addrs : AcquirePop(p, a) BY <1>2
  <2> DEFINE c == free[a][Len(free[a])].conn
  <2>2. /\ free[a] # <<>> /\ open' = open /\ pc[p] = "out"
        /\ free' = [free EXCEPT ![a] = SubSeq(free[a], 1, Len(free[a]) - 1)]
        /\ conn'[p] = c /\ addr'[p] = a /\ pc'[p] = "check"
        /\ \A q \in Procs \ {p} : pc'[q] = pc[q] /\ conn'[q] = conn[q] /\ addr'[q] = addr[q]
    BY <1>0, <2>1 DEF AcquirePop, TakeTop
  <2>3. NoTwice(a) BY <1>0 DEF IdleUnowned
  <2>4. /\ c \in Idle(a) /\ Idle(a)' = Idle(a) \ {c}
        /\ \A b \in Addrs \ {a} : Idle(b)' = Idle(b)
    BY <1>0, <2>2, <2>3, IdlePop
  <2> HIDE DEF c
  <2>5. \A b \in Addrs : WaitingAt(b)' = WaitingAt(b)
    <3> SUFFICES ASSUME NEW b \in Addrs, NEW x PROVE (x \in WaitingAt(b))' <=> x \in WaitingAt(b)
      OBVIOUS
    <3>1. x \in WaitingAt(b) <=>
            x \in Idle(b) \/ \E q \in Procs : pc[q] = "check" /\ addr[q] = b /\ conn[q] = x
      BY DEF WaitingAt, At
    <3>2. (x \in WaitingAt(b))' <=>
            x \in Idle(b)' \/ \E q \in Procs : pc'[q] = "check" /\ addr'[q] = b /\ conn'[q] = x
      BY DEF WaitingAt, At
    <3> QED BY <2>2, <2>4, <3>1, <3>2
  <2>6. \A b \in Addrs : c \in open[b] => b = a BY <1>0, <2>4 DEF IdleUnowned, OneHost
  <2>7. Orphans' = Orphans
    <3> SUFFICES ASSUME NEW x \in Conns PROVE (x \in Orphans)' <=> x \in Orphans BY DEF Orphans
    <3>1. CASE x = c BY <2>2, <2>4, <2>6, <3>1 DEF Orphans, Owning
    <3>2. CASE x # c
      <4>1. \A b \in Addrs : x \in Idle(b)' <=> x \in Idle(b) BY <2>4, <3>2
      <4>2. \A q \in Procs : pc'[q] \in Owning /\ conn'[q] = x <=> pc[q] \in Owning /\ conn[q] = x
        BY <2>2, <3>2 DEF Owning
      <4> QED BY <2>2, <4>1, <4>2 DEF Orphans
    <3> QED BY <3>1, <3>2
  <2>8. \A q \in Procs : LeaseOf(q)' = LeaseOf(q) BY <2>2 DEF LeaseOf
  <2> QED BY <2>5, <2>7, <2>8, AsStutter
\* It is fresh: Acquire returns it.
<1>3. CASE KeepFresh(p)
  <2>1. /\ free' = free /\ open' = open /\ conn' = conn /\ addr' = addr
        /\ pc[p] = "check" /\ pc'[p] = "held"
        /\ \A q \in Procs \ {p} : pc'[q] = pc[q]
    BY <1>0, <1>3 DEF KeepFresh
  <2>2. PICK a \in Addrs, c \in Conns : a = addr[p] /\ c = conn[p]
    BY <1>0, <2>1 DEF OwnedOnce, Owning
  <2>3. c \in WaitingAt(a) BY <2>1, <2>2, WaitingMember
  <2>4. \A b \in Addrs : Idle(b)' = Idle(b) BY <2>1, IdleSame
  <2>5. /\ \A b \in Addrs : c \notin Idle(b)
        /\ \A q \in Procs \ {p} : pc[q] \in Owning => conn[q] # c
    BY <1>0, <2>1, <2>2 DEF IdleUnowned, OwnedOnce, Owning
  <2>6. \A b \in Addrs : WaitingAt(b)' = WaitingAt(b) \ {c}
    <3> SUFFICES ASSUME NEW b \in Addrs, NEW x
                 PROVE  (x \in WaitingAt(b))' <=> x \in WaitingAt(b) /\ x # c
      OBVIOUS
    <3>1. x \in WaitingAt(b) <=>
            x \in Idle(b) \/ \E q \in Procs : pc[q] = "check" /\ addr[q] = b /\ conn[q] = x
      BY DEF WaitingAt, At
    <3>2. (x \in WaitingAt(b))' <=>
            x \in Idle(b)' \/ \E q \in Procs : pc'[q] = "check" /\ addr'[q] = b /\ conn'[q] = x
      BY DEF WaitingAt, At
    <3> QED BY <2>1, <2>2, <2>4, <2>5, <3>1, <3>2 DEF Owning
  <2>7. \A b \in Addrs \ {a} : c \notin WaitingAt(b) BY <2>1, <2>2, <2>5, WaitingMember DEF Owning
  <2>8. Orphans' = Orphans BY <2>1, OrphansSame DEF Owning
  <2>9. LeaseOf(p)' = [host |-> a, conn |-> c] BY <2>1, <2>2 DEF LeaseOf
  <2>10. \A q \in Procs \ {p} : LeaseOf(q)' = LeaseOf(q) BY <2>1 DEF LeaseOf
  <2>11. LeaseOf(p) = Lease!NoLease BY <2>1, HasLease
  <2>12. \A b \in Addrs \ {a} : WaitingAt(b)' = WaitingAt(b) BY <2>6, <2>7
  <2> QED BY <2>3, <2>6, <2>8, <2>9, <2>10, <2>11, <2>12, AsReuse
\* It is stale: Acquire closes it.
<1>4. CASE DropStale(p)
  <2>1. /\ free' = free /\ addr' = addr /\ pc[p] = "check" /\ pc'[p] = "undo"
        /\ open' = [open EXCEPT ![addr[p]] = @ \ {conn[p]}]
        /\ \A q \in Procs \ {p} : pc'[q] = pc[q] /\ conn'[q] = conn[q]
    BY <1>0, <1>4 DEF DropStale
  <2>2. PICK a \in Addrs, c \in Conns : a = addr[p] /\ c = conn[p]
    BY <1>0, <2>1 DEF OwnedOnce, Owning
  <2>3. c \in WaitingAt(a) BY <2>1, <2>2, WaitingMember
  <2>4. \A b \in Addrs : Idle(b)' = Idle(b) BY <2>1, IdleSame
  <2>5. /\ \A b \in Addrs : c \notin Idle(b)
        /\ \A q \in Procs \ {p} : pc[q] \in Owning => conn[q] # c
    BY <1>0, <2>1, <2>2 DEF IdleUnowned, OwnedOnce, Owning
  <2>6. \A b \in Addrs : WaitingAt(b)' = WaitingAt(b) \ {c}
    <3> SUFFICES ASSUME NEW b \in Addrs, NEW x
                 PROVE  (x \in WaitingAt(b))' <=> x \in WaitingAt(b) /\ x # c
      OBVIOUS
    <3>1. x \in WaitingAt(b) <=>
            x \in Idle(b) \/ \E q \in Procs : pc[q] = "check" /\ addr[q] = b /\ conn[q] = x
      BY DEF WaitingAt, At
    <3>2. (x \in WaitingAt(b))' <=>
            x \in Idle(b)' \/ \E q \in Procs : pc'[q] = "check" /\ addr'[q] = b /\ conn'[q] = x
      BY DEF WaitingAt, At
    <3> QED BY <2>1, <2>2, <2>4, <2>5, <3>1, <3>2 DEF Owning
  <2>7. \A b \in Addrs \ {a} : c \notin WaitingAt(b) BY <2>1, <2>2, <2>5, WaitingMember DEF Owning
  <2>8. Orphans' = Orphans BY <1>0, <2>1, <2>2, <2>4, OrphansClosed DEF Owning
  <2>10. \A q \in Procs : LeaseOf(q)' = LeaseOf(q) BY <2>1 DEF LeaseOf
  <2>12. \A b \in Addrs \ {a} : WaitingAt(b)' = WaitingAt(b) BY <2>6, <2>7
  <2> QED BY <2>3, <2>6, <2>8, <2>10, <2>12, AsExpire
\* dial returns a new connection.
<1>5. CASE \E c \in Conns : DialOk(p, c)
  <2>1. PICK c \in Conns : DialOk(p, c) BY <1>5
  <2>2. /\ \A a \in Addrs : c \notin open[a]
        /\ open' = [open EXCEPT ![addr[p]] = @ \union {c}]
        /\ free' = free /\ addr' = addr /\ conn'[p] = c /\ pc[p] = "dial" /\ pc'[p] = "held"
        /\ \A q \in Procs \ {p} : pc'[q] = pc[q] /\ conn'[q] = conn[q]
    BY <1>0, <2>1 DEF DialOk
  <2>3. \A q \in Procs : pc[q] \in Owning => conn[q] # c BY <1>0, <2>2 DEF OwnedOnce
  <2>4. \A b \in Addrs : c \notin Idle(b) /\ Idle(b)' = Idle(b)
    BY <1>0, <2>2, IdleSame DEF IdleUnowned
  <2>5. \A b \in Addrs : c \notin WaitingAt(b) BY <2>3, <2>4, WaitingMember DEF Owning
  <2>6. \A b \in Addrs : WaitingAt(b)' = WaitingAt(b) BY <2>2, WaitingSame
  <2>7. c \notin Orphans BY <2>2 DEF Orphans
  <2>8. Orphans' = Orphans
    <3> SUFFICES ASSUME NEW x \in Conns PROVE (x \in Orphans)' <=> x \in Orphans BY DEF Orphans
    <3>1. CASE x = c BY <2>2, <2>7, <3>1 DEF Orphans, Owning
    <3>2. CASE x # c
      <4>1. \A b \in Addrs : x \in open'[b] <=> x \in open[b] BY <1>0, <2>2, <3>2
      <4>2. \A q \in Procs : pc'[q] \in Owning /\ conn'[q] = x <=> pc[q] \in Owning /\ conn[q] = x
        BY <2>2, <3>2 DEF Owning
      <4> QED BY <2>4, <4>1, <4>2 DEF Orphans
    <3> QED BY <3>1, <3>2
  <2>9. \A q \in Procs : LeaseOf(q).conn # c
    <3>1. \A q \in Procs : LeaseOf(q).conn = IF pc[q] = "held" THEN conn[q] ELSE NoConn BY DEF LeaseOf
    <3> QED BY <2>3, <3>1, PoolAssumption DEF PoolAssumption, Owning
  <2>10. LeaseOf(p) = Lease!NoLease BY <2>2, HasLease
  <2>11. LeaseOf(p)' = [host |-> addr[p], conn |-> c] BY <2>2 DEF LeaseOf
  <2>12. \A q \in Procs \ {p} : LeaseOf(q)' = LeaseOf(q) BY <2>2 DEF LeaseOf
  <2>13. addr[p] \in Addrs BY <1>0
  <2> QED BY <2>5, <2>6, <2>7, <2>8, <2>9, <2>10, <2>11, <2>12, <2>13, AsConnect
\* A connection that was discarded is closed.
<1>6. CASE EvictClose(p) \/ DropClose(p)
  <2>1. /\ free' = free /\ addr' = addr /\ pc[p] \in {"evict", "close"} /\ pc'[p] = "out"
        /\ open' = [open EXCEPT ![addr[p]] = @ \ {conn[p]}]
        /\ \A q \in Procs \ {p} : pc'[q] = pc[q] /\ conn'[q] = conn[q]
    BY <1>0, <1>6 DEF EvictClose, DropClose, CloseSocket, LetGo
  <2>2. \A b \in Addrs : WaitingAt(b)' = WaitingAt(b) BY <2>1, WaitingSame
  <2>3. Orphans' = Orphans BY <1>0, <2>1, OrphansClosed DEF Owning
  <2>4. \A q \in Procs : LeaseOf(q)' = LeaseOf(q) BY <2>1 DEF LeaseOf
  <2> QED BY <2>2, <2>3, <2>4, AsStutter
\* The caller gives its connection back.
<1>7. CASE GiveBack(p)
  <2>0. PICK a \in Addrs, c \in Conns : a = addr[p] /\ c = conn[p]
    BY <1>0, <1>7 DEF GiveBack, OwnedOnce, Owning
  <2>1. /\ pc[p] = "held" /\ c \in open[a] /\ NoTwice(a)
        /\ \A b \in Addrs : c \notin Idle(b)
        /\ \A q \in Procs \ {p} : pc[q] \in Owning => conn[q] # c
    BY <1>0, <1>7, <2>0 DEF GiveBack, OwnedOnce, IdleUnowned, Owning
  <2>2. LeaseOf(p) # Lease!NoLease /\ LeaseOf(p).host = a /\ LeaseOf(p).conn = c
    BY <2>0, <2>1, HasLease
  <2>3. CASE ReleasePut(p, a, c)
    <3>1. /\ free' = [free EXCEPT ![a] = Append(@, [conn |-> c, returnedAt |-> now])]
          /\ open' = open /\ addr' = addr /\ pc'[p] = "out"
          /\ \A q \in Procs \ {p} : pc'[q] = pc[q] /\ conn'[q] = conn[q]
      BY <1>0, <2>3 DEF ReleasePut, PutIdle
    <3>2. Idle(a)' = Idle(a) \union {c} /\ \A b \in Addrs \ {a} : Idle(b)' = Idle(b)
      BY <1>0, <2>1, <3>1, IdlePush
    <3>3. \A b \in Addrs : At({"check"}, b)' = At({"check"}, b) /\ p \notin At({"check"}, b)
      BY <2>1, <3>1 DEF At
    <3>4. \A b \in Addrs : \A q \in At({"check"}, b) : conn'[q] = conn[q] BY <3>1, <3>3 DEF At
    <3>5. WaitingAt(a)' = WaitingAt(a) \union {c} BY <3>2, <3>3, <3>4 DEF WaitingAt
    <3>6. \A b \in Addrs \ {a} : WaitingAt(b)' = WaitingAt(b) BY <3>2, <3>3, <3>4 DEF WaitingAt
    <3>7. \A b \in Addrs : c \in open[b] => b = a BY <1>0, <2>1 DEF OneHost
    <3>8. Orphans' = Orphans
      <4> SUFFICES ASSUME NEW x \in Conns PROVE (x \in Orphans)' <=> x \in Orphans BY DEF Orphans
      <4>1. CASE x = c BY <2>0, <2>1, <3>1, <3>2, <3>7, <4>1 DEF Orphans, Owning
      <4>2. CASE x # c
        <5>1. \A b \in Addrs : x \in Idle(b)' <=> x \in Idle(b) BY <3>2, <4>2
        <5>2. \A q \in Procs : pc'[q] \in Owning /\ conn'[q] = x <=> pc[q] \in Owning /\ conn[q] = x
          BY <2>0, <3>1, <4>2 DEF Owning
        <5> QED BY <3>1, <5>1, <5>2 DEF Orphans
      <4> QED BY <4>1, <4>2
    <3>9. LeaseOf(p)' = Lease!NoLease BY <3>1 DEF LeaseOf, Lease!NoLease
    <3>10. \A q \in Procs \ {p} : LeaseOf(q)' = LeaseOf(q) BY <3>1 DEF LeaseOf
    <3> QED BY <2>2, <3>5, <3>6, <3>8, <3>9, <3>10, AsReturn
  <2>4. CASE ReleaseEvict(p, a, c) \/ Drop(p, a, c)
    <3>1. /\ open' = open /\ free' = free /\ pc'[p] \in {"evict", "close"} /\ conn'[p] = c
          /\ \A q \in Procs \ {p} : pc'[q] = pc[q] /\ conn'[q] = conn[q] /\ addr'[q] = addr[q]
      BY <1>0, <2>4 DEF ReleaseEvict, Drop, Uncount
    <3>2. \A b \in Addrs : WaitingAt(b)' = WaitingAt(b) BY <2>1, <3>1, WaitingSame
    <3>3. Orphans' = Orphans BY <2>0, <2>1, <3>1, OrphansSame DEF Owning
    <3>4. LeaseOf(p)' = Lease!NoLease BY <3>1 DEF LeaseOf, Lease!NoLease
    <3>5. \A q \in Procs \ {p} : LeaseOf(q)' = LeaseOf(q) BY <3>1 DEF LeaseOf
    <3> QED BY <2>2, <3>2, <3>3, <3>4, <3>5, AsDiscard
  <2> QED BY <1>7, <2>0, <2>3, <2>4 DEF GiveBack
\* The caller goes away with it.
<1>8. CASE Forget(p)
  <2>1. /\ open' = open /\ free' = free /\ addr' = addr /\ pc[p] = "held" /\ pc'[p] = "out"
        /\ \A q \in Procs \ {p} : pc'[q] = pc[q] /\ conn'[q] = conn[q]
    BY <1>0, <1>8 DEF Forget, LetGo
  <2>2. PICK a \in Addrs, c \in Conns : a = addr[p] /\ c = conn[p]
    BY <1>0, <2>1 DEF OwnedOnce, Owning
  <2>3. /\ c \in open[a] /\ \A b \in Addrs : c \notin Idle(b)
        /\ \A q \in Procs \ {p} : pc[q] \in Owning => conn[q] # c
    BY <1>0, <2>1, <2>2 DEF IdleUnowned, OwnedOnce, Owning
  <2>4. \A b \in Addrs : Idle(b)' = Idle(b) BY <2>1, IdleSame
  <2>5. \A b \in Addrs : WaitingAt(b)' = WaitingAt(b) BY <2>1, WaitingSame
  <2>6. Orphans' = Orphans \union {c}
    <3> SUFFICES ASSUME NEW x \in Conns PROVE (x \in Orphans)' <=> x \in Orphans \/ x = c
      BY DEF Orphans
    <3>1. CASE x = c BY <2>1, <2>3, <2>4, <3>1 DEF Orphans, Owning
    <3>2. CASE x # c
      <4>1. \A q \in Procs : pc'[q] \in Owning /\ conn'[q] = x <=> pc[q] \in Owning /\ conn[q] = x
        BY <2>1, <2>2, <3>2 DEF Owning
      <4> QED BY <2>1, <2>4, <3>2, <4>1 DEF Orphans
    <3> QED BY <3>1, <3>2
  <2>7. LeaseOf(p) # Lease!NoLease /\ LeaseOf(p).conn = c BY <2>1, <2>2, HasLease
  <2>8. LeaseOf(p)' = Lease!NoLease BY <2>1 DEF LeaseOf, Lease!NoLease
  <2>9. \A q \in Procs \ {p} : LeaseOf(q)' = LeaseOf(q) BY <2>1 DEF LeaseOf
  <2> QED BY <2>5, <2>6, <2>7, <2>8, <2>9, AsAbandon
<1> QED
  BY <1>1, <1>2, <1>3, <1>4, <1>5, <1>6, <1>7, <1>8 DEF Step, PoolStep, Acquire

\* Every step of the pool is a step of the leases or leaves them alone.
LEMMA LeaseSteps == IInv /\ IInv' /\ [Next]_poolVars => [Lease!LeaseNext]_(Lease!vars)
<1> SUFFICES ASSUME IInv, IInv', [Next]_poolVars PROVE [Lease!LeaseNext]_(Lease!vars)
  OBVIOUS
<1>1. CASE \E p \in Procs : Step(p)
  <2>1. PICK p \in Procs : Step(p) BY <1>1
  <2> QED BY <2>1, LeaseStep DEF IInv
<1>2. CASE \/ \E n \in LimitArgs : MaxConnectionsPerHost(n)
           \/ \E d \in IdleArgs : IdleTimeout(d)
           \/ Tick \/ UNCHANGED poolVars
  <2>1. /\ free' = free /\ open' = open /\ pc' = pc /\ addr' = addr /\ conn' = conn
    BY <1>2 DEF MaxConnectionsPerHost, IdleTimeout, Tick, poolVars, settings, locals
  <2>2. \A a \in Addrs : WaitingAt(a)' = WaitingAt(a) BY <2>1, WaitingSame
  <2>3. Orphans' = Orphans BY <2>1, OrphansSame
  <2>4. \A q \in Procs : LeaseOf(q)' = LeaseOf(q) BY <2>1 DEF LeaseOf
  <2> QED BY <2>2, <2>3, <2>4, AsStutter
<1> QED BY <1>1, <1>2 DEF Next, Step

\* The lock, the counter, the stacks and the clock of the pool implement exclusive leases,
\* whatever the interleaving and whoever forgets to give a connection back.
THEOREM PoolImplementsLease == Spec => ImplementsLease
BY LeaseStart, LeaseSteps, Invariance, PTL DEF Spec, ImplementsLease, Lease!LeaseSpec
=============================================================================
