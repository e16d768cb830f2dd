--------------------------- MODULE ConnPoolProofs ---------------------------
(***************************************************************************)
(* Proofs about ConnPool, for any number of goroutines, hosts and          *)
(* connections and any limit.                                              *)
(***************************************************************************)
EXTENDS ConnPool, FiniteSetTheorems, SequenceTheorems, TLAPS

\* A step of the pool that goroutine p takes.
Step(p) == PoolStep(p) \/ Acquire(p) \/ GiveBack(p) \/ Forget(p)

-----------------------------------------------------------------------------
(* Typing. *)

\* The initial state of the pool is well typed.
LEMMA TypeInit == Init => TypeOK
BY PoolAssumption DEF Init, TypeOK, Labels, PoolAssumption

\* What a goroutine's variables hold, when it is responsible for a connection.
LEMMA LocalTypes ==
    ASSUME TypeOK, OwnedOnce, NEW p \in Procs
    PROVE  /\ addr[p] \in Addrs /\ stamp[p] \in Nat
           /\ \A a \in Addrs : count[a] \in Int /\ free[a] \in Seq(IdleConn) /\ open[a] \subseteq Conns
           /\ pc[p] \in Owning => conn[p] \in Conns
BY DEF TypeOK, OwnedOnce

\* Every step of the pool preserves the types, given that goroutines hold open connections.
LEMMA TypeStep ==
    ASSUME TypeOK, OwnedOnce, NEW p \in Procs, Step(p) PROVE TypeOK'
<1> USE LocalTypes DEF TypeOK, Labels, settings, locals
<1>1. CASE KeepFresh(p) BY <1>1 DEF KeepFresh
<1>2. CASE DropStale(p) BY <1>2 DEF DropStale
<1>3. CASE UndoCount(p) BY <1>3 DEF UndoCount, AddCount
<1>4. CASE LimitReject(p) BY <1>4 DEF LimitReject, Goto
<1>5. CASE LimitPass(p) BY <1>5 DEF LimitPass, Goto
<1>6. CASE Reserve(p) BY <1>6 DEF Reserve, AddCount
<1>7. CASE \E c \in Conns : DialOk(p, c)
  <2>1. PICK c \in Conns : DialOk(p, c) BY <1>7
  <2>2. open[addr[p]] \union {c} \in SUBSET Conns OBVIOUS
  <2> QED BY <2>1, <2>2 DEF DialOk
<1>8. CASE DialFail(p) BY <1>8 DEF DialFail, AddCount
<1>9. CASE EvictClose(p) \/ DropClose(p)
  <2>1. open[addr[p]] \ {conn[p]} \in SUBSET Conns OBVIOUS
  <2>2. CloseSocket(p) BY <1>9 DEF EvictClose, DropClose
  <2>3. open' \in [Addrs -> SUBSET Conns] BY <2>1, <2>2 DEF CloseSocket, LetGo
  <2> QED BY <2>2, <2>3 DEF CloseSocket, LetGo
<1>10. CASE \E a \in Addrs : AcquirePop(p, a)
  <2>1. PICK a \in Addrs : AcquirePop(p, a) BY <1>10
  <2>2. free[a] \in Seq(IdleConn) /\ Len(free[a]) \in Nat \ {0}
    BY <2>1, EmptySeq DEF AcquirePop, TakeTop
  <2>3. SubSeq(free[a], 1, Len(free[a]) - 1) \in Seq(IdleConn)
    BY <2>2
  <2>4. free[a][Len(free[a])] \in IdleConn
    BY <2>2
  <2>5. free[a][Len(free[a])].conn \in Conns /\ free[a][Len(free[a])].returnedAt \in Nat
    BY <2>4 DEF IdleConn
  <2> QED BY <2>1, <2>3, <2>5 DEF AcquirePop, TakeTop
<1>11. CASE \E a \in Addrs : AcquireEmpty(p, a) BY <1>11 DEF AcquireEmpty
<1>12. CASE GiveBack(p)
  <2>1. conn[p] \in Conns BY <1>12 DEF GiveBack, Owning
  <2>2. CASE ReleasePut(p, addr[p], conn[p])
    <3>1. [conn |-> conn[p], returnedAt |-> now] \in IdleConn BY <2>1 DEF IdleConn
    <3> QED BY <3>1, <2>2 DEF ReleasePut, PutIdle
  <2>3. CASE ReleaseEvict(p, addr[p], conn[p]) BY <2>3 DEF ReleaseEvict, Uncount
  <2>4. CASE Drop(p, addr[p], conn[p]) BY <2>4 DEF Drop, Uncount
  <2> QED BY <1>12, <2>2, <2>3, <2>4 DEF GiveBack
<1>13. CASE Forget(p) BY <1>13 DEF Forget, LetGo
<1> QED
  BY <1>1, <1>2, <1>3, <1>4, <1>5, <1>6, <1>7, <1>8, <1>9, <1>10, <1>11, <1>12, <1>13
     DEF Step, PoolStep, Acquire

-----------------------------------------------------------------------------
(* The idle stacks as sets. *)

\* An action that leaves the stacks alone leaves the idle sets alone.
LEMMA IdleSame ==
    ASSUME free' = free
    PROVE  \A a \in Addrs : Idle(a)' = Idle(a) /\ (NoTwice(a) => NoTwice(a)')
BY DEF Idle, NoTwice

\* Release adds one connection to the idle set of one host.
LEMMA IdlePush ==
    ASSUME TypeOK, NEW a \in Addrs, NEW c \in Conns, NoTwice(a), c \notin Idle(a),
           free' = [free EXCEPT ![a] = Append(@, [conn |-> c, returnedAt |-> now])]
    PROVE  /\ Idle(a)' = Idle(a) \union {c}
           /\ NoTwice(a)'
           /\ \A b \in Addrs \ {a} : Idle(b)' = Idle(b) /\ (NoTwice(b) => NoTwice(b)')
<1> DEFINE s == free[a]
           e == [conn |-> c, returnedAt |-> now]
<1>1. s \in Seq(IdleConn) /\ e \in IdleConn /\ free'[a] = Append(s, e)
  BY DEF TypeOK, IdleConn
<1> HIDE DEF e, s
<1>2. /\ Len(free'[a]) = Len(s) + 1 /\ Len(s) \in Nat
      /\ DOMAIN free'[a] = 1..(Len(s) + 1) /\ DOMAIN s = 1..Len(s)
      /\ \A i \in 1..Len(s) : free'[a][i] = s[i]
      /\ free'[a][Len(s) + 1] = e
  BY <1>1
<1>3. e.conn = c BY DEF e
<1>4. Idle(a)' = Idle(a) \union {c}
  <2>1. Idle(a)' = {free'[a][i].conn : i \in 1..(Len(s) + 1)} BY <1>2 DEF Idle
  <2>2. Idle(a) = {s[i].conn : i \in 1..Len(s)} BY <1>2 DEF Idle, s
  <2>3. 1..(Len(s) + 1) = 1..Len(s) \union {Len(s) + 1} BY <1>2
  <2> QED BY <1>2, <1>3, <2>1, <2>2, <2>3
<1>5. NoTwice(a)'
  <2> SUFFICES ASSUME NEW i \in 1..(Len(s) + 1), NEW j \in 1..(Len(s) + 1), i # j
               PROVE  free'[a][i].conn # free'[a][j].conn
    BY <1>2 DEF NoTwice
  <2>1. \A k \in 1..Len(s) : s[k].conn # c BY <1>2 DEF Idle, s
  <2>2. i \in 1..Len(s) \/ i = Len(s) + 1 BY <1>2
  <2>3. j \in 1..Len(s) \/ j = Len(s) + 1 BY <1>2
  <2>4. CASE i \in 1..Len(s) /\ j \in 1..Len(s) BY <1>2, <2>4 DEF NoTwice, s
  <2> QED BY <1>2, <1>3, <2>1, <2>2, <2>3, <2>4
<1>6. \A b \in Addrs \ {a} : free'[b] = free[b] BY DEF TypeOK
<1>7. \A b \in Addrs \ {a} : Idle(b)' = Idle(b) /\ (NoTwice(b) => NoTwice(b)')
  BY <1>6 DEF Idle, NoTwice
<1> QED BY <1>4, <1>5, <1>7

\* Acquire removes the connection that it pops, and no other.
LEMMA IdlePop ==
    ASSUME TypeOK, NEW a \in Addrs, NoTwice(a), free[a] # <<>>,
           free' = [free EXCEPT ![a] = SubSeq(free[a], 1, Len(free[a]) - 1)]
    PROVE  /\ free[a][Len(free[a])].conn \in Idle(a)
           /\ Idle(a)' = Idle(a) \ {free[a][Len(free[a])].conn}
           /\ NoTwice(a)'
           /\ \A b \in Addrs \ {a} : Idle(b)' = Idle(b) /\ (NoTwice(b) => NoTwice(b)')
<1> DEFINE s == free[a]
           n == Len(s)
<1>1. s \in Seq(IdleConn) /\ n \in Nat \ {0} /\ DOMAIN s = 1..n
  BY EmptySeq DEF TypeOK
<1>2. free'[a] = SubSeq(s, 1, n - 1) BY DEF TypeOK
<1>3. /\ DOMAIN free'[a] = 1..(n - 1)
      /\ \A i \in 1..(n - 1) : free'[a][i] = s[i]
  BY <1>1, <1>2
<1>4. \A b \in Addrs \ {a} : free'[b] = free[b] BY DEF TypeOK
<1>5. Idle(a) = {s[i].conn : i \in 1..n} BY <1>1 DEF Idle
<1>6. Idle(a)' = {s[i].conn : i \in 1..(n - 1)} BY <1>3 DEF Idle
<1>7. 1..n = 1..(n - 1) \union {n} /\ n \notin 1..(n - 1) BY <1>1
<1>8. \A i \in 1..(n - 1) : s[i].conn # s[n].conn BY <1>1, <1>7 DEF NoTwice
<1> HIDE DEF s, n
<1>9. Idle(a)' = Idle(a) \ {s[n].conn} BY <1>5, <1>6, <1>7, <1>8
<1>10. s[n].conn \in Idle(a) BY <1>5, <1>7
<1>11. NoTwice(a)' BY <1>1, <1>3, <1>7 DEF NoTwice, s
<1>12. \A b \in Addrs \ {a} : Idle(b)' = Idle(b) /\ (NoTwice(b) => NoTwice(b)')
  BY <1>4 DEF Idle, NoTwice
<1> QED BY <1>9, <1>10, <1>11, <1>12 DEF s, n

-----------------------------------------------------------------------------
(* Ownership: every open socket has at most one place it can be reached    *)
(* from, an idle stack or a goroutine.                                     *)

Ownership == TypeOK /\ OwnedOnce /\ IdleUnowned /\ OneHost

\* Steps of p that touch neither sockets nor stacks, and after which p is responsible
\* for a connection only if it was before, for the same one.
LEMMA OwnershipKept ==
    ASSUME Ownership, NEW p \in Procs, open' = open, free' = free,
           NEW l \in Labels, NEW x, pc' = [pc EXCEPT ![p] = l],
           conn' = conn \/ conn' = [conn EXCEPT ![p] = x], 
           l \in Owning => pc[p] \in Owning /\ conn'[p] = conn[p] /\ addr'[p] = addr[p],
           \A q \in Procs \ {p} : addr'[q] = addr[q]
    PROVE  OwnedOnce' /\ IdleUnowned' /\ OneHost'
<1>1. \A a \in Addrs : Idle(a)' = Idle(a) /\ (NoTwice(a) => NoTwice(a)') BY IdleSame
<1>2. \A q \in Procs : pc'[q] \in Owning =>
          pc[q] \in Owning /\ conn'[q] = conn[q] /\ addr'[q] = addr[q]
  BY DEF Ownership, TypeOK
<1>3. OwnedOnce' BY <1>2 DEF Ownership, OwnedOnce
<1>4. IdleUnowned' BY <1>1, <1>2 DEF Ownership, IdleUnowned
<1>5. OneHost' BY DEF Ownership, OneHost
<1> QED BY <1>3, <1>4, <1>5

\* No step hands a connection to two owners, leaves a closed one in a stack or crosses hosts.
LEMMA OwnershipStep ==
    ASSUME Ownership, NEW p \in Procs, Step(p)
    PROVE  OwnedOnce' /\ IdleUnowned' /\ OneHost'
<1> USE DEF Ownership
<1> USE DEF Labels, settings, locals
<1>0. /\ pc \in [Procs -> Labels] /\ conn \in [Procs -> Conns \union {NoConn}]
      /\ addr \in [Procs -> Addrs] /\ open \in [Addrs -> SUBSET Conns] /\ TypeOK
  BY DEF TypeOK
<1>1. CASE KeepFresh(p) BY <1>0, <1>1, OwnershipKept DEF KeepFresh, Owning
<1>3. CASE UndoCount(p) BY <1>0, <1>3, OwnershipKept DEF UndoCount, Owning, AddCount
<1>4. CASE LimitReject(p) BY <1>0, <1>4, OwnershipKept DEF LimitReject, Owning, Goto
<1>5. CASE LimitPass(p) BY <1>0, <1>5, OwnershipKept DEF LimitPass, Owning, Goto
<1>6. CASE Reserve(p) BY <1>0, <1>6, OwnershipKept DEF Reserve, Owning, AddCount
<1>8. CASE DialFail(p) BY <1>0, <1>8, OwnershipKept DEF DialFail, Owning, AddCount
<1>11. CASE \E a \in Addrs : AcquireEmpty(p, a) BY <1>0, <1>11, OwnershipKept DEF AcquireEmpty, Owning
<1>13. CASE Forget(p) BY <1>0, <1>13, OwnershipKept DEF Forget, Owning, LetGo
<1>2. CASE DropStale(p) \/ EvictClose(p) \/ DropClose(p)
  <2>1. /\ pc[p] \in Owning /\ free' = free /\ addr' = addr
        /\ open' = [open EXCEPT ![addr[p]] = @ \ {conn[p]}]
        /\ pc'[p] \notin Owning
        /\ \A q \in Procs \ {p} : pc'[q] = pc[q] /\ conn'[q] = conn[q]
    BY <1>0, <1>2 DEF DropStale, EvictClose, DropClose, CloseSocket, Owning, LetGo
  <2>2. \A a \in Addrs : Idle(a)' = Idle(a) /\ (NoTwice(a) => NoTwice(a)') BY <2>1, IdleSame
  <2>3. \A a \in Addrs : open'[a] \subseteq open[a] BY <1>0, <2>1
  <2>4. \A a \in Addrs : \A c \in open[a] : c # conn[p] => c \in open'[a] BY <1>0, <2>1
  <2>5. OwnedOnce' BY <1>0, <2>1, <2>4 DEF OwnedOnce
  <2>6. IdleUnowned' BY <1>0, <2>1, <2>2, <2>4 DEF IdleUnowned
  <2>7. OneHost' BY <2>3 DEF OneHost
  <2> QED BY <2>5, <2>6, <2>7
<1>7. CASE \E c \in Conns : DialOk(p, c)
  <2>1. PICK c \in Conns : DialOk(p, c) BY <1>7
  <2>2. /\ \A a \in Addrs : c \notin open[a]
        /\ open' = [open EXCEPT ![addr[p]] = @ \union {c}]
        /\ free' = free /\ addr' = addr /\ conn'[p] = c
        /\ \A q \in Procs \ {p} : pc'[q] = pc[q] /\ conn'[q] = conn[q]
    BY <1>0, <2>1 DEF DialOk
  <2>3. \A a \in Addrs : Idle(a)' = Idle(a) /\ (NoTwice(a) => NoTwice(a)') BY <2>2, IdleSame
  <2>4. \A a \in Addrs : open[a] \subseteq open'[a] /\ open'[a] \subseteq open[a] \union {c}
    BY <1>0, <2>2
  <2>5. c \in open'[addr[p]] /\ \A a \in Addrs : c \in open'[a] => a = addr[p] BY <1>0, <2>2
  <2>6. \A q \in Procs : pc[q] \in Owning => conn[q] # c BY <1>0, <2>2 DEF OwnedOnce
  <2>7. \A a \in Addrs : c \notin Idle(a) BY <2>2 DEF IdleUnowned
  <2>8. OwnedOnce' BY <1>0, <2>2, <2>4, <2>5, <2>6 DEF OwnedOnce
  <2>9. IdleUnowned' BY <1>0, <2>2, <2>3, <2>4, <2>7 DEF IdleUnowned
  <2>10. OneHost' BY <2>2, <2>4, <2>5 DEF OneHost
  <2> QED BY <2>8, <2>9, <2>10
<1>10. CASE \E a \in Addrs : AcquirePop(p, a)
  <2>1. PICK a \in Addrs : AcquirePop(p, a) BY <1>10
  <2> DEFINE c == free[a][Len(free[a])].conn
  <2>2. /\ free[a] # <<>> /\ open' = open
        /\ free' = [free EXCEPT ![a] = SubSeq(free[a], 1, Len(free[a]) - 1)]
        /\ conn' = [conn EXCEPT ![p] = c] /\ addr' = [addr EXCEPT ![p] = a]
        /\ \A q \in Procs \ {p} : pc'[q] = pc[q]
    BY <1>0, <2>1 DEF AcquirePop, TakeTop
  <2>3. NoTwice(a) BY DEF IdleUnowned
  <2>4. /\ c \in Idle(a) /\ Idle(a)' = Idle(a) \ {c} /\ NoTwice(a)'
        /\ \A b \in Addrs \ {a} : Idle(b)' = Idle(b) /\ (NoTwice(b) => NoTwice(b)')
    BY <1>0, <2>2, <2>3, IdlePop
  <2> HIDE DEF c
  <2>5. conn'[p] = c /\ addr'[p] = a
        /\ \A q \in Procs \ {p} : conn'[q] = conn[q] /\ addr'[q] = addr[q]
    BY <1>0, <2>2
  <2>6. c \in open[a] /\ \A q \in Procs : pc[q] \in Owning => conn[q] # c
    BY <2>4 DEF IdleUnowned
  <2>7. \A b \in Addrs : c \notin Idle(b)' BY <2>4, <2>6 DEF IdleUnowned, OneHost
  <2>8. \A b \in Addrs : Idle(b)' \subseteq Idle(b) BY <2>4
  <2>9. OwnedOnce' BY <2>2, <2>5, <2>6 DEF OwnedOnce
  <2>10. IdleUnowned'
    <3> SUFFICES ASSUME NEW b \in Addrs
                 PROVE  /\ Idle(b)' \subseteq open'[b] /\ NoTwice(b)'
                        /\ \A q \in Procs : pc'[q] \in Owning => conn'[q] \notin Idle(b)'
      BY DEF IdleUnowned
    <3>1. Idle(b)' \subseteq open'[b] BY <2>2, <2>8 DEF IdleUnowned
    <3>2. NoTwice(b)' BY <2>4 DEF IdleUnowned
    <3>3. \A q \in Procs : pc'[q] \in Owning => conn'[q] \notin Idle(b)'
      BY <2>2, <2>5, <2>7, <2>8 DEF IdleUnowned
    <3> QED BY <3>1, <3>2, <3>3
  <2>11. OneHost' BY <2>2 DEF OneHost
  <2> QED BY <2>9, <2>10, <2>11
<1>12. CASE GiveBack(p)
  <2>0. PICK a \in Addrs, c \in Conns : a = addr[p] /\ c = conn[p]
    BY <1>0, <1>12 DEF GiveBack, OwnedOnce, Owning
  <2>1. pc[p] = "held" /\ c \in open[a] /\ c \notin Idle(a) /\ NoTwice(a)
    BY <1>0, <1>12, <2>0 DEF GiveBack, OwnedOnce, IdleUnowned, Owning
  <2>2. CASE ReleasePut(p, a, c)
    <3>1. /\ free' = [free EXCEPT ![a] = Append(@, [conn |-> c, returnedAt |-> now])]
          /\ open' = open /\ addr' = addr /\ pc'[p] \notin Owning
          /\ \A q \in Procs \ {p} : pc'[q] = pc[q] /\ conn'[q] = conn[q]
      BY <1>0, <2>2 DEF ReleasePut, Owning, PutIdle
    <3>2. /\ Idle(a)' = Idle(a) \union {c} /\ NoTwice(a)'
          /\ \A b \in Addrs \ {a} : Idle(b)' = Idle(b) /\ (NoTwice(b) => NoTwice(b)')
      BY <1>0, <2>1, <3>1, IdlePush
    <3>3. OwnedOnce' BY <3>1 DEF OwnedOnce
    <3>4. \A q \in Procs \ {p} : pc[q] \in Owning => conn[q] # c
      BY <2>0, <2>1 DEF OwnedOnce, Owning
    <3>5. IdleUnowned'
      <4> SUFFICES ASSUME NEW b \in Addrs
                   PROVE  /\ Idle(b)' \subseteq open'[b] /\ NoTwice(b)'
                          /\ \A q \in Procs : pc'[q] \in Owning => conn'[q] \notin Idle(b)'
        BY DEF IdleUnowned
      <4>1. Idle(b)' \subseteq Idle(b) \union {c} /\ (b # a => Idle(b)' = Idle(b)) BY <3>2
      <4>2. Idle(b)' \subseteq open'[b] BY <2>1, <3>1, <4>1 DEF IdleUnowned
      <4>3. NoTwice(b)' BY <3>2 DEF IdleUnowned
      <4>4. \A q \in Procs : pc'[q] \in Owning => conn'[q] \notin Idle(b)'
        BY <3>1, <3>4, <4>1 DEF IdleUnowned
      <4> QED BY <4>2, <4>3, <4>4
    <3>6. OneHost' BY <3>1 DEF OneHost
    <3> QED BY <3>3, <3>5, <3>6
  <2>3. CASE ReleaseEvict(p, a, c) \/ Drop(p, a, c)
    <3>1. /\ open' = open /\ free' = free
          /\ addr' = [addr EXCEPT ![p] = addr[p]] /\ conn' = [conn EXCEPT ![p] = conn[p]]
          /\ pc' = [pc EXCEPT ![p] = "evict"] \/ pc' = [pc EXCEPT ![p] = "close"]
      BY <2>0, <2>3 DEF ReleaseEvict, Drop, Uncount
    <3>2. addr' = addr /\ conn' = conn BY <1>0, <3>1
    <3> QED BY <2>1, <3>1, <3>2, OwnershipKept DEF Owning
  <2> QED BY <1>12, <2>0, <2>2, <2>3 DEF GiveBack
<1> QED
  BY <1>1, <1>2, <1>3, <1>4, <1>5, <1>6, <1>7, <1>8, <1>10, <1>11, <1>12, <1>13
     DEF Step, PoolStep, Acquire

-----------------------------------------------------------------------------
(* The sets that the counter counts. *)

Live(a) == open[a] \ Closing(a)

FiniteOpen == \A a \in Addrs : IsFiniteSet(open[a])

\* How a step of p changes the sets of goroutines at given labels.
LEMMA AtStep ==
    ASSUME TypeOK, NEW p \in Procs, NEW l, pc' = [pc EXCEPT ![p] = l],
           \A q \in Procs \ {p} : addr'[q] = addr[q], NEW L, NEW a
    PROVE  /\ l \in L /\ addr'[p] = a => At(L, a)' = At(L, a) \union {p}
           /\ ~(l \in L /\ addr'[p] = a) => At(L, a)' = At(L, a) \ {p}
           /\ p \in At(L, a) <=> pc[p] \in L /\ addr[p] = a
BY DEF At, TypeOK

\* The goroutines at given labels are finitely many, so that they can be counted.
LEMMA AtFinite ==
    ASSUME NEW L, NEW a
    PROVE  /\ IsFiniteSet(At(L, a)) /\ Cardinality(At(L, a)) \in Nat
           /\ Cardinality(At(L, a)) <= Cardinality(Procs) /\ Cardinality(Procs) \in Nat
<1>1. At(L, a) \in SUBSET Procs BY DEF At
<1>2. IsFiniteSet(Procs) BY PoolAssumption DEF PoolAssumption
<1> QED BY <1>1, <1>2, FS_Subset, FS_CardinalityType

\* A step of p that neither starts nor ends a closing leaves the closing sockets alone.
LEMMA ClosingSame ==
    ASSUME TypeOK, NEW p \in Procs, NEW l, pc' = [pc EXCEPT ![p] = l],
           pc[p] \notin {"evict", "close"}, l \notin {"evict", "close"},
           \A q \in Procs \ {p} : addr'[q] = addr[q] /\ conn'[q] = conn[q]
    PROVE  \A a \in Addrs : Closing(a)' = Closing(a)
<1> SUFFICES ASSUME NEW a \in Addrs PROVE Closing(a)' = Closing(a) OBVIOUS
<1>1. At({"evict", "close"}, a)' = At({"evict", "close"}, a) /\ p \notin At({"evict", "close"}, a)
  BY DEF At, TypeOK
<1>2. \A q \in At({"evict", "close"}, a) : conn'[q] = conn[q] BY <1>1 DEF At
<1> QED BY <1>1, <1>2 DEF Closing

\* The first half of Release on a full pool, and of CloseAndDrop.
LEMMA ClosingStart ==
    ASSUME TypeOK, NEW p \in Procs, NEW l \in {"evict", "close"}, pc' = [pc EXCEPT ![p] = l],
           addr' = addr, conn' = conn, pc[p] \notin {"evict", "close"}
    PROVE  \A a \in Addrs : 
               Closing(a)' = IF a = addr[p] THEN Closing(a) \union {conn[p]} ELSE Closing(a)
<1> SUFFICES ASSUME NEW a \in Addrs
             PROVE Closing(a)' = IF a = addr[p] THEN Closing(a) \union {conn[p]} ELSE Closing(a)
    OBVIOUS
<1>1. At({"evict", "close"}, a)' = 
          IF a = addr[p] THEN At({"evict", "close"}, a) \union {p} ELSE At({"evict", "close"}, a)
  BY DEF At, TypeOK
<1> QED BY <1>1 DEF Closing

\* The second half.
LEMMA ClosingEnd ==
    ASSUME TypeOK, OwnedOnce, NEW p \in Procs, pc[p] \in {"evict", "close"}, 
           pc' = [pc EXCEPT ![p] = "out"], addr' = addr, conn' = [conn EXCEPT ![p] = NoConn]
    PROVE  \A a \in Addrs : 
               Closing(a)' = IF a = addr[p] THEN Closing(a) \ {conn[p]} ELSE Closing(a)
<1> SUFFICES ASSUME NEW a \in Addrs
             PROVE Closing(a)' = IF a = addr[p] THEN Closing(a) \ {conn[p]} ELSE Closing(a)
    OBVIOUS
<1>1. At({"evict", "close"}, a)' = At({"evict", "close"}, a) \ {p} BY DEF At, TypeOK
<1>2. p \in At({"evict", "close"}, a) <=> a = addr[p] BY DEF At
<1>3. \A q \in At({"evict", "close"}, a) \ {p} : conn'[q] = conn[q] /\ conn[q] # conn[p]
  BY DEF At, TypeOK, OwnedOnce, Owning
<1> QED BY <1>1, <1>2, <1>3 DEF Closing

\* A socket that is being closed is an open one.
LEMMA ClosingOpen ==
    ASSUME OwnedOnce, NEW a \in Addrs PROVE Closing(a) \subseteq open[a]
BY DEF OwnedOnce, Owning, Closing, At

\* The set of slots that are counted without an open socket.
Flight(a) == At({"dial", "undo"}, a)

\* Every step moves cp.count together with the sockets and the slots that it stands for.
LEMMA CountStep ==
    ASSUME Ownership, FiniteOpen, CountExact, NEW p \in Procs, Step(p)
    PROVE  FiniteOpen' /\ CountExact'
<1> USE DEF Ownership, settings, locals
<1>0. /\ pc \in [Procs -> Labels] /\ conn \in [Procs -> Conns \union {NoConn}] /\ addr[p] \in Addrs
      /\ addr \in [Procs -> Addrs] /\ open \in [Addrs -> SUBSET Conns] /\ TypeOK
      /\ count \in [Addrs -> Int]
  BY DEF TypeOK
<1>a. \A a \in Addrs : /\ IsFiniteSet(Live(a)) /\ Cardinality(Live(a)) \in Nat
                       /\ IsFiniteSet(Flight(a)) /\ Cardinality(Flight(a)) \in Nat
                       /\ count[a] = Cardinality(Live(a)) + Cardinality(Flight(a))
  BY AtFinite, FS_Difference, FS_CardinalityType DEF Live, Flight, FiniteOpen, CountExact
<1>b. ASSUME \A a \in Addrs : count'[a] = Cardinality(Live(a)') + Cardinality(Flight(a)')
      PROVE  CountExact'
  BY <1>b DEF CountExact, Live, Flight
<1>1. CASE \/ KeepFresh(p) \/ LimitReject(p) \/ LimitPass(p) \/ Forget(p)
           \/ (\E a \in Addrs : AcquirePop(p, a) \/ AcquireEmpty(p, a))
           \/ GiveBack(p) /\ ReleasePut(p, addr[p], conn[p])
  <2>1. PICK l \in Labels \ {"dial", "undo", "evict", "close"} :
              /\ pc' = [pc EXCEPT ![p] = l] /\ open' = open /\ count' = count
              /\ pc[p] \notin {"dial", "undo", "evict", "close"}
              /\ \A q \in Procs \ {p} : addr'[q] = addr[q] /\ conn'[q] = conn[q]
    BY <1>0, <1>1 DEF KeepFresh, LimitReject, LimitPass, Forget, AcquirePop, AcquireEmpty,
                      ReleasePut, GiveBack, Labels, Goto, LetGo, TakeTop, PutIdle
  <2>2. \A a \in Addrs : Live(a)' = Live(a) BY <1>0, <2>1, ClosingSame DEF Live
  <2>3. \A a \in Addrs : Flight(a)' = Flight(a)
    BY <1>0, <2>1 DEF Flight, At
  <2> QED BY <1>a, <1>b, <2>1, <2>2, <2>3 DEF FiniteOpen
<1>2. CASE UndoCount(p) \/ DialFail(p) \/ Reserve(p)
  <2>1. PICK l \in Labels : 
              /\ pc' = [pc EXCEPT ![p] = l] /\ open' = open /\ addr' = addr /\ conn' = conn
              /\ pc[p] \notin {"evict", "close"} /\ l \notin {"evict", "close"}
    BY <1>0, <1>2 DEF UndoCount, DialFail, Reserve, Labels, AddCount
  <2>2. \A a \in Addrs : Live(a)' = Live(a) BY <1>0, <2>1, ClosingSame DEF Live
  <2>3. CASE UndoCount(p) \/ DialFail(p)
    <3>1. /\ pc[p] \in {"dial", "undo"} /\ pc'[p] \notin {"dial", "undo"}
          /\ count' = [count EXCEPT ![addr[p]] = @ - 1]
      BY <1>0, <2>3 DEF UndoCount, DialFail, AddCount
    <3>2. \A a \in Addrs : /\ Flight(a)' = Flight(a) \ {p}
                           /\ p \in Flight(a) <=> a = addr[p]
      BY <1>0, <2>1, <3>1 DEF Flight, At
    <3>3. \A a \in Addrs : Cardinality(Flight(a)') =
              IF a = addr[p] THEN Cardinality(Flight(a)) - 1 ELSE Cardinality(Flight(a))
      BY <1>a, <3>2, FS_RemoveElement
    <3>4. \A a \in Addrs : count'[a] = IF a = addr[p] THEN count[a] - 1 ELSE count[a]
      BY <1>0, <3>1
    <3>5. CountExact' BY <1>a, <1>b, <2>2, <3>3, <3>4
    <3> QED BY <2>1, <3>5 DEF FiniteOpen
  <2>4. CASE Reserve(p)
    <3>1. /\ pc[p] \notin {"dial", "undo"} /\ pc'[p] \in {"dial", "undo"}
          /\ count' = [count EXCEPT ![addr[p]] = @ + 1]
      BY <1>0, <2>4 DEF Reserve, AddCount
    <3>2. \A a \in Addrs : /\ Flight(a)' = IF a = addr[p] THEN Flight(a) \union {p} ELSE Flight(a)
                           /\ p \notin Flight(a)
      BY <1>0, <2>1, <3>1 DEF Flight, At
    <3>3. \A a \in Addrs : Cardinality(Flight(a)') =
              IF a = addr[p] THEN Cardinality(Flight(a)) + 1 ELSE Cardinality(Flight(a))
      BY <1>a, <3>2, FS_AddElement
    <3> QED BY <1>0, <1>a, <1>b, <2>1, <2>2, <3>1, <3>3 DEF FiniteOpen
  <2> QED BY <1>2, <2>3, <2>4
<1>3. CASE DropStale(p)
  <2>1. /\ pc' = [pc EXCEPT ![p] = "undo"] /\ pc[p] = "check" /\ addr' = addr
        /\ open' = [open EXCEPT ![addr[p]] = @ \ {conn[p]}] /\ count' = count
        /\ \A q \in Procs \ {p} : conn'[q] = conn[q]
    BY <1>0, <1>3 DEF DropStale
  <2>2. \A a \in Addrs : Closing(a)' = Closing(a) BY <1>0, <2>1, ClosingSame
  <2>3. conn[p] \in open[addr[p]] /\ \A a \in Addrs : conn[p] \notin Closing(a)
    BY <2>1 DEF OwnedOnce, Owning, Closing, At
  <2>4. \A a \in Addrs : Live(a)' = IF a = addr[p] THEN Live(a) \ {conn[p]} ELSE Live(a)
    BY <1>0, <2>1, <2>2 DEF Live
  <2>5. conn[p] \in Live(addr[p]) BY <1>0, <2>3 DEF Live
  <2>6. \A a \in Addrs : Cardinality(Live(a)') =
            IF a = addr[p] THEN Cardinality(Live(a)) - 1 ELSE Cardinality(Live(a))
    BY <1>a, <2>4, <2>5, FS_RemoveElement
  <2>7. \A a \in Addrs : /\ Flight(a)' = IF a = addr[p] THEN Flight(a) \union {p} ELSE Flight(a)
                         /\ p \notin Flight(a)
    BY <1>0, <2>1 DEF Flight, At
  <2>8. \A a \in Addrs : Cardinality(Flight(a)') =
            IF a = addr[p] THEN Cardinality(Flight(a)) + 1 ELSE Cardinality(Flight(a))
    BY <1>a, <2>7, FS_AddElement
  <2>9. CountExact' BY <1>0, <1>a, <1>b, <2>1, <2>6, <2>8
  <2>10. FiniteOpen' BY <1>0, <2>1, FS_RemoveElement DEF FiniteOpen
  <2> QED BY <2>9, <2>10
<1>4. CASE \E c \in Conns : DialOk(p, c)
  <2>0. PICK c \in Conns : DialOk(p, c) BY <1>4
  <2>1. /\ pc' = [pc EXCEPT ![p] = "held"] /\ pc[p] = "dial" /\ addr' = addr
        /\ open' = [open EXCEPT ![addr[p]] = @ \union {c}] /\ count' = count
        /\ \A a \in Addrs : c \notin open[a]
        /\ \A q \in Procs \ {p} : conn'[q] = conn[q]
    BY <1>0, <2>0 DEF DialOk
  <2>2. \A a \in Addrs : Closing(a)' = Closing(a) /\ c \notin Closing(a)
    BY <1>0, <2>1, ClosingSame, ClosingOpen
  <2>3. \A a \in Addrs : /\ Live(a)' = IF a = addr[p] THEN Live(a) \union {c} ELSE Live(a)
                         /\ c \notin Live(a)
    BY <1>0, <2>1, <2>2 DEF Live
  <2>4. \A a \in Addrs : Cardinality(Live(a)') =
            IF a = addr[p] THEN Cardinality(Live(a)) + 1 ELSE Cardinality(Live(a))
    <3> TAKE a \in Addrs
    <3>1. /\ Cardinality(Live(a) \union {c}) = Cardinality(Live(a)) + 1
      BY <1>a, <2>3, FS_AddElement
    <3> QED BY <2>3, <3>1
  <2>5. \A a \in Addrs : /\ Flight(a)' = Flight(a) \ {p}
                         /\ p \in Flight(a) <=> a = addr[p]
    BY <1>0, <2>1 DEF Flight, At
  <2>6. \A a \in Addrs : Cardinality(Flight(a)') =
            IF a = addr[p] THEN Cardinality(Flight(a)) - 1 ELSE Cardinality(Flight(a))
    BY <1>a, <2>5, FS_RemoveElement
  <2>7. CountExact'
    <3>1. \A a \in Addrs : count'[a] = Cardinality(Live(a)') + Cardinality(Flight(a)')
      BY <1>a, <2>1, <2>4, <2>6
    <3> QED BY <1>b, <3>1
  <2>8. FiniteOpen' BY <1>0, <2>1, FS_AddElement DEF FiniteOpen
  <2> QED BY <2>7, <2>8
<1>5. CASE GiveBack(p) /\ (ReleaseEvict(p, addr[p], conn[p]) \/ Drop(p, addr[p], conn[p]))
  <2>1. PICK l \in {"evict", "close"} :
           /\ pc' = [pc EXCEPT ![p] = l] /\ pc[p] = "held" /\ addr' = addr /\ conn' = conn
           /\ open' = open /\ count' = [count EXCEPT ![addr[p]] = @ - 1]
    BY <1>0, <1>5 DEF ReleaseEvict, Drop, GiveBack, Uncount
  <2>2. \A a \in Addrs :
           Closing(a)' = IF a = addr[p] THEN Closing(a) \union {conn[p]} ELSE Closing(a)
    BY <1>0, <2>1, ClosingStart
  <2>3. conn[p] \in open[addr[p]] /\ \A a \in Addrs : conn[p] \notin Closing(a)
    BY <2>1 DEF OwnedOnce, Owning, Closing, At
  <2>4. \A a \in Addrs : Live(a)' = IF a = addr[p] THEN Live(a) \ {conn[p]} ELSE Live(a)
    BY <1>0, <2>1, <2>2 DEF Live
  <2>5. conn[p] \in Live(addr[p]) BY <1>0, <2>3 DEF Live
  <2>6. \A a \in Addrs : Cardinality(Live(a)') =
            IF a = addr[p] THEN Cardinality(Live(a)) - 1 ELSE Cardinality(Live(a))
    BY <1>a, <2>4, <2>5, FS_RemoveElement
  <2>7. \A a \in Addrs : Flight(a)' = Flight(a) BY <1>0, <2>1 DEF Flight, At
  <2> QED BY <1>0, <1>a, <1>b, <2>1, <2>6, <2>7 DEF FiniteOpen
<1>6. CASE EvictClose(p) \/ DropClose(p)
  <2>1. /\ pc' = [pc EXCEPT ![p] = "out"] /\ pc[p] \in {"evict", "close"} /\ addr' = addr
        /\ open' = [open EXCEPT ![addr[p]] = @ \ {conn[p]}] /\ count' = count
        /\ conn' = [conn EXCEPT ![p] = NoConn]
    BY <1>6 DEF EvictClose, DropClose, CloseSocket, LetGo
  <2>2. \A a \in Addrs :
           Closing(a)' = IF a = addr[p] THEN Closing(a) \ {conn[p]} ELSE Closing(a)
    BY <1>0, <2>1, ClosingEnd
  <2>3. conn[p] \in Closing(addr[p]) BY <2>1 DEF Closing, At
  <2>4. \A a \in Addrs : Live(a)' = Live(a) BY <1>0, <2>1, <2>2, <2>3 DEF Live
  <2>5. \A a \in Addrs : Flight(a)' = Flight(a) BY <1>0, <2>1 DEF Flight, At
  <2>6. FiniteOpen' BY <1>0, <2>1, FS_RemoveElement DEF FiniteOpen
  <2> QED BY <1>a, <1>b, <2>1, <2>4, <2>5, <2>6
<1> QED
  BY <1>1, <1>2, <1>3, <1>4, <1>5, <1>6 DEF Step, PoolStep, Acquire, GiveBack

-----------------------------------------------------------------------------
(* How far the check-then-act of dialNew exceeds the limit. *)

\* The conversion to int32 never makes a limit larger.
LEMMA Int32Below == ASSUME TypeOK PROVE Int32(maxConns) \in Int /\ Int32(maxConns) <= TopLimit
BY PoolAssumption DEF PoolAssumption, Int32, TypeOK

\* Only a goroutine that has just found the counter below the limit adds to the sum.
LEMMA OvershootStep ==
    ASSUME TypeOK, OvershootBound, NEW p \in Procs, Step(p)
    PROVE  OvershootBound'
<1> USE DEF settings, locals
<1> DEFINE R(a) == At({"reserve"}, a)
<1>0. /\ pc \in [Procs -> Labels] /\ addr[p] \in Addrs /\ addr \in [Procs -> Addrs]
      /\ count \in [Addrs -> Int] /\ TopLimit \in Nat
  BY PoolAssumption DEF TypeOK, PoolAssumption
<1>a. \A a : /\ IsFiniteSet(R(a)) /\ Cardinality(R(a)) \in Nat
             /\ Cardinality(R(a)) <= Cardinality(Procs) /\ Cardinality(Procs) \in Nat
  BY AtFinite
<1>b. \A a : Cardinality(R(a)') <= Cardinality(Procs)
  <2> TAKE a
  <2>1. R(a)' \in SUBSET Procs BY DEF At
  <2>2. IsFiniteSet(Procs) BY PoolAssumption DEF PoolAssumption
  <2> QED BY <2>1, <2>2, FS_Subset
<1>1. CASE LimitPass(p)
  <2>1. /\ pc' = [pc EXCEPT ![p] = "reserve"] /\ pc[p] = "limit" /\ addr' = addr
        /\ count' = count /\ count[addr[p]] < Int32(maxConns)
    BY <1>1 DEF LimitPass, Goto
  <2> SUFFICES ASSUME NEW a \in Addrs
               PROVE  count'[a] + Cardinality(R(a)') <= TopLimit + Cardinality(Procs) - 1
    BY DEF OvershootBound
  <2>2. CASE a = addr[p]
    <3>1. count[a] \in Int /\ count[a] < TopLimit BY <1>0, <2>1, <2>2, Int32Below
    <3>2. Cardinality(R(a)') \in Nat
      <4>1. R(a)' = R(a) \union {p} BY <1>0, <2>1, <2>2 DEF At
      <4> QED BY <1>a, <4>1, FS_AddElement, FS_CardinalityType
    <3>3. Cardinality(R(a)') <= Cardinality(Procs) /\ Cardinality(Procs) \in Nat
      BY <1>a, <1>b
    <3>4. count'[a] = count[a] BY <2>1
    <3> HIDE DEF R
    <3> QED BY <1>0, <3>1, <3>2, <3>3, <3>4
  <2>3. CASE a # addr[p]
    <3>1. R(a)' = R(a) BY <1>0, <2>1, <2>3 DEF At
    <3> QED BY <2>1, <3>1 DEF OvershootBound
  <2> QED BY <2>2, <2>3
<1>2. CASE Reserve(p)
  <2>1. /\ pc' = [pc EXCEPT ![p] = "dial"] /\ pc[p] = "reserve" /\ addr' = addr
        /\ count' = [count EXCEPT ![addr[p]] = @ + 1]
    BY <1>2 DEF Reserve, AddCount
  <2>2. \A a \in Addrs : R(a)' = R(a) \ {p} /\ (p \in R(a) <=> a = addr[p])
    BY <1>0, <2>1 DEF At
  <2>3. \A a \in Addrs : Cardinality(R(a)') =
            IF a = addr[p] THEN Cardinality(R(a)) - 1 ELSE Cardinality(R(a))
    BY <1>a, <2>2, FS_RemoveElement
  <2>4. \A a \in Addrs : count'[a] = IF a = addr[p] THEN count[a] + 1 ELSE count[a]
    BY <1>0, <2>1
  <2>5. \A a \in Addrs : count[a] + Cardinality(R(a)) <= TopLimit + Cardinality(Procs) - 1
    BY DEF OvershootBound
  <2>6. \A a \in Addrs : count'[a] + Cardinality(R(a)') <= TopLimit + Cardinality(Procs) - 1
    <3> HIDE DEF R
    <3> QED BY <1>0, <1>a, <2>3, <2>4, <2>5
  <2> QED BY <2>6 DEF OvershootBound
<1>3. CASE ~LimitPass(p) /\ ~Reserve(p)
  <2>1. /\ \A a \in Addrs : count'[a] \in {count[a], count[a] - 1}
        /\ pc[p] # "reserve" /\ pc'[p] # "reserve"
        /\ \A q \in Procs \ {p} : pc'[q] = pc[q] /\ addr'[q] = addr[q]
    <3>1. CASE PoolStep(p) \/ Forget(p)
      BY <1>0, <1>3, <3>1 DEF PoolStep, KeepFresh, DropStale, UndoCount, LimitReject, DialOk,
                              DialFail, EvictClose, DropClose, CloseSocket, Forget, Labels, AddCount, Goto, LetGo
    <3>2. CASE Acquire(p) BY <1>0, <3>2 DEF Acquire, AcquirePop, AcquireEmpty, TakeTop
    <3>3. CASE GiveBack(p) BY <1>0, <3>3 DEF GiveBack, ReleasePut, ReleaseEvict, Drop, PutIdle, Uncount
    <3> QED BY <3>1, <3>2, <3>3 DEF Step
  <2>2. \A a \in Addrs : R(a)' = R(a) BY <1>0, <2>1 DEF At
  <2>3. \A a \in Addrs : count[a] + Cardinality(R(a)) <= TopLimit + Cardinality(Procs) - 1
    BY DEF OvershootBound
  <2>4. \A a \in Addrs : count'[a] + Cardinality(R(a)') <= TopLimit + Cardinality(Procs) - 1
    <3> HIDE DEF R
    <3> QED BY <1>0, <1>a, <2>1, <2>2, <2>3
  <2> QED BY <2>4 DEF OvershootBound
<1> QED BY <1>1, <1>2, <1>3

\* There are no more closing sockets than goroutines that close one.
LEMMA ClosingFew ==
    ASSUME NEW a
    PROVE  /\ IsFiniteSet(Closing(a))
           /\ Cardinality(Closing(a)) \in Nat
           /\ Cardinality(Closing(a)) <= Cardinality(At({"evict", "close"}, a))
<1> DEFINE E == At({"evict", "close"}, a)
           f == [q \in E |-> conn[q]]
<1>1. f \in Surjection(E, Closing(a)) BY DEF Surjection, Closing
<1>2. IsFiniteSet(E) BY AtFinite
<1> HIDE DEF f, E
<1>3. IsFiniteSet(Closing(a)) /\ Cardinality(Closing(a)) <= Cardinality(E)
  BY <1>1, <1>2, FS_Surjection
<1> QED BY <1>3, FS_CardinalityType DEF E

\* When a goroutine finds the counter below the limit, the sockets, the dials and the
\* goroutines that passed the same check stay within the bound.
LEMMA SocketPass ==
    ASSUME Ownership, FiniteOpen, CountExact, NEW p \in Procs, LimitPass(p), NEW a \in Addrs,
           a = addr[p]
    PROVE  Cardinality(open[a]) + Cardinality(At({"reserve", "dial"}, a)')
               <= TopLimit + Cardinality(Procs) - 1
<1> DEFINE E == At({"evict", "close"}, a)
           D == At({"dial"}, a)
           R == At({"reserve"}, a) \union {p}
           n == Cardinality(Procs)
<1>0. /\ pc \in [Procs -> Labels] /\ count[a] \in Int /\ TopLimit \in Nat
      /\ Int32(maxConns) \in Int /\ Int32(maxConns) <= TopLimit
  BY PoolAssumption, Int32Below DEF Ownership, TypeOK, PoolAssumption
<1>1. /\ pc[p] = "limit" /\ pc' = [pc EXCEPT ![p] = "reserve"] /\ addr' = addr
      /\ count[a] < Int32(maxConns)
  BY DEF LimitPass, Goto
<1>2. At({"reserve", "dial"}, a)' = R \union D BY <1>0, <1>1 DEF At
<1>3. /\ IsFiniteSet(E) /\ IsFiniteSet(D) /\ IsFiniteSet(R) /\ n \in Nat /\ IsFiniteSet(Procs)
      /\ Cardinality(E) \in Nat /\ Cardinality(D) \in Nat /\ Cardinality(R) \in Nat
  BY AtFinite, FS_AddElement, FS_CardinalityType, PoolAssumption DEF PoolAssumption
<1>4. E \intersect R = {} /\ E \union R \in SUBSET Procs BY <1>1 DEF At
<1>5. Cardinality(E) + Cardinality(R) <= n
  <2>1. Cardinality(E \union R) <= n BY <1>3, <1>4, FS_Subset
  <2>2. Cardinality(E \union R) = Cardinality(E) + Cardinality(R) - Cardinality({})
    BY <1>3, <1>4, FS_Union
  <2> HIDE DEF E, R, n
  <2> QED BY <1>3, <2>1, <2>2, FS_EmptySet
<1>6. Cardinality(R \union D) <= Cardinality(R) + Cardinality(D)
  <2>1. Cardinality(R \union D) = Cardinality(R) + Cardinality(D) - Cardinality(R \intersect D)
    BY <1>3, FS_Union
  <2>2. R \intersect D \in SUBSET R OBVIOUS
  <2>3. Cardinality(R \intersect D) \in Nat BY <1>3, <2>2, FS_Subset, FS_CardinalityType
  <2> HIDE DEF R, D
  <2> QED BY <1>3, <2>1, <2>3
<1>7. Cardinality(D) <= Cardinality(Flight(a))
  <2>1. D \in SUBSET Flight(a) BY DEF Flight, At
  <2>2. IsFiniteSet(Flight(a)) BY AtFinite DEF Flight
  <2> QED BY <2>1, <2>2, FS_Subset
<1>8. Cardinality(open[a]) <= Cardinality(Live(a)) + Cardinality(E)
  <2>1. Closing(a) \subseteq open[a] BY ClosingOpen DEF Ownership
  <2>2. open[a] \intersect Closing(a) = Closing(a) BY <2>1
  <2>0. IsFiniteSet(open[a]) BY DEF FiniteOpen
  <2>3. Cardinality(Live(a)) = Cardinality(open[a]) - Cardinality(Closing(a))
    <3> HIDE DEF E
    <3>1. Cardinality(open[a] \ Closing(a)) =
              Cardinality(open[a]) - Cardinality(open[a] \intersect Closing(a))
      BY <2>0, FS_Difference
    <3> QED BY <2>2, <3>1 DEF Live
  <2>4. Cardinality(open[a]) \in Nat BY FS_CardinalityType DEF FiniteOpen
  <2> HIDE DEF E
  <2> QED BY <1>3, <2>3, <2>4, ClosingFew DEF E
<1>9. count[a] = Cardinality(Live(a)) + Cardinality(Flight(a)) BY DEF CountExact, Live, Flight
<1>10. /\ Cardinality(Live(a)) \in Nat /\ Cardinality(Flight(a)) \in Nat
       /\ Cardinality(open[a]) \in Nat /\ Cardinality(R \union D) \in Nat
  BY <1>3, AtFinite, FS_Difference, FS_CardinalityType, FS_Union DEF Live, Flight, FiniteOpen
<1> HIDE DEF E, D, R, n
<1>11. Cardinality(open[a]) + Cardinality(R \union D) <= TopLimit + n - 1
  BY <1>0, <1>1, <1>3, <1>5, <1>6, <1>7, <1>8, <1>9, <1>10
<1> QED BY <1>2, <1>11 DEF n

\* No step opens or reserves a socket beyond the bound.
LEMMA SocketStep ==
    ASSUME Ownership, FiniteOpen, CountExact, SocketBound, NEW p \in Procs, Step(p)
    PROVE  SocketBound'
<1> USE DEF settings, locals
<1> DEFINE D(a) == At({"reserve", "dial"}, a)
           Sum(a) == Cardinality(open[a]) + Cardinality(D(a))
           Max == TopLimit + Cardinality(Procs) - 1
<1>0. /\ pc \in [Procs -> Labels] /\ addr[p] \in Addrs /\ addr \in [Procs -> Addrs]
      /\ open \in [Addrs -> SUBSET Conns] /\ TopLimit \in Nat
  BY PoolAssumption DEF TypeOK, PoolAssumption, Ownership
<1>a. \A a \in Addrs : /\ IsFiniteSet(D(a)) /\ Cardinality(D(a)) \in Nat
                       /\ IsFiniteSet(open[a]) /\ Cardinality(open[a]) \in Nat
                       /\ Cardinality(open[a]) + Cardinality(D(a)) <= Max /\ Max \in Int
  BY <1>0, AtFinite, FS_CardinalityType DEF FiniteOpen, SocketBound
<1>b. ASSUME \A a \in Addrs : Cardinality(open'[a]) + Cardinality(D(a)') <= Max
      PROVE  SocketBound'
  BY <1>b DEF SocketBound
<1>1. CASE LimitPass(p)
  <2>1. /\ pc' = [pc EXCEPT ![p] = "reserve"] /\ pc[p] = "limit" /\ addr' = addr /\ open' = open
    BY <1>1 DEF LimitPass, Goto
  <2>2. \A a \in Addrs : a # addr[p] => D(a)' = D(a) BY <1>0, <2>1 DEF At
  <2>3. ASSUME NEW a \in Addrs, a = addr[p]
        PROVE  Cardinality(open'[a]) + Cardinality(D(a)') <= Max
    BY <1>1, <2>1, <2>3, SocketPass
  <2>4. \A a \in Addrs : Cardinality(open'[a]) + Cardinality(D(a)') <= Max
    <3> HIDE DEF D, Max
    <3> QED BY <1>a, <2>1, <2>2, <2>3
  <2> QED BY <1>b, <2>4
<1>2. CASE \E c \in Conns : DialOk(p, c)
  <2>0. PICK c \in Conns : DialOk(p, c) BY <1>2
  <2>1. /\ pc' = [pc EXCEPT ![p] = "held"] /\ pc[p] = "dial" /\ addr' = addr
        /\ open' = [open EXCEPT ![addr[p]] = @ \union {c}]
        /\ \A a \in Addrs : c \notin open[a]
    BY <2>0 DEF DialOk
  <2>2. \A a \in Addrs : D(a)' = D(a) \ {p} /\ (p \in D(a) <=> a = addr[p])
    BY <1>0, <2>1 DEF At
  <2>3. \A a \in Addrs : open'[a] = IF a = addr[p] THEN open[a] \union {c} ELSE open[a]
    BY <1>0, <2>1
  <2>4. ASSUME NEW a \in Addrs PROVE Cardinality(open'[a]) + Cardinality(D(a)') <= Max
    <3>1. Cardinality(D(a)') = IF a = addr[p] THEN Cardinality(D(a)) - 1 ELSE Cardinality(D(a))
      BY <1>a, <2>2, FS_RemoveElement
    <3>2. Cardinality(open[a] \union {c}) = Cardinality(open[a]) + 1
      BY <1>a, <2>1, FS_AddElement
    <3>3. Cardinality(open'[a]) = IF a = addr[p] THEN Cardinality(open[a]) + 1 ELSE Cardinality(open[a])
      BY <2>3, <3>2
    <3> HIDE DEF D, Max
    <3> QED BY <1>a, <3>1, <3>3
  <2> QED BY <1>b, <2>4
<1>3. CASE ~LimitPass(p) /\ ~(\E c \in Conns : DialOk(p, c))
  <2>1. /\ \A a \in Addrs : open'[a] \subseteq open[a]
        /\ pc'[p] \in {"reserve", "dial"} => pc[p] \in {"reserve", "dial"} /\ addr'[p] = addr[p]
        /\ \A q \in Procs \ {p} : pc'[q] = pc[q] /\ addr'[q] = addr[q]
    <3>1. CASE PoolStep(p) \/ Forget(p)
      BY <1>0, <1>3, <3>1 DEF PoolStep, KeepFresh, DropStale, UndoCount, LimitReject, Reserve,
                              DialFail, EvictClose, DropClose, CloseSocket, Forget, AddCount, Goto, LetGo
    <3>2. CASE Acquire(p) BY <1>0, <3>2 DEF Acquire, AcquirePop, AcquireEmpty, TakeTop
    <3>3. CASE GiveBack(p) BY <1>0, <3>3 DEF GiveBack, ReleasePut, ReleaseEvict, Drop, PutIdle, Uncount
    <3> QED BY <3>1, <3>2, <3>3 DEF Step
  <2>2. \A a \in Addrs : D(a)' \in SUBSET D(a) BY <2>1 DEF At
  <2>3. ASSUME NEW a \in Addrs PROVE Cardinality(open'[a]) + Cardinality(D(a)') <= Max
    <3>1. Cardinality(D(a)') <= Cardinality(D(a)) /\ Cardinality(D(a)') \in Nat
      BY <1>a, <2>2, FS_Subset, FS_CardinalityType
    <3>2. Cardinality(open'[a]) <= Cardinality(open[a]) /\ Cardinality(open'[a]) \in Nat
      BY <1>a, <2>1, FS_Subset, FS_CardinalityType
    <3> HIDE DEF D, Max
    <3> QED BY <1>a, <3>1, <3>2
  <2> QED BY <1>b, <2>3
<1> QED BY <1>1, <1>2, <1>3

-----------------------------------------------------------------------------
(* The order of the idle stacks. *)

\* The times of idle connections are natural numbers.
LEMMA StampTypes ==
    ASSUME TypeOK, NEW a \in Addrs, NEW i \in DOMAIN free[a]
    PROVE  free[a][i].returnedAt \in Nat
<1>1. free[a] \in Seq(IdleConn) BY DEF TypeOK
<1>2. free[a][i] \in IdleConn BY <1>1
<1> QED BY <1>2 DEF IdleConn

\* Push and pop at the same end, with a clock that does not go back, keep the stack ordered.
LEMMA FreshestStep ==
    ASSUME Ownership, FreshestOnTop, NEW p \in Procs, Step(p)
    PROVE  FreshestOnTop'
<1> USE DEF settings, locals
<1>0. /\ addr[p] \in Addrs /\ now \in Nat /\ free \in [Addrs -> Seq(IdleConn)]
      /\ \A a \in Addrs : \A i \in DOMAIN free[a] : free[a][i].returnedAt \in Nat
  BY StampTypes DEF Ownership, TypeOK
<1>1. CASE \E a \in Addrs : AcquirePop(p, a)
  <2>1. PICK a \in Addrs : AcquirePop(p, a) BY <1>1
  <2>2. free[a] \in Seq(IdleConn) /\ Len(free[a]) \in Nat \ {0} /\ DOMAIN free[a] = 1..Len(free[a])
    BY <1>0, <2>1, EmptySeq DEF AcquirePop, TakeTop
  <2>3. free' = [free EXCEPT ![a] = SubSeq(free[a], 1, Len(free[a]) - 1)] /\ now' = now
    BY <2>1 DEF AcquirePop, TakeTop
  <2>4. /\ DOMAIN free'[a] = 1..(Len(free[a]) - 1)
        /\ \A i \in 1..(Len(free[a]) - 1) : free'[a][i] = free[a][i]
    BY <1>0, <2>2, <2>3
  <2>5. \A b \in Addrs : DOMAIN free'[b] \subseteq DOMAIN free[b]
                         /\ \A i \in DOMAIN free'[b] : free'[b][i] = free[b][i]
    BY <1>0, <2>2, <2>3, <2>4
  <2> QED BY <2>3, <2>5 DEF FreshestOnTop
<1>2. CASE GiveBack(p) /\ ReleasePut(p, addr[p], conn[p])
  <2>0. PICK a \in Addrs : a = addr[p] BY <1>0
  <2>1. PICK e : e = [conn |-> conn[p], returnedAt |-> now] OBVIOUS
  <2>2. /\ free' = [free EXCEPT ![a] = Append(@, e)] /\ now' = now
        /\ e.returnedAt = now
    BY <1>2, <2>0, <2>1 DEF ReleasePut, PutIdle
  <2>3. e \in IdleConn
    BY <1>0, <1>2, <2>1, LocalTypes DEF GiveBack, Owning, IdleConn, Ownership
  <2>4. /\ Len(free[a]) \in Nat /\ DOMAIN free[a] = 1..Len(free[a])
        /\ DOMAIN free'[a] = 1..(Len(free[a]) + 1)
        /\ free'[a][Len(free[a]) + 1] = e
        /\ \A i \in 1..Len(free[a]) : free'[a][i] = free[a][i]
    BY <1>0, <2>2, <2>3
  <2>5. \A b \in Addrs \ {a} : free'[b] = free[b] BY <1>0, <2>2
  <2> SUFFICES ASSUME NEW b \in Addrs, NEW i \in DOMAIN free'[b]
               PROVE  /\ free'[b][i].returnedAt <= now
                      /\ \A j \in DOMAIN free'[b] :
                             i <= j => free'[b][i].returnedAt <= free'[b][j].returnedAt
    BY <2>2 DEF FreshestOnTop
  <2>6. CASE b # a BY <2>5, <2>6 DEF FreshestOnTop
  <2>7. CASE b = a
    <3>1. i \in 1..Len(free[a]) => free'[a][i].returnedAt <= now BY <2>4 DEF FreshestOnTop
    <3>2. i \in 1..Len(free[a]) \/ i = Len(free[a]) + 1 BY <2>4, <2>7
    <3>3. free'[a][i].returnedAt <= now BY <1>0, <2>2, <2>4, <3>1, <3>2
    <3>4. ASSUME NEW j \in DOMAIN free'[a], i <= j
          PROVE  free'[a][i].returnedAt <= free'[a][j].returnedAt
      <4>1. CASE j = Len(free[a]) + 1 BY <2>2, <2>4, <3>3, <4>1
      <4>2. CASE j # Len(free[a]) + 1
        <5>1. j \in 1..Len(free[a]) /\ i \in 1..Len(free[a]) BY <2>4, <2>7, <3>4, <4>2
        <5> QED BY <2>4, <3>4, <5>1 DEF FreshestOnTop
      <4> QED BY <4>1, <4>2
    <3> QED BY <2>7, <3>3, <3>4
  <2> QED BY <2>6, <2>7
<1>3. CASE free' = free /\ now' = now BY <1>3 DEF FreshestOnTop
<1>4. \/ \E a \in Addrs : AcquirePop(p, a)
      \/ GiveBack(p) /\ ReleasePut(p, addr[p], conn[p])
      \/ free' = free /\ now' = now
  <2>1. CASE PoolStep(p) \/ Forget(p)
    BY <2>1 DEF PoolStep, KeepFresh, DropStale, UndoCount, LimitReject, LimitPass, Reserve, DialOk,
                DialFail, EvictClose, DropClose, CloseSocket, Forget, AddCount, Goto, LetGo
  <2>2. CASE Acquire(p) BY <2>2 DEF Acquire, AcquireEmpty
  <2>3. CASE GiveBack(p) BY <2>3 DEF GiveBack, ReleaseEvict, Drop, Uncount
  <2> QED BY <2>1, <2>2, <2>3 DEF Step
<1> QED BY <1>1, <1>2, <1>3, <1>4

-----------------------------------------------------------------------------
(* The inductive invariant. *)

IInv ==
    /\ Ownership
    /\ FiniteOpen
    /\ CountExact
    /\ OvershootBound
    /\ SocketBound
    /\ FreshestOnTop

\* The inductive invariant holds initially.
LEMMA IInvInit == Init => IInv
<1> SUFFICES ASSUME Init PROVE IInv OBVIOUS
<1>0. Cardinality(Procs) \in Nat \ {0} /\ TopLimit \in Nat
  BY PoolAssumption, FS_CardinalityType, FS_EmptySet DEF PoolAssumption
<1>1. \A p \in Procs : pc[p] = "out" BY DEF Init
<1>2. Ownership BY TypeInit, <1>1 DEF Init, Ownership, OwnedOnce, IdleUnowned, OneHost, NoTwice, Idle, Owning
<1>3. FiniteOpen BY FS_EmptySet DEF Init, FiniteOpen
<1>4. \A a \in Addrs : /\ Closing(a) = {} /\ At({"dial", "undo"}, a) = {}
                       /\ At({"reserve"}, a) = {} /\ At({"reserve", "dial"}, a) = {}
                       /\ open[a] = {} /\ count[a] = 0
  BY <1>1 DEF Init, Closing, At
<1>5. \A a \in Addrs : open[a] \ Closing(a) = {} BY <1>4
<1>e. Cardinality({}) = 0 BY FS_EmptySet
<1>6. CountExact BY <1>4, <1>5, <1>e DEF CountExact
<1>n. 0 + 0 <= TopLimit + Cardinality(Procs) - 1 BY <1>0
<1>7. OvershootBound
  <2>1. \A a \in Addrs : Cardinality(At({"reserve"}, a)) = 0 BY <1>4, <1>e
  <2> QED BY <1>4, <1>n, <2>1 DEF OvershootBound
<1>8. SocketBound
  <2>1. \A a \in Addrs : Cardinality(open[a]) = 0 /\ Cardinality(At({"reserve", "dial"}, a)) = 0
    BY <1>4, <1>e
  <2> QED BY <1>n, <2>1 DEF SocketBound
<1>9. FreshestOnTop BY DEF Init, FreshestOnTop
<1> QED BY <1>2, <1>3, <1>6, <1>7, <1>8, <1>9 DEF IInv

\* The inductive invariant is inductive: one step for each of its parts.
LEMMA IInvNext == IInv /\ [Next]_poolVars => IInv'
<1> SUFFICES ASSUME IInv, [Next]_poolVars PROVE IInv' OBVIOUS
<1>1. CASE \E p \in Procs : Step(p)
  <2>1. PICK p \in Procs : Step(p) BY <1>1
  <2>2. Ownership' BY <2>1, TypeStep, OwnershipStep DEF IInv, Ownership
  <2>3. FiniteOpen' /\ CountExact' BY <2>1, CountStep DEF IInv
  <2>4. OvershootBound' /\ SocketBound' BY <2>1, OvershootStep, SocketStep DEF IInv, Ownership
  <2>5. FreshestOnTop' BY <2>1, FreshestStep DEF IInv
  <2> QED BY <2>2, <2>3, <2>4, <2>5 DEF IInv
<1>2. CASE \/ \E n \in LimitArgs : MaxConnectionsPerHost(n)
           \/ \E d \in IdleArgs : IdleTimeout(d)
           \/ Tick \/ UNCHANGED poolVars
  <2>1. /\ count' = count /\ free' = free /\ open' = open
        /\ pc' = pc /\ addr' = addr /\ conn' = conn /\ stamp' = stamp
        /\ now' \in {now, now + 1}
    BY <1>2 DEF MaxConnectionsPerHost, IdleTimeout, Tick, poolVars, settings, locals, LimitOf
  <2>2. TypeOK'
    <3>1. maxConns' \in 1..TopLimit /\ idleTimeout' \in Nat \ {0}
      BY <1>2, PoolAssumption
         DEF IInv, Ownership, TypeOK, PoolAssumption, MaxConnectionsPerHost, IdleTimeout, Tick,
             poolVars, settings, locals, LimitOf
    <3> QED BY <2>1, <3>1 DEF IInv, Ownership, TypeOK
  <2>3. \A a \in Addrs : Idle(a)' = Idle(a) /\ (NoTwice(a) => NoTwice(a)') BY <2>1, IdleSame
  <2>4. \A L, a : At(L, a)' = At(L, a) BY <2>1 DEF At
  <2>5. \A a : Closing(a)' = Closing(a) BY <2>1, <2>4 DEF Closing
  <2>6. Ownership' BY <2>1, <2>2, <2>3 DEF IInv, Ownership, OwnedOnce, IdleUnowned, OneHost
  <2>7. FiniteOpen' BY <2>1 DEF IInv, FiniteOpen
  <2>8. CountExact' BY <2>1, <2>4, <2>5 DEF IInv, CountExact
  <2>9. OvershootBound' BY <2>1, <2>4 DEF IInv, OvershootBound
  <2>10. SocketBound' BY <2>1, <2>4 DEF IInv, SocketBound
  <2>11. FreshestOnTop'
    <3>1. now \in Nat /\ \A a \in Addrs : \A i \in DOMAIN free[a] : free[a][i].returnedAt \in Nat
      BY StampTypes DEF IInv, Ownership, TypeOK
    <3> QED BY <2>1, <3>1 DEF IInv, FreshestOnTop
  <2> QED BY <2>6, <2>7, <2>8, <2>9, <2>10, <2>11 DEF IInv
<1> QED BY <1>1, <1>2 DEF Next, Step

\* The invariant of which the theorems below are parts.
THEOREM Invariance == Spec => []IInv
BY IInvInit, IInvNext, PTL DEF Spec

\* Every variable of the pool keeps its type.
THEOREM TypeCorrect == Spec => []TypeOK
<1>1. IInv => TypeOK BY DEF IInv, Ownership
<1> QED BY <1>1, Invariance, PTL

\* Two goroutines never hold the same connection, and a connection that a goroutine holds
\* is open and leads to the host it asked for.
THEOREM ExclusiveUse == Spec => []OwnedOnce
<1>1. IInv => OwnedOnce BY DEF IInv, Ownership
<1> QED BY <1>1, Invariance, PTL

\* AcquireUpstreamConnection never finds a closed, used or foreign connection in a stack.
THEOREM IdleIsUsable == Spec => []IdleUnowned
<1>1. IInv => IdleUnowned BY DEF IInv, Ownership
<1> QED BY <1>1, Invariance, PTL

\* cp.count counts exactly the connections and the slots that it should.
THEOREM CounterIsExact == Spec => []CountExact
<1>1. IInv => CountExact BY DEF IInv
<1> QED BY <1>1, Invariance, PTL

\* Goroutines that race in dialNew exceed the limit by at most their number less one.
THEOREM OvershootIsBounded == Spec => []OvershootBound
<1>1. IInv => OvershootBound BY DEF IInv
<1> QED BY <1>1, Invariance, PTL

\* So do the open sockets to one host, those about to be closed included.
THEOREM SocketsAreBounded == Spec => []SocketBound
<1>1. IInv => SocketBound BY DEF IInv
<1> QED BY <1>1, Invariance, PTL

\* When the top of an idle stack is too old, the whole stack is.
THEOREM StackIsOrdered == Spec => []FreshestOnTop
<1>1. IInv => FreshestOnTop BY DEF IInv
<1> QED BY <1>1, Invariance, PTL
=============================================================================
