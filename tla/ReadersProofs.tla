--------------------------- MODULE ReadersProofs ----------------------------
(***************************************************************************)
(* Proofs about Readers, for any number of goroutines, connections and     *)
(* bufio.Readers, any buffer size and any lengths of the responses: what   *)
(* reaches a client is its own response.                                   *)
(***************************************************************************)
EXTENDS Readers, SequenceTheorems, TLAPS

\* The goroutine has a connection from the pool, ...
Holds(p) == \/ ex[p].stage \in {"await", "header", "release"}
            \/ ex[p].stage = "stream" /\ ~ex[p].returned

\* ... and a bufio.Reader of its own.
Owns(p) == \/ ex[p].stage \in {"header", "release", "done"}
           \/ ex[p].stage = "stream" /\ ~ex[p].returned

\* The connection pool leases a connection to one goroutine at a time.
LeaseOK ==
    /\ lease \in [Procs -> [host : Addrs \union {NoConn}, conn : Conns \union {NoConn}]]
    /\ idle \in [Addrs -> SUBSET Conns]
    /\ \A p \in Procs : lease[p] # P!NoLease =>
          /\ lease[p].conn \in Conns /\ lease[p].host \in Addrs
          /\ \A a \in Addrs : lease[p].conn \notin idle[a]
          /\ \A q \in Procs \ {p} : lease[q].conn # lease[p].conn
    /\ \A a, b \in Addrs : a # b => idle[a] \intersect idle[b] = {}

\* The handler and the two readers of an exchange agree on how far it is.
Staged(p) ==
    /\ IF Holds(p) THEN lease[p] # P!NoLease /\ lease[p].conn = ex[p].conn ELSE lease[p] = P!NoLease
    /\ ex[p].stage = "idle" => ex[p] = NoExchange
    /\ ex[p].stage # "idle" => ex[p].conn \in Conns
    /\ ex[p].stage = "await" => ex[p].buf = NoBuf
    /\ ex[p].stage \in {"await", "header"} => ~ex[p].returned /\ ex[p].got = <<>>
    /\ ex[p].stage \in {"release", "done"} => ex[p].returned
    /\ ex[p].stage = "stream" /\ ex[p].returned => ex[p].remain = 0
    /\ ex[p].timed \in {0, 1} /\ (~ex[p].returned => ex[p].timed = 0)

\* A bufio.Reader that an exchange has is its own, and reads from its connection.
Owned(p) == Owns(p) =>
    /\ ex[p].buf \in Bufs \ spare /\ buf[ex[p].buf].src = ex[p].conn
    /\ \A q \in Procs \ {p} : Owns(q) => ex[q].buf # ex[p].buf

\* Bytes stay with the connection they came from.
Apart ==
    /\ \A c \in Conns : /\ \A i \in DOMAIN sock[c].in : sock[c].in[i].conn = c
                        /\ \A i \in DOMAIN sock[c].due : sock[c].due[i].conn = c
    /\ \A b \in Bufs : \A i \in DOMAIN buf[b].bytes : buf[b].bytes[i].conn = buf[b].src

IInv ==
    /\ ReadersTypeOK
    /\ LeaseOK
    /\ \A p \in Procs : Staged(p)
    /\ \A p \in Procs : Owned(p)
    /\ Apart
    /\ Confined

-----------------------------------------------------------------------------
(* The bytes of an exchange. *)

Byte(b, i, k, l) == b.id = i /\ b.at = k /\ b.length = l

\* s is what the response of exchange i, of announced length l, has from place k on.
Run(s, i, k, l) == \A j \in DOMAIN s : Byte(s[j], i, k + j - 1, l)

Buffered(p) == IF ex[p].stage \in {"header", "stream"} THEN buf[ex[p].buf].bytes ELSE <<>>

\* The place of the next byte that the exchange will read.
Place(p) == IF ex[p].stage \in {"await", "header"} THEN 0 ELSE Len(ex[p].got) + 1

\* What the client has got, the reader has buffered, the socket has received and the upstream
\* has yet to send are, one after the other, the response to the exchange.
AlignedWith(p, l) ==
    LET c == ex[p].conn
        k == Place(p)
        s == Buffered(p)
    IN  /\ Run(ex[p].got, ex[p].id, 1, l)
        /\ l >= 0 => Len(ex[p].got) <= l
        /\ ex[p].stage = "stream" => ex[p].remain = IF l < 0 THEN -1 ELSE l - Len(ex[p].got)
        /\ ex[p].stage # "release" =>
              /\ Run(s, ex[p].id, k, l)
              /\ Run(sock[c].in, ex[p].id, k + Len(s), l)
              /\ Run(sock[c].due, ex[p].id, k + Len(s) + Len(sock[c].in), l)
              /\ sock[c].over = 0 /\ l >= 0 =>
                    k + Len(s) + Len(sock[c].in) + Len(sock[c].due) <= l + 1
        /\ ex[p].stage = "release" /\ ex[p].remain >= 0 /\ sock[c].over = 0 =>
              sock[c].in = <<>> /\ sock[c].due = <<>>

\* No response that is too long was sent on the connection before this exchange.
Unspoilt(p) == sock[ex[p].conn].over \in {0} \union ex[p].id..MaxExchanges

Aligned(p) == Holds(p) /\ Unspoilt(p) => \E l \in Nat \union {-1} : AlignedWith(p, l)

\* On a connection that nobody has, nothing is left of an earlier response.
Drained(c) == (\A p \in Procs : lease[p].conn # c) /\ sock[c].over = 0 =>
                  sock[c].in = <<>> /\ sock[c].due = <<>>

\* An upstream that has closed a connection sends nothing more on it.
Settled(c) == Drained(c) /\ sock[c].over <= count /\ (sock[c].state # "open" => sock[c].due = <<>>)

InOrder == (\A p \in Procs : Aligned(p)) /\ (\A c \in Conns : Settled(c))

-----------------------------------------------------------------------------
(* Sequences. *)

\* What is left of a sequence after n elements.
LEMMA Rest ==
    ASSUME NEW S, NEW s \in Seq(S), NEW n \in 0..Len(s)
    PROVE  /\ SubSeq(s, n + 1, Len(s)) \in Seq(S)
           /\ Len(SubSeq(s, n + 1, Len(s))) = Len(s) - n
           /\ \A i \in 1..(Len(s) - n) : SubSeq(s, n + 1, Len(s))[i] = s[n + i]
<1>1. Len(s) \in Nat /\ n \in Nat /\ n <= Len(s) OBVIOUS
<1>2. \A i \in (n + 1)..Len(s) : s[i] \in S BY <1>1
<1> QED BY <1>1, <1>2

\* The first n elements.
LEMMA Front ==
    ASSUME NEW S, NEW s \in Seq(S), NEW n \in 0..Len(s)
    PROVE  /\ SubSeq(s, 1, n) \in Seq(S) /\ Len(SubSeq(s, 1, n)) = n
           /\ \A i \in 1..n : SubSeq(s, 1, n)[i] = s[i]
<1>1. Len(s) \in Nat /\ n \in Nat /\ n <= Len(s) OBVIOUS
<1>2. \A i \in 1..n : s[i] \in S BY <1>1
<1> QED BY <1>1, <1>2

\* One sequence after another.
LEMMA Glue ==
    ASSUME NEW S, NEW s \in Seq(S), NEW t \in Seq(S)
    PROVE  /\ s \o t \in Seq(S) /\ Len(s \o t) = Len(s) + Len(t)
           /\ \A i \in 1..Len(s) : (s \o t)[i] = s[i]
           /\ \A i \in 1..Len(t) : (s \o t)[Len(s) + i] = t[i]
OBVIOUS

\* A sequence has elements of its set, at the places up to its length.
LEMMA Places ==
    ASSUME NEW S, NEW s \in Seq(S)
    PROVE  /\ Len(s) \in Nat /\ DOMAIN s = 1..Len(s) /\ \A i \in 1..Len(s) : s[i] \in S
           /\ s = <<>> <=> Len(s) = 0
BY EmptySeq

-----------------------------------------------------------------------------
(* Types. *)

Ids == 0..MaxExchanges
Exchange == [stage : Stages, id : Ids, conn : Conns \union {NoConn}, buf : Bufs \union {NoBuf},
             remain : Nat \union {-1}, returned : BOOLEAN, timed : Nat, got : Seq(Bytes)]
Socket == [in : Seq(Bytes), due : Seq(Bytes), state : {"open", "eof", "reset"}, over : Ids]
Buffer == [src : Conns \union {NoConn}, bytes : Seq(Bytes)]

\* The type invariant by these names.
LEMMA TypesOf ==
    ReadersTypeOK <=> /\ spare \subseteq Bufs /\ count \in Ids
                      /\ buf \in [Bufs -> Buffer] /\ sock \in [Conns -> Socket]
                      /\ ex \in [Procs -> Exchange]
BY DEF ReadersTypeOK, Ids, Exchange, Socket, Buffer

\* And so after a step.
LEMMA TypesNext ==
    ReadersTypeOK' <=> /\ spare' \subseteq Bufs /\ count' \in Ids
                       /\ buf' \in [Bufs -> Buffer] /\ sock' \in [Conns -> Socket]
                       /\ ex' \in [Procs -> Exchange]
BY DEF ReadersTypeOK, Ids, Exchange, Socket, Buffer

\* What is in place at the start, and after something is forgotten, is well typed.
LEMMA NewTypes == NoExchange \in Exchange /\ NewSocket \in Socket /\ NewBuf \in Buffer
<1>1. FALSE \in BOOLEAN OBVIOUS
<1>2. <<>> \in Seq(Bytes) BY EmptySeq
<1>3. 0 \in Ids BY ReadersAssumption DEF ReadersAssumption, Ids
<1> QED BY <1>1, <1>2, <1>3 DEF NoExchange, NewSocket, NewBuf, Exchange, Socket, Buffer, Stages

\* What a read of n bytes after a fill of k does to the bufio.Reader b and to the connection c
\* it reads from.
Took(b, c, k, n) ==
    /\ Filled(b, k) \in Seq(Bytes) /\ Len(Filled(b, k)) = Len(buf[b].bytes) + k
    /\ \A i \in 1..Len(buf[b].bytes) : Filled(b, k)[i] = buf[b].bytes[i]
    /\ \A i \in 1..k : Filled(b, k)[Len(buf[b].bytes) + i] = sock[c].in[i]
    /\ buf' = [buf EXCEPT ![b] = buf'[b]] /\ buf'[b].src = c /\ buf'[b] \in Buffer
    /\ Len(buf'[b].bytes) = Len(buf[b].bytes) + k - n
    /\ \A i \in 1..(Len(buf[b].bytes) + k - n) : buf'[b].bytes[i] = Filled(b, k)[n + i]
    /\ sock' = [sock EXCEPT ![c] = sock'[c]] /\ sock'[c] \in Socket
    /\ sock'[c].due = sock[c].due /\ sock'[c].over = sock[c].over
    /\ sock'[c].state = sock[c].state
    /\ Len(sock'[c].in) = Len(sock[c].in) - k
    /\ \A i \in 1..(Len(sock[c].in) - k) : sock'[c].in[i] = sock[c].in[k + i]

\* The bytes read come first from the buffer, then from the socket, and the others stay where
\* they are or move to the buffer.
LEMMA TakeBytesEffect ==
    ASSUME ReadersTypeOK, NEW b \in Bufs, NEW c \in Conns, buf[b].src = c,
           NEW k \in 0..Len(In(b)), NEW n \in 1..Len(Filled(b, k)), TakeBytes(b, k, n)
    PROVE  Took(b, c, k, n)
<1> DEFINE s == buf[b].bytes
           t == sock[c].in
           f == Filled(b, k)
           r == SubSeq(f, n + 1, Len(f))
           u == SubSeq(t, k + 1, Len(t))
           v == SubSeq(t, 1, k)
<1>1. /\ buf \in [Bufs -> Buffer] /\ sock \in [Conns -> Socket]
      /\ s \in Seq(Bytes) /\ t \in Seq(Bytes) /\ In(b) = t /\ k \in 0..Len(t)
  BY TypesOf DEF Buffer, Socket, In
<1>2. buf' = [buf EXCEPT ![b].bytes = r] /\ sock' = [sock EXCEPT ![c].in = u]
  BY DEF TakeBytes
<1>3. f = s \o v /\ v \in Seq(Bytes) /\ Len(v) = k /\ \A i \in 1..k : v[i] = t[i]
  BY <1>1, Front DEF Filled
<1> HIDE DEF s, t
<1>4. /\ f \in Seq(Bytes) /\ Len(f) = Len(s) + k
      /\ \A i \in 1..Len(s) : f[i] = s[i]
      /\ \A i \in 1..k : f[Len(s) + i] = t[i]
  <2> HIDE DEF f, v
  <2>1. s \in Seq(Bytes) BY <1>1
  <2>2. v \in Seq(Bytes) BY <1>3
  <2>3. /\ s \o v \in Seq(Bytes) /\ Len(s \o v) = Len(s) + Len(v)
        /\ \A i \in 1..Len(s) : (s \o v)[i] = s[i]
        /\ \A i \in 1..Len(v) : (s \o v)[Len(s) + i] = v[i]
    BY ONLY <2>1, <2>2, Glue
  <2>4. f = s \o v /\ Len(v) = k /\ \A i \in 1..k : v[i] = t[i] BY <1>3
  <2> QED BY ONLY <2>3, <2>4
<1> HIDE DEF f
<1>5. n \in 0..Len(f) /\ Len(f) \in Nat BY <1>4 DEF f
<1>6. r \in Seq(Bytes) /\ Len(r) = Len(f) - n /\ \A i \in 1..(Len(f) - n) : r[i] = f[n + i]
  BY <1>4, <1>5, Rest
<1>7. u \in Seq(Bytes) /\ Len(u) = Len(t) - k /\ \A i \in 1..(Len(t) - k) : u[i] = t[k + i]
  BY <1>1, Rest
<1> HIDE DEF r, u
<1>8. buf'[b] = [buf[b] EXCEPT !.bytes = r] /\ buf' = [buf EXCEPT ![b] = buf'[b]]
  BY <1>1, <1>2
<1>9. sock'[c] = [sock[c] EXCEPT !.in = u] /\ sock' = [sock EXCEPT ![c] = sock'[c]]
  BY <1>1, <1>2
<1>10. /\ buf[b] \in Buffer /\ buf'[b].bytes = r /\ buf'[b].src = c /\ buf'[b] \in Buffer
  BY <1>1, <1>6, <1>8 DEF Buffer
<1>11. /\ sock[c] \in Socket /\ sock'[c].in = u /\ sock'[c] \in Socket
       /\ sock'[c].due = sock[c].due /\ sock'[c].over = sock[c].over /\ sock'[c].state = sock[c].state
  <2>1. sock[c] \in Socket BY <1>1
  <2>2. u \in Seq(Bytes) BY <1>7
  <2> QED BY <1>9, <2>1, <2>2 DEF Socket
<1>12. Len(f) - n = Len(s) + k - n BY <1>4
<1>13. /\ Len(buf'[b].bytes) = Len(s) + k - n
       /\ \A i \in 1..(Len(s) + k - n) : buf'[b].bytes[i] = f[n + i]
  BY <1>6, <1>10, <1>12
<1>14. /\ Len(sock'[c].in) = Len(t) - k /\ \A i \in 1..(Len(t) - k) : sock'[c].in[i] = t[k + i]
  BY <1>7, <1>11
<1> QED BY <1>4, <1>8, <1>9, <1>10, <1>11, <1>13, <1>14 DEF s, t, f, Took
-----------------------------------------------------------------------------
(* How a step of one goroutine concerns the others: it does not. *)

\* The goroutines other than p keep their exchanges and their leases, and their readers their
\* sources: it is enough to look at p.
LEMMA OthersKeep ==
    ASSUME IInv, NEW p \in Procs,
           \A q \in Procs \ {p} : ex'[q] = ex[q] /\ lease'[q] = lease[q],
           \A q \in Procs \ {p} : Owns(q) =>
               ex[q].buf \notin spare' /\ buf'[ex[q].buf].src = buf[ex[q].buf].src,
           Staged(p)', Owned(p)'
    PROVE  (\A q \in Procs : Staged(q))' /\ (\A q \in Procs : Owned(q))'
<1>1. ASSUME NEW q \in Procs PROVE Staged(q)'
  <2>1. CASE q # p BY <2>1 DEF IInv, Staged, Holds
  <2> QED BY <2>1
<1>2. ASSUME NEW q \in Procs PROVE Owned(q)'
  <2>1. CASE q # p
    <3>1. ex'[q] = ex[q] /\ (Owns(q)' <=> Owns(q)) BY <2>1 DEF Owns
    <3>2. ASSUME Owns(q)
          PROVE  /\ ex[q].buf \in Bufs \ spare' /\ buf'[ex[q].buf].src = ex[q].conn
                 /\ \A r \in Procs \ {p, q} : Owns(r)' => ex'[r].buf # ex[q].buf
      BY <2>1, <3>2 DEF IInv, Owned, Owns
    <3>3. ASSUME Owns(q), Owns(p)' PROVE ex'[p].buf # ex[q].buf
      BY <2>1, <3>1, <3>3 DEF Owned
    <3> QED BY <3>1, <3>2, <3>3 DEF Owned
  <2> QED BY <2>1
<1> QED BY <1>1, <1>2

\* A goroutine takes a connection that is nobody's.
LEMMA Leasing ==
    ASSUME LeaseOK, NEW p \in Procs, NEW a \in Addrs, NEW c \in Conns,
           P!Reuse(p, a, c) \/ P!Connect(p, a, c)
    PROVE  /\ LeaseOK' /\ lease' = [lease EXCEPT ![p] = [host |-> a, conn |-> c]]
           /\ lease[p] = P!NoLease /\ \A q \in Procs : lease[q].conn # c
           /\ lease'[p] # P!NoLease /\ lease'[p].conn = c
<1> c # NoConn BY ReadersAssumption DEF ReadersAssumption
<1>1. \A q \in Procs : lease[q].conn # c
  BY DEF LeaseOK, P!Reuse, P!Connect, P!Leased, P!NoLease
<1>2. /\ lease' = [lease EXCEPT ![p] = [host |-> a, conn |-> c]] /\ lease[p] = P!NoLease
      /\ idle' \in [Addrs -> SUBSET Conns] /\ \A b \in Addrs : c \notin idle'[b]
      /\ \A b \in Addrs : idle'[b] \subseteq idle[b]
  BY DEF LeaseOK, P!Reuse, P!Connect
<1>3. lease'[p] = [host |-> a, conn |-> c] /\ \A q \in Procs \ {p} : lease'[q] = lease[q]
  BY <1>2 DEF LeaseOK
<1>4. lease' \in [Procs -> [host : Addrs \union {NoConn}, conn : Conns \union {NoConn}]]
  BY <1>2 DEF LeaseOK
<1>5. LeaseOK' BY <1>1, <1>2, <1>3, <1>4 DEF LeaseOK, P!NoLease
<1> QED BY <1>1, <1>2, <1>3, <1>5 DEF P!NoLease

\* It gives its connection up.
LEMMA Leaving ==
    ASSUME LeaseOK, NEW p \in Procs, P!Return(p) \/ P!Discard(p) \/ P!Abandon(p)
    PROVE  /\ LeaseOK' /\ lease' = [lease EXCEPT ![p] = P!NoLease] /\ lease[p] # P!NoLease
<1>1. lease' = [lease EXCEPT ![p] = P!NoLease] /\ lease[p] # P!NoLease
  BY DEF P!Return, P!Discard, P!Abandon
<1>2. lease'[p] = P!NoLease /\ \A q \in Procs \ {p} : lease'[q] = lease[q]
  BY <1>1 DEF LeaseOK
<1>3. lease' \in [Procs -> [host : Addrs \union {NoConn}, conn : Conns \union {NoConn}]]
  BY <1>1 DEF LeaseOK, P!NoLease
<1>4. idle' = idle \/ idle' = [idle EXCEPT ![lease[p].host] = @ \union {lease[p].conn}]
  BY DEF P!Return, P!Discard, P!Abandon
<1>5. /\ idle' \in [Addrs -> SUBSET Conns]
      /\ \A a \in Addrs : idle'[a] \subseteq idle[a] \union (IF a = lease[p].host THEN {lease[p].conn} ELSE {})
  BY <1>1, <1>4 DEF LeaseOK
<1>6. \A a \in Addrs : lease[p].conn \notin idle[a] BY <1>1 DEF LeaseOK
<1>7. \A a, b \in Addrs : a # b => idle'[a] \intersect idle'[b] = {}
  BY <1>5, <1>6 DEF LeaseOK
<1>8. ASSUME NEW q \in Procs, lease'[q] # P!NoLease
      PROVE  /\ lease'[q].conn \in Conns /\ lease'[q].host \in Addrs
             /\ \A a \in Addrs : lease'[q].conn \notin idle'[a]
             /\ \A r \in Procs \ {q} : lease'[r].conn # lease'[q].conn
  <2>1. q # p /\ lease'[q] = lease[q] /\ lease[q].conn # lease[p].conn
    BY <1>1, <1>2, <1>8 DEF LeaseOK
  <2>2. lease[q].conn \in Conns /\ lease[q].conn # NoConn
    BY <1>8, <2>1, ReadersAssumption DEF LeaseOK, ReadersAssumption
  <2>3. \A r \in Procs \ {q} : lease'[r].conn # lease'[q].conn
    BY <1>2, <1>8, <2>1, <2>2 DEF LeaseOK, P!NoLease
  <2> QED BY <1>5, <1>8, <2>1, <2>3 DEF LeaseOK
<1>9. LeaseOK' BY <1>3, <1>5, <1>7, <1>8 DEF LeaseOK
<1> QED BY <1>1, <1>9

\* A connection is leased to whoever holds it, and to nobody else.
LEMMA HeldByOne ==
    ASSUME IInv, NEW p \in Procs, NEW q \in Procs \ {p}, Holds(p), Holds(q)
    PROVE  ex[p].conn # ex[q].conn
BY DEF IInv, LeaseOK, Staged

-----------------------------------------------------------------------------
(* The inductive invariant, action by action. *)

\* At the start.
LEMMA IInvInit == ReadersInit => IInv
<1> SUFFICES ASSUME ReadersInit PROVE IInv OBVIOUS
<1> USE DEF ReadersInit, P!LeaseInit
<1>1. ReadersTypeOK
  BY TypesOf, NewTypes, ReadersAssumption DEF ReadersAssumption, Ids
<1>2. LeaseOK BY DEF LeaseOK, P!NoLease
<1>3. \A p \in Procs : Staged(p) BY DEF Staged, Holds, NoExchange
<1>4. \A p \in Procs : Owned(p) BY DEF Owned, Owns, NoExchange
<1>5. Apart BY EmptySeq DEF Apart, NewSocket, NewBuf
<1>6. Confined BY EmptySeq DEF Confined, NoExchange
<1> QED BY <1>1, <1>2, <1>3, <1>4, <1>5, <1>6 DEF IInv

\* Other goroutines' bytes are theirs still: it is enough to look at what p has got.
LEMMA ConfinedKeeps ==
    ASSUME Confined, NEW p \in Procs, \A q \in Procs \ {p} : ex'[q] = ex[q],
           \A i \in DOMAIN ex'[p].got : ex'[p].got[i].conn = ex'[p].conn
    PROVE  Confined'
BY DEF Confined

\* The m bytes that exchange i is answered with on c.
Payload(c, i, m, l) == [k \in 1..m |-> [conn |-> c, id |-> i, at |-> k - 1, length |-> l]]

\* They are bytes of the connection.
LEMMA PayloadType ==
    ASSUME NEW c \in Conns, NEW i \in 1..MaxExchanges, NEW m \in Nat, NEW l \in Nat \union {-1}
    PROVE  /\ Payload(c, i, m, l) \in Seq(Bytes) /\ Len(Payload(c, i, m, l)) = m
           /\ \A k \in 1..m : /\ Byte(Payload(c, i, m, l)[k], i, k - 1, l)
                              /\ Payload(c, i, m, l)[k].conn = c
<1> DEFINE r == Payload(c, i, m, l)
<1>1. \A k \in 1..m : [conn |-> c, id |-> i, at |-> k - 1, length |-> l] \in Bytes
  BY DEF Bytes
<1>2. r \in Seq(Bytes) /\ Len(r) = m
  <2>1. r \in [1..m -> Bytes] BY <1>1 DEF Payload
  <2> QED BY <2>1
<1>3. \A k \in 1..m : Byte(r[k], i, k - 1, l) /\ r[k].conn = c
  BY DEF Payload, Byte
<1> QED BY <1>2, <1>3

\* One field of an exchange is set.
LEMMA SetExchange ==
    ASSUME NEW e \in Exchange
    PROVE  /\ \A x \in Stages : [e EXCEPT !.stage = x] \in Exchange
           /\ \A x \in Ids : [e EXCEPT !.id = x] \in Exchange
           /\ \A x \in Conns : [e EXCEPT !.conn = x] \in Exchange
           /\ \A x \in Bufs : [e EXCEPT !.buf = x] \in Exchange
           /\ \A x \in Nat \union {-1} : [e EXCEPT !.remain = x] \in Exchange
           /\ \A x \in BOOLEAN : [e EXCEPT !.returned = x] \in Exchange
           /\ \A x \in Nat : [e EXCEPT !.timed = x] \in Exchange
           /\ \A x \in Seq(Bytes) : [e EXCEPT !.got = x] \in Exchange
<1> USE DEF Exchange
<1>1. \A x \in Stages : [e EXCEPT !.stage = x] \in Exchange OBVIOUS
<1>2. \A x \in Ids : [e EXCEPT !.id = x] \in Exchange OBVIOUS
<1>3. \A x \in Conns : [e EXCEPT !.conn = x] \in Exchange OBVIOUS
<1>4. \A x \in Bufs : [e EXCEPT !.buf = x] \in Exchange OBVIOUS
<1>5. \A x \in Nat \union {-1} : [e EXCEPT !.remain = x] \in Exchange OBVIOUS
<1>6. \A x \in BOOLEAN : [e EXCEPT !.returned = x] \in Exchange OBVIOUS
<1>7. \A x \in Nat : [e EXCEPT !.timed = x] \in Exchange OBVIOUS
<1>8. \A x \in Seq(Bytes) : [e EXCEPT !.got = x] \in Exchange OBVIOUS
<1> QED BY <1>1, <1>2, <1>3, <1>4, <1>5, <1>6, <1>7, <1>8
\* The upstream has r to send on c, of announced length l; it may be longer than that.
Answers(c, l, r) ==
    /\ sock'[c].due = sock[c].due \o r
    /\ \A i \in 1..Len(r) : Byte(r[i], count', i - 1, l) /\ r[i].conn = c
    /\ sock'[c].over = IF sock[c].over = 0 /\ l >= 0 /\ Len(r) # l + 1 THEN count' ELSE sock[c].over

\* p has sent a request on c.
Sent(p, c) ==
    /\ ex' = [ex EXCEPT ![p] = ex'[p]] /\ ex'[p] \in Exchange
    /\ ex'[p] = [NoExchange EXCEPT !.stage = "await", !.id = count', !.conn = c]
    /\ count' = count + 1 /\ count' \in 1..MaxExchanges
    /\ sock' = [sock EXCEPT ![c] = sock'[c]] /\ sock'[c] \in Socket
    /\ sock'[c].in = sock[c].in /\ sock'[c].state = sock[c].state
    /\ sock[c].state # "open" => sock'[c] = sock[c]
    /\ sock[c].state = "open" => \E l \in Nat \union {-1}, r \in Seq(Bytes) : Answers(c, l, r)

\* What a request leads to: an exchange of its own number, and a response to it that the upstream
\* will send after whatever else it was about to.
LEMMA SendEffect ==
    ASSUME IInv, NEW p \in Procs, NEW a \in Addrs, NEW c \in Conns, Send(p, a, c)
    PROVE  Sent(p, c)
<1> USE DEF Sent
<1>1. /\ sock \in [Conns -> Socket] /\ ex \in [Procs -> Exchange]
      /\ count \in Ids /\ ex[p].stage = "idle" /\ ex[p] = NoExchange
  BY TypesOf DEF IInv, Send, Staged
<1>2. count' = count + 1 /\ count' \in 1..MaxExchanges /\ count' \in Ids
  BY <1>1, ReadersAssumption DEF Send, Ids, ReadersAssumption
<1>3. ex' = [ex EXCEPT ![p].stage = "await", ![p].id = count', ![p].conn = c]
  BY DEF Send
<1> DEFINE e1 == [NoExchange EXCEPT !.stage = "await"]
           e2 == [e1 EXCEPT !.id = count']
           e3 == [e2 EXCEPT !.conn = c]
<1>4. ex'[p] = [NoExchange EXCEPT !.stage = "await", !.id = count', !.conn = c] /\ ex'[p] = e3
      /\ ex' = [ex EXCEPT ![p] = ex'[p]]
  BY <1>1, <1>3
<1>5. ex'[p] \in Exchange
  <2> HIDE DEF e1, e2, e3
  <2>1. e1 \in Exchange BY NewTypes, SetExchange DEF e1, Stages
  <2>2. e2 \in Exchange BY <2>1, <1>2, SetExchange DEF e2
  <2>3. e3 \in Exchange BY <2>2, SetExchange DEF e3
  <2> QED BY <1>4, <2>3
<1>6. PICK n \in Lengths, chunked \in BOOLEAN, extra \in 0..Surplus :
          /\ chunked => extra = 0
          /\ sock' = IF sock[c].state # "open" THEN sock
                     ELSE [sock EXCEPT ![c].due = @ \o Response(c, count', n, chunked, extra),
                                       ![c].over = IF extra > 0 /\ @ = 0 THEN count' ELSE @]
  BY DEF Send
<1>7. CASE sock[c].state # "open" BY <1>1, <1>2, <1>4, <1>5, <1>6, <1>7
<1>8. CASE sock[c].state = "open"
  <2> DEFINE r == Response(c, count', n, chunked, extra)
             l == IF chunked THEN -1 ELSE n
             o == IF extra > 0 /\ sock[c].over = 0 THEN count' ELSE sock[c].over
             d == sock[c].due \o r
  <2>1. n \in Nat /\ extra \in Nat /\ l \in Nat \union {-1} /\ -1 < 0
    BY ReadersAssumption DEF ReadersAssumption
  <2>2. /\ r \in Seq(Bytes) /\ Len(r) = n + extra + 1
        /\ \A k \in 1..(n + extra + 1) : Byte(r[k], count', k - 1, l) /\ r[k].conn = c
    <3> DEFINE m == n + extra + 1
               i == count'
    <3>1. r = Payload(c, i, m, l) BY DEF Response, Payload
    <3> HIDE DEF r, l
    <3>2. i \in 1..MaxExchanges /\ m \in Nat /\ l \in Nat \union {-1} /\ c \in Conns
      BY <1>2, <2>1
    <3> HIDE DEF i, m
    <3>3. /\ r \in Seq(Bytes) /\ Len(r) = m
          /\ \A k \in 1..m : Byte(r[k], i, k - 1, l) /\ r[k].conn = c
      BY ONLY <3>1, <3>2, PayloadType
    <3> QED BY <3>3 DEF i, m
  <2> HIDE DEF r
  <2>3. sock[c].due \in Seq(Bytes) /\ sock[c].over \in Ids /\ sock[c] \in Socket BY <1>1 DEF Socket
  <2>4. d \in Seq(Bytes) BY <2>2, <2>3, Glue
  <2>5. o \in Ids BY <1>2, <2>3
  <2>6. sock' = [sock EXCEPT ![c].due = d, ![c].over = o]
    BY <1>6, <1>8, <2>3 DEF r, Socket
  <2> HIDE DEF d, o
  <2>7. sock'[c] = [[sock[c] EXCEPT !.due = d] EXCEPT !.over = o] /\ sock' = [sock EXCEPT ![c] = sock'[c]]
    BY <1>1, <2>6
  <2>8. [sock[c] EXCEPT !.due = d] \in Socket BY <2>3, <2>4 DEF Socket
  <2>9. /\ sock'[c] \in Socket /\ sock'[c].in = sock[c].in /\ sock'[c].state = sock[c].state
        /\ sock'[c].due = d /\ sock'[c].over = o
    BY <2>3, <2>5, <2>7, <2>8 DEF Socket
  <2>10. extra > 0 <=> l >= 0 /\ Len(r) # l + 1
    <3>1. CASE chunked BY <1>6, <2>1, <3>1
    <3>2. CASE ~chunked BY <2>1, <2>2, <3>2
    <3> QED BY <3>1, <3>2
  <2>11. o = IF sock[c].over = 0 /\ l >= 0 /\ Len(r) # l + 1 THEN count' ELSE sock[c].over
    BY <2>10 DEF o
  <2>12. \A i \in 1..Len(r) : Byte(r[i], count', i - 1, l) /\ r[i].conn = c
    BY <2>2
  <2> HIDE DEF l
  <2>13. Answers(c, l, r) BY <2>9, <2>11, <2>12 DEF d, Answers
  <2> QED BY <1>2, <1>4, <1>5, <1>8, <2>1, <2>2, <2>7, <2>9, <2>13
<1> QED BY <1>7, <1>8

\* Send keeps the invariant.
LEMMA SendKeeps ==
    ASSUME IInv, NEW p \in Procs, NEW a \in Addrs, NEW c \in Conns, Send(p, a, c)
    PROVE  IInv'
<1> DEFINE e == ex'[p]
<1>0. Sent(p, c) BY SendEffect
<1>1. /\ ex' = [ex EXCEPT ![p] = e] /\ e \in Exchange
      /\ e = [NoExchange EXCEPT !.stage = "await", !.id = count', !.conn = c]
      /\ count' \in Ids /\ sock' = [sock EXCEPT ![c] = sock'[c]] /\ sock'[c] \in Socket
      /\ sock'[c].in = sock[c].in
  BY <1>0, ReadersAssumption DEF Ids, ReadersAssumption, Sent
<1>2. /\ e.stage = "await" /\ e.conn = c /\ e.buf = NoBuf /\ ~e.returned /\ e.got = <<>> /\ e.timed = 0
  BY <1>1 DEF NoExchange
<1> HIDE DEF e
<1>3. /\ spare \subseteq Bufs /\ count \in Ids /\ buf \in [Bufs -> Buffer]
      /\ sock \in [Conns -> Socket] /\ ex \in [Procs -> Exchange] /\ LeaseOK
  BY TypesOf DEF IInv
<1>4. UNCHANGED <<spare, buf>> /\ (P!Reuse(p, a, c) \/ P!Connect(p, a, c)) BY DEF Send
<1>5. /\ LeaseOK' /\ lease' = [lease EXCEPT ![p] = [host |-> a, conn |-> c]]
      /\ lease'[p] # P!NoLease /\ lease'[p].conn = c
  BY <1>3, <1>4, Leasing
<1>6. ReadersTypeOK'
  <2>1. sock' \in [Conns -> Socket] /\ ex' \in [Procs -> Exchange] BY <1>1, <1>3
  <2>2. spare' \subseteq Bufs /\ buf' \in [Bufs -> Buffer] BY <1>3, <1>4
  <2> QED BY <1>1, <2>1, <2>2, TypesNext
<1>7. ex'[p] = e /\ \A q \in Procs \ {p} : ex'[q] = ex[q] /\ lease'[q] = lease[q]
  BY <1>1, <1>3, <1>5 DEF LeaseOK
<1>8. Staged(p)' BY <1>2, <1>5, <1>7 DEF Staged, Holds
<1>9. Owned(p)' BY <1>2, <1>7 DEF Owned, Owns
<1>10. (\A q \in Procs : Staged(q))' /\ (\A q \in Procs : Owned(q))'
  <2>1. \A q \in Procs \ {p} : Owns(q) =>
            ex[q].buf \notin spare' /\ buf'[ex[q].buf].src = buf[ex[q].buf].src
    BY <1>4 DEF IInv, Owned
  <2> QED BY <1>7, <1>8, <1>9, <2>1, OthersKeep
<1>11. \A i \in DOMAIN sock'[c].due : sock'[c].due[i].conn = c
  <2>1. CASE sock[c].state # "open" BY <1>0, <2>1 DEF IInv, Apart, Sent
  <2>2. CASE sock[c].state = "open"
    <3>1. PICK r \in Seq(Bytes) : /\ sock'[c].due = sock[c].due \o r
                                  /\ \A i \in 1..Len(r) : r[i].conn = c
      BY <1>0, <2>2 DEF Answers, Sent
    <3>2. sock[c].due \in Seq(Bytes) /\ \A i \in 1..Len(sock[c].due) : sock[c].due[i].conn = c
      BY <1>3, Places DEF Socket, IInv, Apart
    <3> DEFINE s == sock[c].due
    <3> HIDE DEF s
    <3>3. s \in Seq(Bytes) /\ (\A i \in 1..Len(s) : s[i].conn = c) /\ sock'[c].due = s \o r BY <3>1, <3>2 DEF s
    <3>4. \A i \in DOMAIN (s \o r) : (s \o r)[i].conn = c
      BY ONLY <3>1, <3>3
    <3> QED BY <3>3, <3>4
  <2> QED BY <2>1, <2>2
<1>12. Apart' BY <1>1, <1>3, <1>4, <1>11 DEF IInv, Apart
<1>13. Confined'
  <2>1. \A i \in DOMAIN ex'[p].got : ex'[p].got[i].conn = ex'[p].conn BY <1>2, <1>7, EmptySeq
  <2> QED BY <1>7, <2>1, ConfinedKeeps DEF IInv
<1> QED BY <1>5, <1>6, <1>10, <1>12, <1>13 DEF IInv
\* AcquireBufIOReader keeps it: a reader of the pool, or one that nobody refers to, is nobody's.
LEMMA AcquireKeeps ==
    ASSUME IInv, NEW p \in Procs, NEW b \in Bufs, AcquireBufIOReader(p, b)
    PROVE  IInv'
<1>1. /\ spare \subseteq Bufs /\ count \in Ids /\ buf \in [Bufs -> Buffer]
      /\ sock \in [Conns -> Socket] /\ ex \in [Procs -> Exchange] /\ LeaseOK
  BY TypesOf DEF IInv
<1> DEFINE e == [[ex[p] EXCEPT !.stage = "header"] EXCEPT !.buf = b]
           v == [src |-> ex[p].conn, bytes |-> <<>>]
<1>2. /\ ex[p].stage = "await" /\ ex' = [ex EXCEPT ![p] = e] /\ buf' = [buf EXCEPT ![b] = v]
      /\ spare' = spare \ {b} /\ UNCHANGED <<pool, sock, count>>
  BY <1>1 DEF AcquireBufIOReader, Reset
<1>3. [ex[p] EXCEPT !.stage = "header"] \in Exchange /\ ex[p] \in Exchange
  BY <1>1, SetExchange DEF Stages
<1>4. e \in Exchange BY <1>3, SetExchange
<1>5. /\ e.stage = "header" /\ e.buf = b /\ e.conn = ex[p].conn /\ e.got = ex[p].got
      /\ e.returned = ex[p].returned /\ e.timed = ex[p].timed
  BY <1>3 DEF Exchange
<1>6. v \in Buffer /\ v.src = ex[p].conn /\ v.bytes = <<>>
  <2>1. <<>> \in Seq(Bytes) BY EmptySeq
  <2> QED BY <1>3, <2>1 DEF Exchange, Buffer
<1> HIDE DEF e, v
<1>7. ReadersTypeOK'
  <2>1. spare' \subseteq Bufs /\ count' \in Ids /\ sock' \in [Conns -> Socket] BY <1>1, <1>2 DEF pool
  <2>2. buf' \in [Bufs -> Buffer] /\ ex' \in [Procs -> Exchange] BY <1>1, <1>2, <1>4, <1>6
  <2> QED BY <2>1, <2>2, TypesNext
<1>8. LeaseOK' /\ lease' = lease BY <1>1, <1>2 DEF LeaseOK, pool
<1>9. ex'[p] = e /\ \A q \in Procs \ {p} : ex'[q] = ex[q] /\ lease'[q] = lease[q]
  BY <1>1, <1>2, <1>8
<1>10. \A q \in Procs \ {p} : Owns(q) =>
           /\ ex[q].buf # b /\ ex[q].buf \notin spare'
           /\ buf'[ex[q].buf].src = buf[ex[q].buf].src
  BY <1>1, <1>2 DEF IInv, Owned, AcquireBufIOReader
<1>11. Staged(p)' BY <1>2, <1>5, <1>8, <1>9 DEF IInv, Staged, Holds
<1>12. Owned(p)'
  <2>1. buf'[b] = v BY <1>1, <1>2
  <2> QED BY <1>2, <1>5, <1>6, <1>9, <1>10, <2>1 DEF Owned, Owns
<1>13. (\A q \in Procs : Staged(q))' /\ (\A q \in Procs : Owned(q))'
  BY <1>9, <1>10, <1>11, <1>12, OthersKeep
<1>14. Apart' BY <1>1, <1>2, <1>6, EmptySeq DEF IInv, Apart
<1>15. Confined' BY <1>5, <1>9, ConfinedKeeps DEF IInv, Confined
<1> QED BY <1>7, <1>8, <1>13, <1>14, <1>15 DEF IInv

\* A read keeps bytes with their connections, and what is read comes from the connection.
LEMMA TookApart ==
    ASSUME IInv, NEW b \in Bufs, NEW c \in Conns, NEW k \in 0..Len(sock[c].in),
           NEW n \in 1..Len(Filled(b, k)), buf[b].src = c, Took(b, c, k, n)
    PROVE  /\ Apart' /\ buf' \in [Bufs -> Buffer] /\ sock' \in [Conns -> Socket]
           /\ \A a \in Bufs : buf'[a].src = buf[a].src
           /\ \A i \in 1..Len(Filled(b, k)) : Filled(b, k)[i].conn = c
<1>1. /\ buf \in [Bufs -> Buffer] /\ sock \in [Conns -> Socket] BY TypesOf DEF IInv
<1>2. /\ buf[b].bytes \in Seq(Bytes) /\ sock[c].in \in Seq(Bytes)
      /\ Len(buf[b].bytes) \in Nat /\ Len(sock[c].in) \in Nat
      /\ \A i \in 1..Len(buf[b].bytes) : buf[b].bytes[i].conn = c
      /\ \A i \in 1..Len(sock[c].in) : sock[c].in[i].conn = c
  BY <1>1, Places DEF Buffer, Socket, IInv, Apart
<1>3. /\ buf' = [buf EXCEPT ![b] = buf'[b]] /\ buf'[b].src = c /\ buf'[b] \in Buffer
      /\ sock' = [sock EXCEPT ![c] = sock'[c]] /\ sock'[c] \in Socket
      /\ sock'[c].due = sock[c].due
  BY DEF Took
<1> DEFINE f == Filled(b, k)
           m == Len(buf[b].bytes)
           h == Len(sock[c].in)
<1>4. /\ f \in Seq(Bytes) /\ Len(f) = m + k /\ m \in Nat /\ h \in Nat /\ k \in 0..h /\ n \in 1..(m + k)
      /\ \A i \in 1..m : f[i] = buf[b].bytes[i]
      /\ \A i \in 1..k : f[m + i] = sock[c].in[i]
      /\ \A i \in 1..(m + k - n) : buf'[b].bytes[i] = f[n + i]
      /\ \A i \in 1..(h - k) : sock'[c].in[i] = sock[c].in[k + i]
      /\ DOMAIN buf'[b].bytes = 1..(m + k - n) /\ DOMAIN sock'[c].in = 1..(h - k)
  <2>1. buf'[b].bytes \in Seq(Bytes) /\ sock'[c].in \in Seq(Bytes) BY <1>3 DEF Buffer, Socket
  <2>2. DOMAIN buf'[b].bytes = 1..Len(buf'[b].bytes) /\ DOMAIN sock'[c].in = 1..Len(sock'[c].in)
    BY <2>1
  <2> QED BY <1>2, <2>2 DEF Took
<1>5. (\A i \in 1..m : buf[b].bytes[i].conn = c) /\ (\A i \in 1..h : sock[c].in[i].conn = c)
  BY <1>2
<1> HIDE DEF f, m, h
<1>6. /\ \A i \in 1..(m + k) : f[i].conn = c
      /\ \A i \in DOMAIN buf'[b].bytes : buf'[b].bytes[i].conn = c
      /\ \A i \in DOMAIN sock'[c].in : sock'[c].in[i].conn = c
  <2>1. ASSUME NEW i \in 1..(m + k) PROVE f[i].conn = c
    <3>1. CASE i <= m
      <4>1. i \in 1..m BY <1>4, <3>1
      <4>2. f[i] = buf[b].bytes[i] BY <1>4, <4>1
      <4>3. buf[b].bytes[i].conn = c BY <1>5, <4>1
      <4> QED BY <4>2, <4>3
    <3>2. CASE i > m
      <4> DEFINE j == i - m
      <4>1. j \in 1..k /\ j \in 1..h /\ i = m + j BY <1>4, <3>2
      <4> HIDE DEF j
      <4> QED BY <1>4, <1>5, <4>1
    <3> QED BY <1>4, <3>1, <3>2
  <2>2. ASSUME NEW i \in 1..(m + k - n) PROVE buf'[b].bytes[i].conn = c
    <3>1. n + i \in 1..(m + k) BY <1>4
    <3> QED BY <1>4, <2>1, <3>1
  <2>3. ASSUME NEW i \in 1..(h - k) PROVE sock'[c].in[i].conn = c
    <3>1. k + i \in 1..h BY <1>4
    <3> QED BY <1>4, <1>5, <3>1
  <2> QED BY <1>4, <2>1, <2>2, <2>3
<1>7. buf' \in [Bufs -> Buffer] /\ sock' \in [Conns -> Socket] BY <1>1, <1>3
<1>8. \A a \in Bufs : buf'[a].src = buf[a].src BY <1>1, <1>3
<1>9. Apart' BY <1>1, <1>3, <1>6 DEF IInv, Apart
<1>10. \A i \in 1..Len(Filled(b, k)) : Filled(b, k)[i].conn = c BY <1>4, <1>6 DEF f
<1> QED BY <1>7, <1>8, <1>9, <1>10
\* ReadHeader keeps it.
LEMMA ReadHeaderKeeps ==
    ASSUME IInv, NEW p \in Procs, ReadHeader(p)
    PROVE  IInv'
<1> DEFINE b == ex[p].buf
           c == ex[p].conn
<1>1. /\ spare \subseteq Bufs /\ count \in Ids /\ buf \in [Bufs -> Buffer]
      /\ sock \in [Conns -> Socket] /\ ex \in [Procs -> Exchange] /\ LeaseOK
      /\ ReadersTypeOK /\ ex[p] \in Exchange
  BY TypesOf DEF IInv
<1>2. /\ ex[p].stage = "header" /\ b \in Bufs \ spare /\ c \in Conns /\ buf[b].src = c
      /\ UNCHANGED <<pool, count, spare>>
  BY DEF ReadHeader, ParseHeader, IInv, Owned, Owns, Staged
<1>3. PICK k \in 0..Len(In(b)) :
          /\ Filled(b, k) # <<>> /\ TakeBytes(b, k, 1)
          /\ ex' = [ex EXCEPT ![p].stage = "stream", ![p].remain = Head(Filled(b, k)).length]
  BY DEF ReadHeader, ParseHeader
<1> DEFINE f == Filled(b, k)
           e == [[ex[p] EXCEPT !.stage = "stream"] EXCEPT !.remain = Head(f).length]
<1> HIDE DEF b, c
<1>4. In(b) = sock[c].in BY <1>2 DEF In
<1>5. 1 \in 1..Len(f) /\ Head(f) \in Bytes
  <2>1. f \in Seq(Bytes)
    <3>1. buf[b].bytes \in Seq(Bytes) BY <1>1, <1>2 DEF Buffer
    <3>2. sock[c].in \in Seq(Bytes) BY <1>1, <1>2 DEF Socket
    <3>3. SubSeq(In(b), 1, k) \in Seq(Bytes) BY <1>3, <1>4, <3>2, Front
    <3> QED BY <3>1, <3>3, Glue DEF Filled
  <2> HIDE DEF f
  <2>2. f # <<>> BY <1>3 DEF f
  <2> QED BY <2>1, <2>2
<1>6. Took(b, c, k, 1) BY <1>1, <1>2, <1>3, <1>5, TakeBytesEffect
<1>7. /\ Apart' /\ buf' \in [Bufs -> Buffer] /\ sock' \in [Conns -> Socket]
      /\ \A a \in Bufs : buf'[a].src = buf[a].src
  BY <1>2, <1>3, <1>4, <1>5, <1>6, TookApart
<1>8. ex' = [ex EXCEPT ![p] = e] BY <1>1, <1>3
<1> HIDE DEF f
<1>9. [ex[p] EXCEPT !.stage = "stream"] \in Exchange BY <1>1, SetExchange DEF Stages
<1>10. e \in Exchange
  <2>1. Head(f).length \in Nat \union {-1} BY <1>5 DEF Bytes
  <2> QED BY <1>9, <2>1, SetExchange
<1>11. /\ e.stage = "stream" /\ e.buf = b /\ e.conn = c /\ e.got = ex[p].got
       /\ e.returned = ex[p].returned /\ e.timed = ex[p].timed
  BY <1>1 DEF Exchange, b, c
<1> HIDE DEF e
<1>12. ReadersTypeOK'
  <2>1. ex' \in [Procs -> Exchange] BY <1>1, <1>8, <1>10
  <2> QED BY <1>1, <1>2, <1>7, <2>1, TypesNext
<1>13. LeaseOK' /\ lease' = lease BY <1>1, <1>2 DEF LeaseOK, pool
<1>14. ex'[p] = e /\ \A q \in Procs \ {p} : ex'[q] = ex[q] /\ lease'[q] = lease[q]
  BY <1>1, <1>8, <1>13
<1>15. Staged(p)' BY <1>2, <1>11, <1>13, <1>14 DEF IInv, Staged, Holds, c
<1>16. \A q \in Procs \ {p} : Owns(q) =>
           /\ ex[q].buf # b /\ ex[q].buf \notin spare'
           /\ buf'[ex[q].buf].src = buf[ex[q].buf].src
  BY <1>2, <1>7 DEF IInv, Owned, Owns, b
<1>17. Owned(p)' BY <1>2, <1>7, <1>11, <1>14, <1>16 DEF Owned, Owns
<1>18. (\A q \in Procs : Staged(q))' /\ (\A q \in Procs : Owned(q))'
  BY <1>14, <1>15, <1>16, <1>17, OthersKeep
<1>19. Confined' BY <1>11, <1>14, ConfinedKeeps DEF IInv, Confined, c
<1> QED BY <1>7, <1>12, <1>13, <1>18, <1>19 DEF IInv

\* A connection, or a bufio.Reader, that is forgotten is as new.
LEMMA Forgetting ==
    ASSUME IInv, NEW c \in Conns, NEW b \in Bufs \union {NoBuf},
           Forget(c) \/ sock' = sock, ForgetBuf(b) \/ buf' = buf
    PROVE  /\ Apart' /\ sock' \in [Conns -> Socket] /\ buf' \in [Bufs -> Buffer]
           /\ \A a \in Bufs \ {b} : buf'[a] = buf[a]
<1>1. buf \in [Bufs -> Buffer] /\ sock \in [Conns -> Socket] BY TypesOf DEF IInv
<1>2. sock' \in [Conns -> Socket] /\ buf' \in [Bufs -> Buffer]
  BY <1>1, NewTypes DEF Forget, ForgetBuf
<1>3. Apart' BY <1>1, EmptySeq DEF Forget, ForgetBuf, IInv, Apart, NewSocket, NewBuf
<1>4. \A a \in Bufs \ {b} : buf'[a] = buf[a] BY <1>1 DEF ForgetBuf
<1> QED BY <1>2, <1>3, <1>4

\* The end of an exchange: its connection is given up and its reader dropped, or was already.
LEMMA EndKeeps ==
    ASSUME IInv, NEW p \in Procs, ex[p].stage # "idle",
           ex' = [ex EXCEPT ![p] = NoExchange],
           LeaseOK', lease' = [lease EXCEPT ![p] = P!NoLease],
           Forget(ex[p].conn) \/ sock' = sock, count' = count,
           \/ spare' = spare /\ ForgetBuf(ex[p].buf) /\ (Owns(p) \/ ex[p].buf = NoBuf)
           \/ buf' = buf /\ spare' = spare
           \/ buf' = buf /\ spare' = spare \union {ex[p].buf} /\ Owns(p)
    PROVE  IInv'
<1>1. /\ spare \subseteq Bufs /\ count \in Ids /\ ex \in [Procs -> Exchange] /\ ex[p] \in Exchange
      /\ ex[p].buf \in Bufs \union {NoBuf}
  BY TypesOf DEF IInv, Exchange
<1>2. ex[p].conn \in Conns /\ (Owns(p) => ex[p].buf \in Bufs) BY DEF IInv, Staged, Owned
<1>3. /\ Apart' /\ sock' \in [Conns -> Socket] /\ buf' \in [Bufs -> Buffer]
      /\ \A a \in Bufs \ {ex[p].buf} : buf'[a] = buf[a]
  BY <1>1, <1>2, Forgetting
<1>4. ex' \in [Procs -> Exchange] /\ spare' \subseteq Bufs BY <1>1, <1>2, NewTypes
<1>5. ReadersTypeOK' BY <1>1, <1>3, <1>4, TypesNext
<1>6. /\ ex'[p] = NoExchange /\ lease'[p] = P!NoLease
      /\ \A q \in Procs \ {p} : ex'[q] = ex[q] /\ lease'[q] = lease[q]
  BY <1>1 DEF IInv, LeaseOK
<1>7. Staged(p)' BY <1>6 DEF Staged, Holds, NoExchange
<1>8. Owned(p)' BY <1>6 DEF Owned, Owns, NoExchange
<1>9. \A q \in Procs \ {p} : Owns(q) =>
          ex[q].buf \notin spare' /\ buf'[ex[q].buf].src = buf[ex[q].buf].src
  <2>1. ASSUME NEW q \in Procs \ {p}, Owns(q)
        PROVE ex[q].buf \in Bufs \ spare /\ (Owns(p) => ex[q].buf # ex[p].buf)
    BY <2>1 DEF IInv, Owned
  <2> QED BY <1>3, <2>1, ReadersAssumption DEF ReadersAssumption, ForgetBuf
<1>10. (\A q \in Procs : Staged(q))' /\ (\A q \in Procs : Owned(q))'
  BY <1>6, <1>7, <1>8, <1>9, OthersKeep
<1>11. Confined'
  <2>1. \A i \in DOMAIN ex'[p].got : ex'[p].got[i].conn = ex'[p].conn
    BY <1>6, EmptySeq DEF NoExchange
  <2> QED BY <1>6, <2>1, ConfinedKeeps DEF IInv
<1> QED BY <1>3, <1>5, <1>10, <1>11 DEF IInv
\* ExchangeFailed keeps it.
LEMMA ExchangeFailedKeeps ==
    ASSUME IInv, NEW p \in Procs, ExchangeFailed(p)
    PROVE  IInv'
<1>1. /\ LeaseOK' /\ lease' = [lease EXCEPT ![p] = P!NoLease]
  BY Leaving DEF IInv, ExchangeFailed
<1>2. /\ ex[p].stage # "idle" /\ ex' = [ex EXCEPT ![p] = NoExchange] /\ Forget(ex[p].conn)
      /\ spare' = spare /\ count' = count /\ ForgetBuf(ex[p].buf)
      /\ (Owns(p) \/ ex[p].buf = NoBuf)
  BY DEF ExchangeFailed, IInv, Staged, Owns
<1> QED BY <1>1, <1>2, EndKeeps

\* StopReading keeps it.
LEMMA StopReadingKeeps ==
    ASSUME IInv, NEW p \in Procs, StopReading(p)
    PROVE  IInv'
<1>1. /\ ex[p].stage = "stream" /\ ex' = [ex EXCEPT ![p] = NoExchange]
      /\ spare' = spare /\ count' = count
  BY DEF StopReading
<1>2. CASE lease[p] = P!NoLease
  <2>1. UNCHANGED <<pool, buf, sock>> BY <1>2 DEF StopReading
  <2>2. LeaseOK' /\ lease' = [lease EXCEPT ![p] = P!NoLease] BY <1>2, <2>1 DEF IInv, LeaseOK, pool
  <2> QED BY <1>1, <2>1, <2>2, EndKeeps
<1>3. CASE lease[p] # P!NoLease
  <2>1. P!Abandon(p) /\ Forget(ex[p].conn) /\ ForgetBuf(ex[p].buf) BY <1>3 DEF StopReading
  <2>2. LeaseOK' /\ lease' = [lease EXCEPT ![p] = P!NoLease] BY <2>1, Leaving DEF IInv
  <2>3. Owns(p) BY <1>1, <1>3 DEF IInv, Staged, Holds, Owns
  <2> QED BY <1>1, <2>1, <2>2, <2>3, EndKeeps
<1> QED BY <1>2, <1>3

\* GiveBack keeps it: the reader stays with the exchange until onDone.
LEMMA GiveBackKeeps ==
    ASSUME IInv, NEW p \in Procs, GiveBack(p)
    PROVE  IInv'
<1> DEFINE e == [ex[p] EXCEPT !.stage = "done"]
<1>1. /\ spare \subseteq Bufs /\ count \in Ids /\ buf \in [Bufs -> Buffer]
      /\ ex \in [Procs -> Exchange] /\ ex[p] \in Exchange
  BY TypesOf DEF IInv
<1>2. /\ ex[p].stage = "release" /\ UNCHANGED <<spare, buf, count>>
      /\ (Forget(ex[p].conn) \/ sock' = sock) /\ ex[p].conn \in Conns
      /\ ex' = [ex EXCEPT ![p] = e]
  BY <1>1 DEF GiveBack, IInv, Staged
<1>3. LeaseOK' /\ lease' = [lease EXCEPT ![p] = P!NoLease]
  BY Leaving DEF IInv, GiveBack
<1>4. /\ e \in Exchange /\ e.stage = "done" /\ e.buf = ex[p].buf /\ e.conn = ex[p].conn
      /\ e.got = ex[p].got /\ e.returned = ex[p].returned /\ e.timed = ex[p].timed
  <2>1. e \in Exchange BY <1>1, SetExchange DEF Stages
  <2> QED BY <1>1, <2>1 DEF Exchange
<1> HIDE DEF e
<1>5. Apart' /\ sock' \in [Conns -> Socket] /\ buf' \in [Bufs -> Buffer]
  <2>1. ex[p].conn \in Conns BY <1>2 DEF IInv, Staged
  <2> QED BY <1>2, <2>1, Forgetting
<1>6. ReadersTypeOK'
  <2>1. ex' \in [Procs -> Exchange] BY <1>1, <1>2, <1>4
  <2> QED BY <1>1, <1>2, <1>5, <2>1, TypesNext
<1>7. /\ ex'[p] = e /\ lease'[p] = P!NoLease
      /\ \A q \in Procs \ {p} : ex'[q] = ex[q] /\ lease'[q] = lease[q]
  BY <1>1, <1>2, <1>3 DEF IInv, LeaseOK
<1>8. Staged(p)' BY <1>2, <1>4, <1>7 DEF IInv, Staged, Holds
<1>9. \A q \in Procs \ {p} : Owns(q) =>
          /\ ex[q].buf # ex[p].buf /\ ex[q].buf \notin spare'
          /\ buf'[ex[q].buf].src = buf[ex[q].buf].src
  BY <1>2 DEF IInv, Owned, Owns
<1>10. Owned(p)' BY <1>2, <1>4, <1>7, <1>9 DEF IInv, Owned, Owns
<1>11. (\A q \in Procs : Staged(q))' /\ (\A q \in Procs : Owned(q))'
  BY <1>7, <1>8, <1>9, <1>10, OthersKeep
<1>12. Confined' BY <1>4, <1>7, ConfinedKeeps DEF IInv, Confined
<1> QED BY <1>3, <1>5, <1>6, <1>11, <1>12 DEF IInv

\* OnDone keeps it: fasthttp reads on only where the PoolReader answers EOF.
LEMMA OnDoneKeeps ==
    ASSUME IInv, NEW p \in Procs, OnDone(p)
    PROVE  IInv'
<1>1. /\ spare \subseteq Bufs /\ count \in Ids /\ buf \in [Bufs -> Buffer]
      /\ sock \in [Conns -> Socket] /\ ex \in [Procs -> Exchange] /\ ex[p] \in Exchange
  BY TypesOf DEF IInv
<1>2. /\ ex[p].stage = "done" /\ spare' = spare \union {ex[p].buf} /\ UNCHANGED <<pool, buf, sock, count>>
      /\ ex' = [ex EXCEPT ![p] = IF @.remain = 0 THEN [@ EXCEPT !.stage = "stream"] ELSE NoExchange]
  BY DEF OnDone
<1>3. LeaseOK' /\ lease' = lease /\ lease[p] = P!NoLease /\ lease' = [lease EXCEPT ![p] = P!NoLease]
  BY <1>2 DEF IInv, LeaseOK, Staged, Holds, pool
<1>4. Owns(p) /\ ex[p].buf \in Bufs BY <1>2 DEF IInv, Owns, Owned
<1>5. CASE ex[p].remain # 0
  <2>1. ex' = [ex EXCEPT ![p] = NoExchange] BY <1>1, <1>2, <1>5
  <2> QED BY <1>2, <1>3, <1>4, <2>1, EndKeeps
<1>6. CASE ex[p].remain = 0
  <2> DEFINE e == [ex[p] EXCEPT !.stage = "stream"]
  <2>1. ex' = [ex EXCEPT ![p] = e] BY <1>1, <1>2, <1>6
  <2>2. /\ e \in Exchange /\ e.stage = "stream" /\ e.buf = ex[p].buf /\ e.conn = ex[p].conn /\ e.remain = 0
        /\ e.got = ex[p].got /\ e.returned = ex[p].returned /\ e.timed = ex[p].timed
    <3>1. e \in Exchange BY <1>1, SetExchange DEF Stages
    <3> QED BY <1>1, <1>6, <3>1 DEF Exchange
  <2> HIDE DEF e
  <2>3. ReadersTypeOK'
    <3>1. ex' \in [Procs -> Exchange] /\ spare' \subseteq Bufs BY <1>1, <1>2, <1>4, <2>1, <2>2
    <3> QED BY <1>1, <1>2, <3>1, TypesNext
  <2>4. ex'[p] = e /\ \A q \in Procs \ {p} : ex'[q] = ex[q] /\ lease'[q] = lease[q]
    BY <1>1, <1>3, <2>1
  <2>5. Staged(p)' BY <1>2, <1>3, <2>2, <2>4 DEF IInv, Staged, Holds
  <2>6. Owned(p)' BY <1>2, <2>2, <2>4 DEF IInv, Owned, Owns, Staged
  <2>7. \A q \in Procs \ {p} : Owns(q) =>
            ex[q].buf \notin spare' /\ buf'[ex[q].buf].src = buf[ex[q].buf].src
    BY <1>2, <1>4 DEF IInv, Owned
  <2>8. (\A q \in Procs : Staged(q))' /\ (\A q \in Procs : Owned(q))'
    BY <2>4, <2>5, <2>6, <2>7, OthersKeep
  <2>9. Apart' BY <1>2 DEF IInv, Apart
  <2>10. Confined' BY <2>2, <2>4, ConfinedKeeps DEF IInv, Confined
  <2> QED BY <1>3, <2>3, <2>8, <2>9, <2>10 DEF IInv
<1> QED BY <1>5, <1>6
\* The exchange e after a read of bs, with err: it has got those bytes, and is through at the
\* announced length or at an error.
Advanced(e, f, bs, err) ==
    /\ f \in Exchange /\ f.id = e.id /\ f.conn = e.conn /\ f.buf = e.buf
    /\ f.got = e.got \o bs
    /\ f.remain = IF e.remain > 0 THEN e.remain - Len(bs) ELSE e.remain
    /\ f.returned <=> f.remain = 0 \/ err # "none"
    /\ f.stage = IF f.returned THEN "release" ELSE "stream"
    /\ f.timed \in {0, 1} /\ (~f.returned => f.timed = 0)

\* That is what AfterRead comes to for an exchange that has not given its connection back.
LEMMA AfterReadEffect ==
    ASSUME NEW e \in Exchange, e.stage = "stream", e.remain # 0, ~e.returned, e.timed = 0,
           NEW bs \in Seq(Bytes), e.remain > 0 => Len(bs) <= e.remain,
           NEW err \in {"none", "eof", "reset"}
    PROVE  Advanced(e, AfterRead(e, bs, err), bs, err)
<1> DEFINE left == CountDown(e, Len(bs))
           over == (e.remain > 0 /\ left <= 0) \/ err # "none"
           o == Observed(Len(bs), err)
           f1 == [e EXCEPT !.remain = left]
           g == e.got \o bs
           f2 == [f1 EXCEPT !.got = g]
           t == e.timed + o
           f3 == [f2 EXCEPT !.timed = t]
           r == e.returned \/ over
           f4 == [f3 EXCEPT !.returned = r]
           s == IF over /\ ~e.returned THEN "release" ELSE e.stage
           f5 == [f4 EXCEPT !.stage = s]
<1>1. AfterRead(e, bs, err) = f5 BY DEF AfterRead
<1>2. /\ Len(bs) \in Nat /\ e.remain \in Nat \union {-1} /\ e.got \in Seq(Bytes)
  BY DEF Exchange
<1>3. /\ left \in Nat \union {-1}
      /\ left = IF e.remain > 0 THEN e.remain - Len(bs) ELSE e.remain
      /\ over <=> left = 0 \/ err # "none"
  BY <1>2 DEF CountDown
<1>4. o \in {0, 1} /\ (err = "none" => o = 0) BY DEF Observed
<1>5. g \in Seq(Bytes) BY <1>2, Glue
<1>6. r \in BOOLEAN /\ (r <=> over) OBVIOUS
<1>7. s \in Stages /\ (s = IF r THEN "release" ELSE "stream") BY DEF Stages
<1>8. t \in Nat /\ t \in {0, 1} /\ (~over => t = 0) BY <1>4
<1> HIDE DEF left, over, o, g, t, r, s
<1>9. f1 \in Exchange BY <1>3, SetExchange
<1> HIDE DEF f1
<1>10. f2 \in Exchange BY <1>5, <1>9, SetExchange
<1> HIDE DEF f2
<1>11. f3 \in Exchange BY <1>8, <1>10, SetExchange
<1> HIDE DEF f3
<1>12. f4 \in Exchange BY <1>6, <1>11, SetExchange
<1> HIDE DEF f4
<1>13. f5 \in Exchange BY <1>7, <1>12, SetExchange
<1>14. /\ f1.remain = left /\ f1.id = e.id /\ f1.conn = e.conn /\ f1.buf = e.buf
  BY DEF f1, Exchange
<1>15. /\ f2.remain = left /\ f2.id = e.id /\ f2.conn = e.conn /\ f2.buf = e.buf /\ f2.got = g
  BY <1>9, <1>14 DEF f2, Exchange
<1>16. /\ f3.remain = left /\ f3.id = e.id /\ f3.conn = e.conn /\ f3.buf = e.buf /\ f3.got = g
       /\ f3.timed = t
  BY <1>10, <1>15 DEF f3, Exchange
<1>17. /\ f4.remain = left /\ f4.id = e.id /\ f4.conn = e.conn /\ f4.buf = e.buf /\ f4.got = g
       /\ f4.timed = t /\ f4.returned = r
  BY <1>11, <1>16 DEF f4, Exchange
<1>18. /\ f5.remain = left /\ f5.id = e.id /\ f5.conn = e.conn /\ f5.buf = e.buf /\ f5.got = g
       /\ f5.timed = t /\ f5.returned = r /\ f5.stage = s
  BY <1>12, <1>17 DEF f5, Exchange
<1>19. Advanced(e, f5, bs, err)
  BY <1>3, <1>6, <1>7, <1>8, <1>13, <1>18 DEF Advanced, g
<1> QED BY <1>1, <1>19

\* A goroutine that reads on keeps the invariant.
LEMMA AdvanceKeeps ==
    ASSUME IInv, NEW p \in Procs, ex[p].stage = "stream", ex[p].remain # 0,
           NEW bs \in Seq(Bytes), NEW err, ex' = [ex EXCEPT ![p] = ex'[p]],
           Advanced(ex[p], ex'[p], bs, err),
           \A i \in 1..Len(bs) : bs[i].conn = ex[p].conn,
           Apart', buf' \in [Bufs -> Buffer], sock' \in [Conns -> Socket],
           \A b \in Bufs : buf'[b].src = buf[b].src,
           UNCHANGED <<pool, spare, count>>
    PROVE  IInv'
<1> DEFINE e == ex'[p]
<1>1. /\ spare \subseteq Bufs /\ count \in Ids /\ ex \in [Procs -> Exchange] /\ ex[p] \in Exchange
  BY TypesOf DEF IInv
<1>2. /\ e \in Exchange /\ e.conn = ex[p].conn /\ e.buf = ex[p].buf /\ e.got = ex[p].got \o bs
      /\ e.stage = (IF e.returned THEN "release" ELSE "stream")
      /\ e.timed \in {0, 1} /\ (~e.returned => e.timed = 0)
  BY DEF Advanced
<1>3. ex' = [ex EXCEPT ![p] = e] OBVIOUS
<1> HIDE DEF e
<1>4. ReadersTypeOK'
  <2>1. ex' \in [Procs -> Exchange] BY <1>1, <1>2, <1>3
  <2> QED BY <1>1, <2>1, TypesNext
<1>5. LeaseOK' /\ lease' = lease BY DEF IInv, LeaseOK, pool
<1>6. ex'[p] = e /\ \A q \in Procs \ {p} : ex'[q] = ex[q] /\ lease'[q] = lease[q]
  BY <1>1, <1>3, <1>5
<1>7. ~ex[p].returned /\ Holds(p) /\ Owns(p) BY DEF IInv, Staged, Holds, Owns
<1>8. Staged(p)'
  <2>1. lease'[p] # P!NoLease /\ lease'[p].conn = e.conn /\ e.conn \in Conns
    BY <1>2, <1>5, <1>7 DEF IInv, Staged
  <2> QED BY <1>2, <1>6, <2>1 DEF Staged, Holds
<1>9. \A q \in Procs \ {p} : Owns(q) =>
          /\ ex[q].buf # ex[p].buf /\ ex[q].buf \notin spare'
          /\ buf'[ex[q].buf].src = buf[ex[q].buf].src
  BY <1>7 DEF IInv, Owned
<1>10. Owned(p)' BY <1>2, <1>6, <1>7, <1>9 DEF IInv, Owned, Owns
<1>11. (\A q \in Procs : Staged(q))' /\ (\A q \in Procs : Owned(q))'
  BY <1>6, <1>8, <1>9, <1>10, OthersKeep
<1>12. Confined'
  <2> DEFINE g == ex[p].got
             c == ex[p].conn
  <2>1. g \in Seq(Bytes) /\ \A i \in 1..Len(g) : g[i].conn = c
    BY <1>1, Places DEF Exchange, IInv, Confined
  <2>2. bs \in Seq(Bytes) /\ \A i \in 1..Len(bs) : bs[i].conn = c OBVIOUS
  <2> HIDE DEF g, c
  <2>3. \A i \in DOMAIN (g \o bs) : (g \o bs)[i].conn = c BY ONLY <2>1, <2>2
  <2>4. ex'[p].got = g \o bs /\ ex'[p].conn = c BY <1>2, <1>6 DEF g, c
  <2>5. \A i \in DOMAIN ex'[p].got : ex'[p].got[i].conn = ex'[p].conn BY <2>3, <2>4
  <2> QED BY <1>6, <2>5, ConfinedKeeps DEF IInv
<1> QED BY <1>4, <1>5, <1>11, <1>12 DEF IInv
\* p has read bs, the first n bytes of its bufio.Reader after a fill of k, with err.
BytesRead(p, k, n, bs, err) ==
    /\ k \in 0..Len(sock[ex[p].conn].in) /\ n \in 1..Len(Filled(ex[p].buf, k))
    /\ k = 0 <=> buf[ex[p].buf].bytes # <<>>
    /\ Took(ex[p].buf, ex[p].conn, k, n)
    /\ bs = SubSeq(Filled(ex[p].buf, k), 1, n) /\ bs \in Seq(Bytes) /\ Len(bs) = n
    /\ Fits(ex[p], n)
    /\ err \in {"none", "eof", "reset"}
    /\ err # "none" => n = k /\ k = Len(sock[ex[p].conn].in) /\ sock[ex[p].conn].state # "open"
    /\ ex' = [ex EXCEPT ![p] = ex'[p]]
    /\ Advanced(ex[p], ex'[p], bs, err)

\* What ReadBytes comes to.
LEMMA ReadBytesEffect ==
    ASSUME IInv, NEW p \in Procs, ReadBytes(p)
    PROVE  \E k \in Nat, n \in Nat, bs \in Seq(Bytes), err \in {"none", "eof", "reset"} :
              BytesRead(p, k, n, bs, err)
<1> DEFINE b == ex[p].buf
           c == ex[p].conn
<1>1. /\ buf \in [Bufs -> Buffer] /\ sock \in [Conns -> Socket] /\ ex \in [Procs -> Exchange]
      /\ ReadersTypeOK /\ ex[p] \in Exchange
  BY TypesOf DEF IInv
<1>2. /\ ex[p].stage = "stream" /\ ex[p].remain # 0 /\ ~ex[p].returned /\ ex[p].timed = 0
      /\ b \in Bufs /\ c \in Conns /\ buf[b].src = c
  BY DEF ReadBytes, IInv, Owned, Owns, Staged
<1>3. In(b) = sock[c].in /\ sock[c].in \in Seq(Bytes) /\ Len(sock[c].in) \in Nat
      /\ sock[c].state \in {"open", "eof", "reset"}
  BY <1>1, <1>2 DEF In, Socket
<1> DEFINE Errs(k, n) == {"none"} \union (IF n = k /\ k = Len(In(b)) /\ sock[c].state # "open"
                                          THEN {sock[c].state} ELSE {})
           Read(k, n) == /\ Fits(ex[p], n) /\ TakeBytes(b, k, n)
                         /\ \E err \in Errs(k, n) :
                               ex' = [ex EXCEPT ![p] = AfterRead(@, SubSeq(Filled(b, k), 1, n), err)]
<1>3a. PICK k \in 0..Len(In(b)) : \E n \in 1..Len(Filled(b, k)) : Read(k, n)
  BY DEF ReadBytes
<1>4. PICK n \in 1..Len(Filled(b, k)) : Read(k, n) BY <1>3a
<1>5. PICK err \in Errs(k, n) :
          ex' = [ex EXCEPT ![p] = AfterRead(@, SubSeq(Filled(b, k), 1, n), err)]
  BY <1>4
<1> DEFINE f == Filled(b, k)
           bs == SubSeq(f, 1, n)
<1> HIDE DEF b, c
<1>6. Took(b, c, k, n) BY <1>1, <1>2, <1>4, TakeBytesEffect
<1>7. f \in Seq(Bytes) /\ n \in 0..Len(f) /\ n \in Nat /\ k \in Nat
  <2>1. f \in Seq(Bytes) BY <1>6 DEF Took
  <2> QED BY <1>3, <2>1
<1>8. bs \in Seq(Bytes) /\ Len(bs) = n
  <2> HIDE DEF f
  <2> QED BY <1>7, Front
<1>9. /\ err \in {"none", "eof", "reset"}
      /\ err # "none" => n = k /\ k = Len(sock[c].in) /\ sock[c].state # "open"
  BY <1>3, <1>5
<1>10. ex[p].remain > 0 => Len(bs) <= ex[p].remain BY <1>4, <1>8 DEF Fits
<1> HIDE DEF bs
<1>11. ex' = [ex EXCEPT ![p] = AfterRead(ex[p], bs, err)] BY <1>1, <1>5 DEF bs
<1>12. ex'[p] = AfterRead(ex[p], bs, err) /\ ex' = [ex EXCEPT ![p] = ex'[p]] BY <1>1, <1>11
<1>13. Advanced(ex[p], ex'[p], bs, err) BY <1>1, <1>2, <1>8, <1>9, <1>10, <1>12, AfterReadEffect
<1>14. k = 0 <=> buf[b].bytes # <<>> BY <1>4 DEF TakeBytes
<1>15. BytesRead(p, k, n, bs, err)
  BY <1>3, <1>4, <1>6, <1>8, <1>9, <1>12, <1>13, <1>14 DEF BytesRead, b, c, bs, f
<1> QED BY <1>7, <1>8, <1>9, <1>15

\* ReadBytes keeps the invariant.
LEMMA ReadBytesKeeps ==
    ASSUME IInv, NEW p \in Procs, ReadBytes(p)
    PROVE  IInv'
<1> DEFINE b == ex[p].buf
           c == ex[p].conn
<1>1. PICK k \in Nat, n \in Nat, bs \in Seq(Bytes), err \in {"none", "eof", "reset"} :
          BytesRead(p, k, n, bs, err)
  BY ReadBytesEffect
<1>2. /\ ex[p].stage = "stream" /\ ex[p].remain # 0
      /\ b \in Bufs /\ c \in Conns /\ buf[b].src = c /\ UNCHANGED <<pool, spare, count>>
  BY DEF ReadBytes, IInv, Owned, Owns, Staged
<1>3. /\ Apart' /\ buf' \in [Bufs -> Buffer] /\ sock' \in [Conns -> Socket]
      /\ \A a \in Bufs : buf'[a].src = buf[a].src
      /\ \A i \in 1..Len(Filled(b, k)) : Filled(b, k)[i].conn = c
  <2>1. k \in 0..Len(sock[c].in) /\ n \in 1..Len(Filled(b, k)) /\ Took(b, c, k, n)
    BY <1>1 DEF BytesRead
  <2> QED BY <1>2, <2>1, TookApart
<1>4. \A i \in 1..Len(bs) : bs[i].conn = c
  <2> DEFINE f == Filled(b, k)
  <2>1. /\ f \in Seq(Bytes) /\ bs = SubSeq(f, 1, n) /\ Len(bs) = n /\ n \in 1..Len(f)
        /\ \A i \in 1..Len(f) : f[i].conn = c
    BY <1>1, <1>3 DEF BytesRead, Took
  <2> HIDE DEF f
  <2>2. n \in 0..Len(f) BY <2>1
  <2>3. \A i \in 1..n : SubSeq(f, 1, n)[i] = f[i] BY <2>1, <2>2, Front
  <2> QED BY <2>1, <2>3
<1>5. ex' = [ex EXCEPT ![p] = ex'[p]] /\ Advanced(ex[p], ex'[p], bs, err)
  BY <1>1 DEF BytesRead
<1> QED BY <1>2, <1>3, <1>4, <1>5, AdvanceKeeps

\* What ReadError comes to.
LEMMA ReadErrorEffect ==
    ASSUME IInv, NEW p \in Procs, ReadError(p)
    PROVE  /\ <<>> \in Seq(Bytes) /\ ex' = [ex EXCEPT ![p] = ex'[p]]
           /\ Advanced(ex[p], ex'[p], <<>>, sock[ex[p].conn].state)
           /\ sock[ex[p].conn].state # "open" /\ sock[ex[p].conn].in = <<>>
           /\ ex[p].stage = "stream" /\ ex[p].remain # 0
<1>1. /\ buf \in [Bufs -> Buffer] /\ sock \in [Conns -> Socket] /\ ex \in [Procs -> Exchange]
      /\ ex[p] \in Exchange
  BY TypesOf DEF IInv
<1>2. /\ ex[p].stage = "stream" /\ ex[p].remain # 0 /\ ~ex[p].returned /\ ex[p].timed = 0
      /\ ex[p].conn \in Conns /\ buf[ex[p].buf].src = ex[p].conn
  BY DEF ReadError, IInv, Owned, Owns, Staged
<1> DEFINE err == sock[ex[p].conn].state
           bs == <<>>
<1>3. err \in {"none", "eof", "reset"} /\ err # "open" /\ sock[ex[p].conn].in = <<>>
  BY <1>1, <1>2 DEF ReadError, AtEnd, In, Socket
<1>4. bs \in Seq(Bytes) /\ Len(bs) = 0 BY EmptySeq
<1>5. ex' = [ex EXCEPT ![p] = AfterRead(ex[p], bs, err)] BY <1>1 DEF ReadError
<1> HIDE DEF bs, err
<1>6. ex'[p] = AfterRead(ex[p], bs, err) /\ ex' = [ex EXCEPT ![p] = ex'[p]] BY <1>1, <1>5
<1>7. ex[p].remain > 0 => Len(bs) <= ex[p].remain BY <1>1, <1>4 DEF Exchange
<1>8. Advanced(ex[p], ex'[p], bs, err) BY <1>1, <1>2, <1>3, <1>4, <1>6, <1>7, AfterReadEffect
<1> QED BY <1>2, <1>3, <1>4, <1>6, <1>8 DEF bs, err

\* ReadError keeps the invariant.
LEMMA ReadErrorKeeps ==
    ASSUME IInv, NEW p \in Procs, ReadError(p)
    PROVE  IInv'
<1> DEFINE bs == <<>>
           err == sock[ex[p].conn].state
<1>1. /\ bs \in Seq(Bytes) /\ ex' = [ex EXCEPT ![p] = ex'[p]]
      /\ Advanced(ex[p], ex'[p], bs, err)
      /\ ex[p].stage = "stream" /\ ex[p].remain # 0
  BY ReadErrorEffect
<1>2. \A i \in 1..Len(bs) : bs[i].conn = ex[p].conn BY EmptySeq
<1>3. UNCHANGED <<pool, spare, buf, sock, count>> BY DEF ReadError
<1>4. Apart' /\ buf' \in [Bufs -> Buffer] /\ sock' \in [Conns -> Socket]
      /\ \A b \in Bufs : buf'[b].src = buf[b].src
  BY <1>3, TypesOf DEF IInv, Apart
<1> HIDE DEF bs, err
<1> QED BY <1>1, <1>2, <1>3, <1>4, AdvanceKeeps
\* Only the connection c changes.
OnlySocket(c) ==
    /\ UNCHANGED <<pool, spare, buf, ex, count>>
    /\ sock' = [sock EXCEPT ![c] = sock'[c]] /\ sock'[c] \in Socket

\* What becomes of a connection whose upstream is at work keeps the invariant.
LEMMA UpstreamKeeps ==
    ASSUME IInv, NEW c \in Conns, OnlySocket(c),
           \A i \in DOMAIN sock'[c].in : sock'[c].in[i].conn = c,
           \A i \in DOMAIN sock'[c].due : sock'[c].due[i].conn = c
    PROVE  IInv'
<1>1. /\ spare \subseteq Bufs /\ count \in Ids /\ buf \in [Bufs -> Buffer]
      /\ sock \in [Conns -> Socket] /\ ex \in [Procs -> Exchange]
  BY TypesOf DEF IInv
<1>2. ReadersTypeOK'
  <2>1. sock' \in [Conns -> Socket] BY <1>1 DEF OnlySocket
  <2> QED BY <1>1, <2>1, TypesNext DEF OnlySocket
<1>3. LeaseOK' BY DEF IInv, LeaseOK, OnlySocket, pool
<1>4. (\A p \in Procs : Staged(p))' BY DEF IInv, Staged, Holds, OnlySocket, pool
<1>5. (\A p \in Procs : Owned(p))' BY DEF IInv, Owned, Owns, OnlySocket
<1>6. Apart' BY <1>1 DEF IInv, Apart, OnlySocket
<1>7. Confined' BY DEF IInv, Confined, OnlySocket
<1> QED BY <1>2, <1>3, <1>4, <1>5, <1>6, <1>7 DEF IInv

\* k bytes that the upstream had yet to send on c have been received.
Delivered(c, k) ==
    /\ OnlySocket(c)
    /\ k \in 1..Len(sock[c].due)
    /\ sock'[c].state = sock[c].state /\ sock'[c].over = sock[c].over
    /\ Len(sock'[c].in) = Len(sock[c].in) + k /\ Len(sock'[c].due) = Len(sock[c].due) - k
    /\ \A i \in 1..Len(sock[c].in) : sock'[c].in[i] = sock[c].in[i]
    /\ \A i \in 1..k : sock'[c].in[Len(sock[c].in) + i] = sock[c].due[i]
    /\ \A i \in 1..(Len(sock[c].due) - k) : sock'[c].due[i] = sock[c].due[k + i]

\* What Deliver comes to.
LEMMA DeliverEffect ==
    ASSUME IInv, NEW c \in Conns, Deliver(c)
    PROVE  \E k \in Nat : Delivered(c, k)
<1> DEFINE t == sock[c].in
           d == sock[c].due
<1>1. /\ sock \in [Conns -> Socket] /\ sock[c] \in Socket /\ t \in Seq(Bytes) /\ d \in Seq(Bytes)
  BY TypesOf DEF IInv, Socket
<1>2. PICK k \in 1..Len(d) : sock' = [sock EXCEPT ![c].in = @ \o SubSeq(sock[c].due, 1, k),
                                                  ![c].due = SubSeq(@, k + 1, Len(@))]
  BY DEF Deliver
<1> DEFINE v == SubSeq(d, 1, k)
           u == SubSeq(d, k + 1, Len(d))
           w == t \o v
<1> HIDE DEF t, d
<1>3. k \in 0..Len(d) /\ k \in Nat BY <1>1
<1>4. v \in Seq(Bytes) /\ Len(v) = k /\ \A i \in 1..k : v[i] = d[i] BY <1>1, <1>3, Front
<1>5. u \in Seq(Bytes) /\ Len(u) = Len(d) - k /\ \A i \in 1..(Len(d) - k) : u[i] = d[k + i]
  BY <1>1, <1>3, Rest
<1>6. /\ w \in Seq(Bytes) /\ Len(w) = Len(t) + k
      /\ \A i \in 1..Len(t) : w[i] = t[i]
      /\ \A i \in 1..k : w[Len(t) + i] = d[i]
  <2> HIDE DEF v
  <2>1. t \in Seq(Bytes) BY <1>1
  <2>2. v \in Seq(Bytes) BY <1>4
  <2>3. /\ t \o v \in Seq(Bytes) /\ Len(t \o v) = Len(t) + Len(v)
        /\ \A i \in 1..Len(t) : (t \o v)[i] = t[i]
        /\ \A i \in 1..Len(v) : (t \o v)[Len(t) + i] = v[i]
    BY ONLY <2>1, <2>2, Glue
  <2>4. Len(v) = k /\ \A i \in 1..k : v[i] = d[i] BY <1>4
  <2> QED BY ONLY <2>3, <2>4
<1>7. sock' = [sock EXCEPT ![c].in = w, ![c].due = u] BY <1>2 DEF t, d
<1> HIDE DEF v, u, w
<1>8. sock'[c] = [[sock[c] EXCEPT !.in = w] EXCEPT !.due = u] /\ sock' = [sock EXCEPT ![c] = sock'[c]]
  BY <1>1, <1>7
<1>9. [sock[c] EXCEPT !.in = w] \in Socket BY <1>1, <1>6 DEF Socket
<1>10. /\ sock'[c] \in Socket /\ sock'[c].in = w /\ sock'[c].due = u
       /\ sock'[c].state = sock[c].state /\ sock'[c].over = sock[c].over
  BY <1>1, <1>5, <1>8, <1>9 DEF Socket
<1>11. OnlySocket(c) BY <1>8, <1>10 DEF OnlySocket, Deliver
<1>12. Delivered(c, k) BY <1>3, <1>5, <1>6, <1>10, <1>11 DEF Delivered, t, d
<1> QED BY <1>3, <1>12

\* Deliver keeps the invariant.
LEMMA DeliverKeeps ==
    ASSUME IInv, NEW c \in Conns, Deliver(c)
    PROVE  IInv'
<1>1. PICK k \in Nat : Delivered(c, k) BY DeliverEffect
<1> DEFINE m == Len(sock[c].in)
           h == Len(sock[c].due)
<1>2. /\ m \in Nat /\ h \in Nat
      /\ \A i \in 1..m : sock[c].in[i].conn = c
      /\ \A i \in 1..h : sock[c].due[i].conn = c
  <2>1. sock[c].in \in Seq(Bytes) /\ sock[c].due \in Seq(Bytes) BY TypesOf DEF IInv, Socket
  <2> QED BY <2>1, Places DEF IInv, Apart
<1>3. DOMAIN sock'[c].in = 1..(m + k) /\ DOMAIN sock'[c].due = 1..(h - k) /\ OnlySocket(c)
  <2>1. sock'[c].in \in Seq(Bytes) /\ sock'[c].due \in Seq(Bytes)
    BY <1>1 DEF Delivered, OnlySocket, Socket
  <2>2. DOMAIN sock'[c].in = 1..Len(sock'[c].in) /\ DOMAIN sock'[c].due = 1..Len(sock'[c].due)
    BY <2>1
  <2> QED BY <1>1, <2>2 DEF Delivered
<1>4. /\ k \in 1..h
      /\ \A i \in 1..m : sock'[c].in[i] = sock[c].in[i]
      /\ \A i \in 1..k : sock'[c].in[m + i] = sock[c].due[i]
      /\ \A i \in 1..(h - k) : sock'[c].due[i] = sock[c].due[k + i]
  BY <1>1 DEF Delivered
<1> HIDE DEF m, h
<1>5. ASSUME NEW i \in 1..(m + k) PROVE sock'[c].in[i].conn = c
  <2>1. CASE i <= m
    <3>1. i \in 1..m BY <1>2, <2>1
    <3>2. sock'[c].in[i] = sock[c].in[i] BY <1>4, <3>1
    <3> QED BY <1>2, <3>1, <3>2
  <2>2. CASE i > m
    <3> DEFINE j == i - m
    <3>1. j \in 1..k /\ j \in 1..h /\ i = m + j BY <1>2, <1>4, <2>2
    <3> HIDE DEF j
    <3>2. sock'[c].in[i] = sock[c].due[j] BY <1>4, <3>1
    <3> QED BY <1>2, <3>1, <3>2
  <2> QED BY <1>2, <2>1, <2>2
<1>6. ASSUME NEW i \in 1..(h - k) PROVE sock'[c].due[i].conn = c
  <2>1. k + i \in 1..h BY <1>2, <1>4
  <2>2. sock'[c].due[i] = sock[c].due[k + i] BY <1>4
  <2> QED BY <1>2, <2>1, <2>2
<1> QED BY <1>3, <1>5, <1>6, UpstreamKeeps

\* The upstream has closed c: what it had yet to send is not sent, what was received may be lost.
Closed(c) ==
    /\ OnlySocket(c) /\ sock'[c].due = <<>> /\ sock'[c].over = sock[c].over
    /\ sock'[c].in \in {sock[c].in, <<>>}

\* What UpstreamClose comes to.
LEMMA UpstreamCloseEffect ==
    ASSUME IInv, NEW c \in Conns, UpstreamClose(c)
    PROVE  Closed(c)
<1>1. sock \in [Conns -> Socket] /\ sock[c] \in Socket BY TypesOf DEF IInv
<1>2. PICK s \in {"eof", "reset"}, in \in {sock[c].in, <<>>} :
          sock' = [sock EXCEPT ![c].state = s, ![c].in = in, ![c].due = <<>>]
  BY DEF UpstreamClose
<1> DEFINE e == <<>>
<1>3. e \in Seq(Bytes) /\ in \in Seq(Bytes) BY <1>1, EmptySeq DEF Socket
<1>4. sock' = [sock EXCEPT ![c].state = s, ![c].in = in, ![c].due = e] BY <1>2
<1>5. e = <<>> OBVIOUS
<1> HIDE DEF e
<1>6. /\ sock' = [sock EXCEPT ![c] = sock'[c]]
      /\ sock'[c] = [[[sock[c] EXCEPT !.state = s] EXCEPT !.in = in] EXCEPT !.due = e]
  BY <1>1, <1>4
<1>7. [sock[c] EXCEPT !.state = s] \in Socket BY <1>1 DEF Socket
<1>8. [[sock[c] EXCEPT !.state = s] EXCEPT !.in = in] \in Socket BY <1>3, <1>7 DEF Socket
<1>9. sock'[c] \in Socket /\ sock'[c].due = e /\ sock'[c].in = in /\ sock'[c].over = sock[c].over
  BY <1>1, <1>3, <1>6, <1>8 DEF Socket
<1> QED BY <1>5, <1>6, <1>9 DEF Closed, OnlySocket, UpstreamClose

\* UpstreamClose keeps the invariant.
LEMMA UpstreamCloseKeeps ==
    ASSUME IInv, NEW c \in Conns, UpstreamClose(c)
    PROVE  IInv'
<1>1. Closed(c) BY UpstreamCloseEffect
<1> QED BY <1>1, UpstreamKeeps, EmptySeq DEF Closed, IInv, Apart

\* Every step keeps the invariant.
LEMMA IInvNext == IInv /\ [ReadersNext]_vars => IInv'
<1> SUFFICES ASSUME IInv, [ReadersNext]_vars PROVE IInv' OBVIOUS
<1>1. ASSUME NEW p \in Procs, NEW a \in Addrs, NEW c \in Conns, Send(p, a, c) PROVE IInv'
  BY <1>1, SendKeeps
<1>2. ASSUME NEW p \in Procs, NEW b \in Bufs, AcquireBufIOReader(p, b) PROVE IInv'
  BY <1>2, AcquireKeeps
<1>3. ASSUME NEW p \in Procs, ReadHeader(p) PROVE IInv' BY <1>3, ReadHeaderKeeps
<1>4. ASSUME NEW p \in Procs, ExchangeFailed(p) PROVE IInv' BY <1>4, ExchangeFailedKeeps
<1>5. ASSUME NEW p \in Procs, ReadBytes(p) PROVE IInv' BY <1>5, ReadBytesKeeps
<1>6. ASSUME NEW p \in Procs, ReadError(p) PROVE IInv' BY <1>6, ReadErrorKeeps
<1>7. ASSUME NEW p \in Procs, GiveBack(p) PROVE IInv' BY <1>7, GiveBackKeeps
<1>8. ASSUME NEW p \in Procs, OnDone(p) PROVE IInv' BY <1>8, OnDoneKeeps
<1>9. ASSUME NEW p \in Procs, StopReading(p) PROVE IInv' BY <1>9, StopReadingKeeps
<1>10. ASSUME NEW c \in Conns, Deliver(c) PROVE IInv' BY <1>10, DeliverKeeps
<1>11. ASSUME NEW c \in Conns, UpstreamClose(c) PROVE IInv' BY <1>11, UpstreamCloseKeeps
<1>12. CASE UNCHANGED vars
  <2>1. UNCHANGED <<pool, spare, buf, sock, ex, count>> /\ UNCHANGED <<idle, lease, lost>>
    BY <1>12 DEF vars, pool
  <2>2. ReadersTypeOK' /\ LeaseOK' /\ Apart' /\ Confined'
    BY <2>1 DEF IInv, ReadersTypeOK, LeaseOK, Apart, Confined
  <2>3. (\A p \in Procs : Staged(p))' /\ (\A p \in Procs : Owned(p))'
    BY <2>1 DEF IInv, Staged, Holds, Owned, Owns
  <2> QED BY <2>2, <2>3 DEF IInv
<1> QED BY <1>1, <1>2, <1>3, <1>4, <1>5, <1>6, <1>7, <1>8, <1>9, <1>10, <1>11, <1>12 DEF ReadersNext

\* The inductive invariant holds of every state: leases are exclusive, the handler and its readers
\* agree on where they are, a bufio.Reader in use is its user's own.
THEOREM Invariance == ReadersSpec => []IInv
BY IInvInit, IInvNext, PTL DEF ReadersSpec

\* Every variable has its type (readResponseHeaders and streamResponseBody with their readers).
THEOREM TypeCorrect == ReadersSpec => []ReadersTypeOK
<1>1. IInv => ReadersTypeOK BY DEF IInv
<1> QED BY <1>1, Invariance, PTL

\* A bufio.Reader from which an exchange may still read is neither in bufIOReaderPool nor another
\* exchange's, and reads from the exchange's own connection: ReleaseBufIOReader comes only in
\* onDone, after the last read.
THEOREM ReaderIsOwn == ReadersSpec => []OwnReader
<1>1. IInv => OwnReader
  <2> SUFFICES ASSUME IInv PROVE OwnReader OBVIOUS
  <2>1. \A p \in Procs : Reading(p) => Owns(p) BY DEF IInv, Reading, Owns, Staged
  <2> QED BY <2>1 DEF IInv, Owned, OwnReader
<1> QED BY <1>1, Invariance, PTL

\* No byte crosses from one connection to another by way of a reused bufio.Reader.
THEOREM NothingCrosses == ReadersSpec => []Confined
<1>1. IInv => Confined BY DEF IInv
<1> QED BY <1>1, Invariance, PTL

\* TimedReader observes the duration of a body at most once, when the PoolReader is through.
THEOREM TimedAtMostOnce == ReadersSpec => []TimedOnce
<1>1. IInv => TimedOnce BY DEF IInv, Staged, TimedOnce
<1> QED BY <1>1, Invariance, PTL
-----------------------------------------------------------------------------
(* Runs of bytes. *)

\* A run is given by its bytes at the places up to its length.
LEMMA RunBytes ==
    ASSUME NEW s \in Seq(Bytes), NEW i, NEW a, NEW l
    PROVE  Run(s, i, a, l) <=> \A j \in 1..Len(s) : Byte(s[j], i, a + j - 1, l)
BY Places DEF Run

\* Nothing is a run of anything.
LEMMA EmptyRun == \A i, a, l : Run(<<>>, i, a, l)
BY EmptySeq DEF Run

\* f is s and after it the first k elements of t.
Joined(s, t, k, f) ==
    /\ k <= Len(t) /\ Len(f) = Len(s) + k
    /\ \A j \in 1..Len(s) : f[j] = s[j]
    /\ \A j \in 1..k : f[Len(s) + j] = t[j]

\* u is f without its first n elements.
Dropped(f, n, u) ==
    n <= Len(f) /\ Len(u) = Len(f) - n /\ \A j \in 1..(Len(f) - n) : u[j] = f[n + j]

\* After a read of n bytes with a fill of k, what was read, what is buffered and what is received
\* are still one run after the other.
LEMMA RunRead ==
    ASSUME NEW s \in Seq(Bytes), NEW t \in Seq(Bytes), NEW f \in Seq(Bytes), NEW u \in Seq(Bytes),
           NEW v \in Seq(Bytes), NEW i, NEW l, NEW a \in Nat, NEW k \in Nat, NEW n \in Nat,
           Joined(s, t, k, f), Dropped(f, n, u), Dropped(t, k, v),
           Run(s, i, a, l), Run(t, i, a + Len(s), l)
    PROVE  /\ Run(f, i, a, l)
           /\ Run(u, i, a + n, l)
           /\ Run(v, i, a + n + Len(u), l)
           /\ a + n + Len(u) + Len(v) = a + Len(s) + Len(t)
<1> USE DEF Joined, Dropped
<1>1. Len(s) \in Nat /\ Len(t) \in Nat /\ Len(f) \in Nat OBVIOUS
<1>2. \A j \in 1..Len(s) : Byte(s[j], i, a + j - 1, l) BY RunBytes
<1>3. \A j \in 1..Len(t) : Byte(t[j], i, a + Len(s) + j - 1, l) BY RunBytes
<1>4. ASSUME NEW j \in 1..Len(f) PROVE Byte(f[j], i, a + j - 1, l)
  <2>1. CASE j <= Len(s)
    <3>1. j \in 1..Len(s) BY <1>1, <2>1
    <3>2. f[j] = s[j] BY <3>1
    <3> QED BY <1>2, <3>1, <3>2
  <2>2. CASE j > Len(s)
    <3> DEFINE m == j - Len(s)
    <3>1. m \in 1..k /\ m \in 1..Len(t) /\ j = Len(s) + m /\ a + Len(s) + m - 1 = a + j - 1
      BY <1>1, <2>2
    <3> HIDE DEF m
    <3>2. f[j] = t[m] BY <3>1
    <3>3. Byte(t[m], i, a + Len(s) + m - 1, l) BY <1>3, <3>1
    <3> QED BY <3>1, <3>2, <3>3
  <2> QED BY <1>1, <2>1, <2>2
<1>5. ASSUME NEW j \in 1..Len(u) PROVE Byte(u[j], i, a + n + j - 1, l)
  <2>1. n + j \in 1..Len(f) /\ a + (n + j) - 1 = a + n + j - 1 /\ j \in 1..(Len(f) - n) BY <1>1
  <2>2. u[j] = f[n + j] BY <2>1
  <2>3. Byte(f[n + j], i, a + (n + j) - 1, l) BY <1>4, <2>1
  <2> QED BY <2>1, <2>2, <2>3
<1>6. ASSUME NEW j \in 1..Len(v) PROVE Byte(v[j], i, (a + n + Len(u)) + j - 1, l)
  <2>1. /\ k + j \in 1..Len(t) /\ j \in 1..(Len(t) - k)
        /\ a + Len(s) + (k + j) - 1 = (a + n + Len(u)) + j - 1
    <3>1. j \in Nat /\ 1 <= j /\ j <= Len(t) - k /\ Len(u) = Len(s) + k - n BY <1>1
    <3>2. k \in Nat /\ n \in Nat /\ a \in Nat OBVIOUS
    <3> QED BY ONLY <1>1, <3>1, <3>2
  <2>2. v[j] = t[k + j] BY <2>1
  <2>3. Byte(t[k + j], i, a + Len(s) + (k + j) - 1, l) BY <1>3, <2>1
  <2> QED BY <2>1, <2>2, <2>3
<1>7. a + n + Len(u) + Len(v) = a + Len(s) + Len(t) BY <1>1
<1> QED BY <1>4, <1>5, <1>6, <1>7, RunBytes

\* Of two runs, the second of which begins where the first ends, n elements may move from the one
\* to the other.
LEMMA RunMove ==
    ASSUME NEW t \in Seq(Bytes), NEW d \in Seq(Bytes), NEW u \in Seq(Bytes), NEW v \in Seq(Bytes),
           NEW i, NEW l, NEW a \in Nat, NEW k \in Nat, 
           Joined(t, d, k, u), Dropped(d, k, v),
           Run(t, i, a, l), Run(d, i, a + Len(t), l)
    PROVE  /\ Run(u, i, a, l) /\ Run(v, i, a + Len(u), l)
           /\ a + Len(u) + Len(v) = a + Len(t) + Len(d)
<1> USE DEF Joined, Dropped
<1>1. Len(t) \in Nat /\ Len(d) \in Nat OBVIOUS
<1>2. \A j \in 1..Len(t) : Byte(t[j], i, a + j - 1, l) BY RunBytes
<1>3. \A j \in 1..Len(d) : Byte(d[j], i, a + Len(t) + j - 1, l) BY RunBytes
<1>4. ASSUME NEW j \in 1..Len(u) PROVE Byte(u[j], i, a + j - 1, l)
  <2>1. CASE j <= Len(t)
    <3>1. j \in 1..Len(t) BY <1>1, <2>1
    <3>2. u[j] = t[j] BY <3>1
    <3> QED BY <1>2, <3>1, <3>2
  <2>2. CASE j > Len(t)
    <3> DEFINE m == j - Len(t)
    <3>1. m \in 1..k /\ m \in 1..Len(d) /\ j = Len(t) + m /\ a + Len(t) + m - 1 = a + j - 1
      BY <1>1, <2>2
    <3> HIDE DEF m
    <3>2. u[j] = d[m] BY <3>1
    <3>3. Byte(d[m], i, a + Len(t) + m - 1, l) BY <1>3, <3>1
    <3> QED BY <3>1, <3>2, <3>3
  <2> QED BY <1>1, <2>1, <2>2
<1>5. ASSUME NEW j \in 1..Len(v) PROVE Byte(v[j], i, (a + Len(u)) + j - 1, l)
  <2>1. /\ k + j \in 1..Len(d) /\ j \in 1..(Len(d) - k)
        /\ a + Len(t) + (k + j) - 1 = (a + Len(u)) + j - 1
    BY <1>1
  <2>2. v[j] = d[k + j] BY <2>1
  <2>3. Byte(d[k + j], i, a + Len(t) + (k + j) - 1, l) BY <1>3, <2>1
  <2> QED BY <2>1, <2>2, <2>3
<1>6. a + Len(u) + Len(v) = a + Len(t) + Len(d) BY <1>1
<1> QED BY <1>4, <1>5, <1>6, RunBytes
\* What has been got and the n bytes read after it are one run.
LEMMA RunGot ==
    ASSUME NEW g \in Seq(Bytes), NEW f \in Seq(Bytes), NEW b \in Seq(Bytes), NEW i, NEW l,
           NEW n \in Nat, n <= Len(f), Len(b) = n, \A j \in 1..n : b[j] = f[j],
           Run(g, i, 1, l), Run(f, i, Len(g) + 1, l)
    PROVE  g \o b \in Seq(Bytes) /\ Len(g \o b) = Len(g) + n /\ Run(g \o b, i, 1, l)
<1>1. Len(g) \in Nat /\ Len(f) \in Nat OBVIOUS
<1>2. /\ g \o b \in Seq(Bytes) /\ Len(g \o b) = Len(g) + Len(b)
      /\ \A j \in 1..Len(g) : (g \o b)[j] = g[j]
      /\ \A j \in 1..Len(b) : (g \o b)[Len(g) + j] = b[j]
  <2>1. g \in Seq(Bytes) /\ b \in Seq(Bytes) OBVIOUS
  <2> QED BY ONLY <2>1, Glue
<1> DEFINE h == g \o b
<1> HIDE DEF h
<1>3. /\ h \in Seq(Bytes) /\ Len(h) = Len(g) + n
      /\ \A j \in 1..Len(g) : h[j] = g[j]
      /\ \A j \in 1..n : h[Len(g) + j] = f[j]
  BY <1>2 DEF h
<1>4. \A j \in 1..Len(g) : Byte(g[j], i, 1 + j - 1, l) BY RunBytes
<1>5. \A j \in 1..Len(f) : Byte(f[j], i, (Len(g) + 1) + j - 1, l) BY RunBytes
<1>6. ASSUME NEW j \in 1..Len(h) PROVE Byte(h[j], i, 1 + j - 1, l)
  <2>1. CASE j <= Len(g)
    <3>1. j \in 1..Len(g) BY <1>1, <2>1
    <3>2. h[j] = g[j] BY <1>3, <3>1
    <3> QED BY <1>4, <3>1, <3>2
  <2>2. CASE j > Len(g)
    <3> DEFINE m == j - Len(g)
    <3>1. m \in 1..n /\ m \in 1..Len(f) /\ j = Len(g) + m /\ (Len(g) + 1) + m - 1 = 1 + j - 1
      BY <1>1, <1>3, <2>2
    <3> HIDE DEF m
    <3>2. h[j] = f[m] BY <1>3, <3>1
    <3>3. Byte(f[m], i, (Len(g) + 1) + m - 1, l) BY <1>5, <3>1
    <3> QED BY <3>1, <3>2, <3>3
  <2> QED BY <1>1, <1>3, <2>1, <2>2
<1>7. Run(h, i, 1, l) BY <1>3, <1>6, RunBytes
<1> QED BY <1>3, <1>7 DEF h

-----------------------------------------------------------------------------
(* The order of the bytes, action by action. *)

\* An exchange with a connection is aligned after a step that touches neither it, nor its
\* bufio.Reader, nor its connection.
LEMMA StaysAligned ==
    ASSUME NEW q \in Procs, ex'[q] = ex[q],
           Holds(q) => sock'[ex[q].conn] = sock[ex[q].conn],
           Owns(q) => buf'[ex[q].buf] = buf[ex[q].buf],
           Aligned(q)
    PROVE  Aligned(q)'
<1> SUFFICES ASSUME Holds(q)', Unspoilt(q)' PROVE (\E l \in Nat \union {-1} : AlignedWith(q, l))'
  BY DEF Aligned
<1>1. Holds(q) /\ sock'[ex[q].conn] = sock[ex[q].conn] BY DEF Holds
<1>2. Unspoilt(q) BY <1>1 DEF Unspoilt
<1>3. PICK l \in Nat \union {-1} : AlignedWith(q, l) BY <1>1, <1>2 DEF Aligned
<1>4. ex'[q].stage \in {"header", "stream"} => buf'[ex[q].buf] = buf[ex[q].buf]
  BY <1>1 DEF Holds, Owns
<1>5. Place(q)' = Place(q) /\ Buffered(q)' = Buffered(q) BY <1>4 DEF Place, Buffered
<1>6. AlignedWith(q, l)' BY <1>1, <1>3, <1>5 DEF AlignedWith
<1> QED BY <1>6

\* So it is enough to look at the goroutine and at the connection that a step concerns.
LEMMA OthersInOrder ==
    ASSUME IInv, InOrder, NEW p \in Procs, NEW c \in Conns,
           \A q \in Procs \ {p} : ex'[q] = ex[q] /\ lease'[q] = lease[q],
           \A d \in Conns \ {c} : sock'[d] = sock[d],
           \A q \in Procs \ {p} : Holds(q) => sock'[ex[q].conn] = sock[ex[q].conn],
           \A q \in Procs \ {p} : Owns(q) => buf'[ex[q].buf] = buf[ex[q].buf],
           lease[p].conn \in {c, NoConn}, count' \in {count, count + 1},
           Aligned(p)', Settled(c)'
    PROVE  InOrder'
<1>1. ASSUME NEW q \in Procs PROVE Aligned(q)'
  <2>1. CASE q = p BY <2>1
  <2>2. CASE q # p
    <3>1. /\ ex'[q] = ex[q] /\ (Holds(q) => sock'[ex[q].conn] = sock[ex[q].conn])
          /\ (Owns(q) => buf'[ex[q].buf] = buf[ex[q].buf]) /\ Aligned(q)
      BY <2>2 DEF InOrder
    <3> QED BY <3>1, StaysAligned
  <2> QED BY <2>1, <2>2
<1>2. ASSUME NEW d \in Conns PROVE Settled(d)'
  <2>1. CASE d = c BY <2>1
  <2>2. CASE d # c
    <3>1. sock'[d] = sock[d] /\ Settled(d) BY <2>2 DEF InOrder
    <3>2. d # NoConn BY ReadersAssumption DEF ReadersAssumption
    <3>3. (\A q \in Procs : lease'[q].conn # d) => (\A q \in Procs : lease[q].conn # d)
      BY <2>2, <3>2
    <3>4. Drained(d)' BY <3>1, <3>3 DEF Settled, Drained
    <3>5. count \in Nat /\ sock[d].over \in Nat
      BY TypesOf, ReadersAssumption DEF IInv, Socket, Ids, ReadersAssumption
    <3> QED BY <3>1, <3>4, <3>5 DEF Settled
  <2> QED BY <2>1, <2>2
<1> QED BY <1>1, <1>2 DEF InOrder

\* At the start.
LEMMA InOrderInit == ReadersInit => InOrder
<1> SUFFICES ASSUME ReadersInit PROVE InOrder OBVIOUS
<1>1. \A p \in Procs : Aligned(p) BY DEF ReadersInit, Aligned, Holds, NoExchange
<1>2. \A c \in Conns : Settled(c) BY DEF ReadersInit, Settled, Drained, NewSocket
<1> QED BY <1>1, <1>2 DEF InOrder

\* Send: the connection has nothing left on it, so that the response is all there is.
LEMMA SendInOrder ==
    ASSUME IInv, InOrder, NEW p \in Procs, NEW a \in Addrs, NEW c \in Conns, Send(p, a, c)
    PROVE  InOrder'
<1>0. Sent(p, c) BY SendEffect
<1>1. /\ sock \in [Conns -> Socket] /\ ex \in [Procs -> Exchange] /\ LeaseOK /\ sock[c] \in Socket
      /\ count \in Nat /\ MaxExchanges \in Nat
  BY TypesOf, ReadersAssumption DEF IInv, Ids, ReadersAssumption
<1> DEFINE i == count'
           e == ex'[p]
<1>2. /\ ex' = [ex EXCEPT ![p] = e] /\ sock' = [sock EXCEPT ![c] = sock'[c]]
      /\ e.stage = "await" /\ e.conn = c /\ e.id = i /\ e.got = <<>>
      /\ i = count + 1 /\ i \in 1..MaxExchanges
      /\ sock'[c].in = sock[c].in /\ sock'[c].state = sock[c].state
  BY <1>0 DEF Sent, NoExchange
<1>3. UNCHANGED <<spare, buf>> /\ (P!Reuse(p, a, c) \/ P!Connect(p, a, c)) BY DEF Send
<1>4. /\ lease' = [lease EXCEPT ![p] = [host |-> a, conn |-> c]]
      /\ lease[p] = P!NoLease /\ \A q \in Procs : lease[q].conn # c
  BY <1>1, <1>3, Leasing
<1> HIDE DEF e
<1>5. /\ \A q \in Procs \ {p} : ex'[q] = ex[q] /\ lease'[q] = lease[q]
      /\ \A d \in Conns \ {c} : sock'[d] = sock[d]
  BY <1>1, <1>2, <1>4 DEF LeaseOK
<1>6. \A q \in Procs \ {p} : Holds(q) => sock'[ex[q].conn] = sock[ex[q].conn]
  <2>1. \A q \in Procs \ {p} : Holds(q) => ex[q].conn \in Conns \ {c}
    BY <1>4 DEF IInv, Staged, Holds
  <2> QED BY <1>5, <2>1
<1>7. /\ sock[c].over \in Nat /\ sock[c].over <= count
      /\ sock[c].over = 0 => sock[c].in = <<>> /\ sock[c].due = <<>>
      /\ sock[c].state # "open" => sock[c].due = <<>>
  BY <1>1, <1>4 DEF InOrder, Settled, Drained, Socket, Ids
<1>8. /\ sock[c].state # "open" => sock'[c] = sock[c]
      /\ sock[c].state = "open" => \E l \in Nat \union {-1}, r \in Seq(Bytes) : Answers(c, l, r)
  BY <1>0 DEF Sent
<1>9. sock'[c].over \in {sock[c].over, i}
  <2>1. CASE sock[c].state # "open" BY <1>8, <2>1
  <2>2. CASE sock[c].state = "open"
    <3>1. PICK l \in Nat \union {-1}, r \in Seq(Bytes) : Answers(c, l, r) BY <1>8, <2>2
    <3> QED BY <3>1 DEF Answers
  <2> QED BY <2>1, <2>2
<1>10. sock'[c].over = i /\ sock[c].over # i => sock[c].over = 0
  <2>1. CASE sock[c].state # "open" BY <1>8, <2>1
  <2>2. CASE sock[c].state = "open"
    <3>1. PICK l \in Nat \union {-1}, r \in Seq(Bytes) : Answers(c, l, r) BY <1>8, <2>2
    <3> QED BY <3>1 DEF Answers
  <2> QED BY <2>1, <2>2
<1>11. Settled(c)'
  <2>1. sock'[c].over <= i BY <1>2, <1>7, <1>9, <1>1
  <2>2. lease'[p].conn = c BY <1>1, <1>4 DEF LeaseOK
  <2>3. Drained(c)' BY <2>2 DEF Drained
  <2>4. sock'[c].state # "open" => sock'[c].due = <<>> BY <1>2, <1>7, <1>8
  <2> QED BY <2>1, <2>3, <2>4 DEF Settled
<1>12. Aligned(p)'
  <2> SUFFICES ASSUME Unspoilt(p)' PROVE (\E l \in Nat \union {-1} : AlignedWith(p, l))'
    BY DEF Aligned
  <2>1. sock'[c].over \in {0} \union i..MaxExchanges BY <1>2 DEF Unspoilt, e
  <2>2. sock[c].over = 0 BY <1>1, <1>2, <1>7, <1>9, <1>10, <2>1
  <2>3. sock[c].in = <<>> /\ sock[c].due = <<>> /\ sock'[c].in = <<>> BY <1>2, <1>7, <2>2
  <2>4. ASSUME NEW l \in Nat \union {-1}, Run(sock'[c].due, i, 0, l), Len(sock'[c].due) \in Nat,
               sock'[c].over = 0 /\ l >= 0 => Len(sock'[c].due) <= l + 1
        PROVE  AlignedWith(p, l)'
    <3>1. ex'[p] = e /\ Place(p)' = 0 /\ Buffered(p)' = <<>> BY <1>2 DEF Place, Buffered, e
    <3>2. /\ Place(p)' + Len(Buffered(p)') = 0
          /\ Place(p)' + Len(Buffered(p)') + Len(sock'[c].in) = 0
          /\ Place(p)' + Len(Buffered(p)') + Len(sock'[c].in) + Len(sock'[c].due) = Len(sock'[c].due)
      BY <2>3, <2>4, <3>1, EmptySeq
    <3>3. /\ Run(ex'[p].got, i, 1, l) /\ Run(Buffered(p)', i, Place(p)', l)
          /\ Run(sock'[c].in, i, 0, l)
      BY <1>2, <2>3, <3>1, EmptyRun
    <3>4. ex'[p].id = i /\ ex'[p].conn = c /\ ex'[p].stage = "await" /\ Len(ex'[p].got) = 0
      BY <1>2, <3>1, EmptySeq
    <3> QED BY <2>4, <3>2, <3>3, <3>4 DEF AlignedWith
  <2>5. CASE sock[c].state # "open"
    <3>1. sock'[c].due = <<>> /\ Len(<<>>) = 0 BY <1>8, <2>3, <2>5, EmptySeq
    <3>2. Run(sock'[c].due, i, 0, -1) BY <3>1, EmptyRun
    <3>3. AlignedWith(p, -1)' BY <2>4, <3>1, <3>2
    <3> QED BY <3>3
  <2>6. CASE sock[c].state = "open"
    <3>1. PICK l \in Nat \union {-1}, r \in Seq(Bytes) : Answers(c, l, r) BY <1>8, <2>6
    <3>2. sock'[c].due = r /\ Len(r) \in Nat
      <4>1. sock'[c].due = <<>> \o r BY <2>3, <3>1 DEF Answers
      <4> QED BY <4>1
    <3>3. Run(r, i, 0, l)
      <4>1. \A j \in 1..Len(r) : Byte(r[j], i, j - 1, l) BY <3>1 DEF Answers
      <4>2. \A j \in 1..Len(r) : 0 + j - 1 = j - 1 BY <3>2
      <4> QED BY <4>1, <4>2, RunBytes
    <3>4. sock'[c].over = 0 /\ l >= 0 => Len(r) = l + 1
      BY <1>2, <2>2, <3>1 DEF Answers
    <3>5. AlignedWith(p, l)' BY <2>4, <3>2, <3>3, <3>4
    <3> QED BY <3>5
  <2> QED BY <2>5, <2>6
<1>13. lease[p].conn \in {c, NoConn} /\ count' \in {count, count + 1} BY <1>2, <1>4 DEF P!NoLease
<1> QED BY <1>3, <1>5, <1>6, <1>11, <1>12, <1>13, OthersInOrder
\* A goroutine that has a connection is the only one that has it.
LEMMA OnlyHolder ==
    ASSUME IInv, NEW p \in Procs, Holds(p)
    PROVE  /\ ex[p].conn \in Conns /\ lease[p] # P!NoLease /\ lease[p].conn = ex[p].conn
           /\ \A q \in Procs \ {p} : lease[q].conn # ex[p].conn /\ (Holds(q) => ex[q].conn # ex[p].conn)
<1>1. ex[p].conn \in Conns /\ lease[p] # P!NoLease /\ lease[p].conn = ex[p].conn
  BY DEF IInv, Staged, Holds
<1>2. \A q \in Procs \ {p} : lease[q].conn # ex[p].conn BY <1>1 DEF IInv, LeaseOK
<1>3. \A q \in Procs \ {p} : Holds(q) => lease[q].conn = ex[q].conn BY DEF IInv, Staged
<1> QED BY <1>1, <1>2, <1>3

\* A connection without anything on it is settled.
LEMMA NewIsSettled ==
    ASSUME NEW c \in Conns, sock'[c] = NewSocket, count' \in Nat
    PROVE  Settled(c)'
BY DEF Settled, Drained, NewSocket

\* An exchange that has no connection is aligned.
LEMMA NotHolding == \A p \in Procs : ~Holds(p)' => Aligned(p)'
BY DEF Aligned

\* AcquireBufIOReader: the reader that is taken is empty.
LEMMA AcquireInOrder ==
    ASSUME IInv, InOrder, NEW p \in Procs, NEW b \in Bufs, AcquireBufIOReader(p, b)
    PROVE  InOrder'
<1>1. /\ buf \in [Bufs -> Buffer] /\ ex \in [Procs -> Exchange] /\ ex[p] \in Exchange /\ LeaseOK
  BY TypesOf DEF IInv
<1> DEFINE e == [[ex[p] EXCEPT !.stage = "header"] EXCEPT !.buf = b]
           v == [src |-> ex[p].conn, bytes |-> <<>>]
<1>2. ex[p].stage = "await" /\ Holds(p) BY DEF AcquireBufIOReader, Holds
<1>3. PICK c \in Conns : c = ex[p].conn /\ lease[p].conn = c BY <1>2, OnlyHolder
<1>4. /\ ex[p].stage = "await" /\ ex' = [ex EXCEPT ![p] = e] /\ buf' = [buf EXCEPT ![b] = v]
      /\ UNCHANGED <<pool, sock, count>>
  BY <1>1 DEF AcquireBufIOReader, Reset
<1>5. /\ e.stage = "header" /\ e.buf = b /\ e.conn = c /\ e.got = ex[p].got /\ e.id = ex[p].id
      /\ v.bytes = <<>>
  BY <1>1, <1>3 DEF Exchange
<1> HIDE DEF e, v
<1>6. /\ ex'[p] = e /\ buf'[b] = v /\ lease' = lease /\ sock' = sock /\ count' = count
      /\ \A q \in Procs \ {p} : ex'[q] = ex[q] /\ lease'[q] = lease[q]
  BY <1>1, <1>4 DEF pool
<1>7. \A q \in Procs \ {p} : Owns(q) => buf'[ex[q].buf] = buf[ex[q].buf]
  <2>1. \A q \in Procs \ {p} : Owns(q) => ex[q].buf # b
    BY DEF IInv, Owned, AcquireBufIOReader
  <2> QED BY <1>1, <1>4, <2>1
<1>8. Aligned(p)'
  <2> SUFFICES ASSUME Unspoilt(p)' PROVE (\E l \in Nat \union {-1} : AlignedWith(p, l))'
    BY DEF Aligned
  <2>1. Unspoilt(p) BY <1>5, <1>6, <1>3 DEF Unspoilt
  <2>2. PICK l \in Nat \union {-1} : AlignedWith(p, l) BY <1>2, <2>1 DEF InOrder, Aligned
  <2>3. Place(p) = 0 /\ Place(p)' = 0 /\ Buffered(p) = <<>> /\ Buffered(p)' = <<>>
    BY <1>4, <1>5, <1>6 DEF Place, Buffered
  <2>4. AlignedWith(p, l)' BY <1>4, <1>5, <1>6, <1>3, <2>2, <2>3 DEF AlignedWith
  <2> QED BY <2>4
<1>9. Settled(c)' BY <1>6, <1>3 DEF InOrder, Settled, Drained
<1> QED BY <1>6, <1>3, <1>7, <1>8, <1>9, OthersInOrder

\* An exchange ends: nothing is left of its connection, or it had none.
LEMMA EndInOrder ==
    ASSUME IInv, InOrder, NEW p \in Procs, ex' = [ex EXCEPT ![p] = NoExchange],
           lease' = [lease EXCEPT ![p] = P!NoLease], count' = count,
           ForgetBuf(ex[p].buf) \/ buf' = buf,
           IF Holds(p) THEN Forget(ex[p].conn) ELSE UNCHANGED <<sock, buf>>,
           Owns(p) \/ ex[p].buf = NoBuf \/ buf' = buf
    PROVE  InOrder'
<1>1. /\ buf \in [Bufs -> Buffer] /\ ex \in [Procs -> Exchange] /\ sock \in [Conns -> Socket]
      /\ LeaseOK /\ count \in Nat
  BY TypesOf, ReadersAssumption DEF IInv, Ids, ReadersAssumption
<1>2. /\ ex'[p] = NoExchange /\ lease'[p] = P!NoLease
      /\ \A q \in Procs \ {p} : ex'[q] = ex[q] /\ lease'[q] = lease[q]
  BY <1>1 DEF LeaseOK
<1>3. Aligned(p)' BY <1>2, NotHolding DEF Holds, NoExchange
<1>4. \A q \in Procs \ {p} : Owns(q) => buf'[ex[q].buf] = buf[ex[q].buf]
  <2>1. \A q \in Procs \ {p} : Owns(q) => ex[q].buf \in Bufs /\ (Owns(p) => ex[q].buf # ex[p].buf)
    BY DEF IInv, Owned
  <2> QED BY <1>1, <2>1, ReadersAssumption DEF ForgetBuf, ReadersAssumption
<1>5. CASE Holds(p)
  <2>1. PICK c \in Conns :
        /\ c = ex[p].conn /\ lease[p].conn = c
        /\ \A q \in Procs \ {p} : Holds(q) => ex[q].conn # c
    BY <1>5, OnlyHolder
  <2>2. sock' = [sock EXCEPT ![c] = NewSocket] BY <1>5, <2>1 DEF Forget
  <2>3. sock'[c] = NewSocket /\ \A d \in Conns \ {c} : sock'[d] = sock[d] BY <1>1, <2>1, <2>2
  <2>4. Settled(c)' BY <1>1, <2>1, <2>3, NewIsSettled
  <2>5. \A q \in Procs \ {p} : Holds(q) => sock'[ex[q].conn] = sock[ex[q].conn]
    <3>1. \A q \in Procs \ {p} : Holds(q) => ex[q].conn \in Conns \ {c}
      BY <2>1 DEF IInv, Staged, Holds
    <3> QED BY <2>3, <3>1
  <2> QED BY <1>2, <1>3, <1>4, <2>1, <2>3, <2>4, <2>5, OthersInOrder
<1>6. CASE ~Holds(p)
  <2>1. UNCHANGED <<sock, buf>> /\ lease[p] = P!NoLease BY <1>6 DEF IInv, Staged
  <2>2. lease' = lease BY <1>1, <2>1 DEF LeaseOK
  <2>3. ASSUME NEW c \in Conns PROVE Settled(c)'
    BY <2>1, <2>2 DEF InOrder, Settled, Drained
  <2>4. ASSUME NEW q \in Procs PROVE Aligned(q)'
    <3>1. CASE q = p BY <1>3, <3>1
    <3>2. CASE q # p BY <1>2, <2>1, <3>2, StaysAligned DEF InOrder
    <3> QED BY <3>1, <3>2
  <2> QED BY <2>3, <2>4 DEF InOrder
<1> QED BY <1>5, <1>6

\* ExchangeFailed.
LEMMA ExchangeFailedInOrder ==
    ASSUME IInv, InOrder, NEW p \in Procs, ExchangeFailed(p)
    PROVE  InOrder'
<1>1. lease' = [lease EXCEPT ![p] = P!NoLease]
  BY Leaving DEF IInv, ExchangeFailed
<1>2. /\ ex' = [ex EXCEPT ![p] = NoExchange] /\ Forget(ex[p].conn) /\ count' = count
      /\ ForgetBuf(ex[p].buf) /\ Holds(p) /\ (Owns(p) \/ ex[p].buf = NoBuf)
  BY DEF ExchangeFailed, IInv, Staged, Holds, Owns
<1> QED BY <1>1, <1>2, EndInOrder

\* StopReading.
LEMMA StopReadingInOrder ==
    ASSUME IInv, InOrder, NEW p \in Procs, StopReading(p)
    PROVE  InOrder'
<1>1. /\ ex[p].stage = "stream" /\ ex' = [ex EXCEPT ![p] = NoExchange] /\ count' = count
  BY DEF StopReading
<1>2. Holds(p) <=> lease[p] # P!NoLease BY DEF IInv, Staged
<1>3. CASE lease[p] = P!NoLease
  <2>1. UNCHANGED <<pool, buf, sock>> BY <1>3 DEF StopReading
  <2>2. lease' = [lease EXCEPT ![p] = P!NoLease] BY <1>3, <2>1 DEF IInv, LeaseOK, pool
  <2> QED BY <1>1, <1>2, <1>3, <2>1, <2>2, EndInOrder
<1>4. CASE lease[p] # P!NoLease
  <2>1. P!Abandon(p) /\ Forget(ex[p].conn) /\ ForgetBuf(ex[p].buf) BY <1>4 DEF StopReading
  <2>2. lease' = [lease EXCEPT ![p] = P!NoLease] BY <2>1, Leaving DEF IInv
  <2>3. Owns(p) BY <1>1, <1>2, <1>4 DEF Holds, Owns
  <2> QED BY <1>1, <1>2, <1>4, <2>1, <2>2, <2>3, EndInOrder
<1> QED BY <1>3, <1>4

\* GiveBack: at the announced length nothing is left on the connection.
LEMMA GiveBackInOrder ==
    ASSUME IInv, InOrder, NEW p \in Procs, GiveBack(p)
    PROVE  InOrder'
<1> DEFINE e == [ex[p] EXCEPT !.stage = "done"]
<1>1. /\ ex \in [Procs -> Exchange] /\ sock \in [Conns -> Socket] /\ LeaseOK /\ count \in Nat
  BY TypesOf, ReadersAssumption DEF IInv, Ids, ReadersAssumption
<1>2. /\ ex[p].stage = "release" /\ Holds(p) /\ UNCHANGED <<buf, count>> /\ ex' = [ex EXCEPT ![p] = e]
  BY <1>1 DEF GiveBack, Holds
<1>3. e.stage = "done" BY <1>1 DEF Exchange
<1> HIDE DEF e
<1>4. lease' = [lease EXCEPT ![p] = P!NoLease] BY Leaving DEF IInv, GiveBack
<1>5. /\ ex'[p] = e /\ lease'[p] = P!NoLease
      /\ \A q \in Procs \ {p} : ex'[q] = ex[q] /\ lease'[q] = lease[q]
  BY <1>1, <1>2, <1>4 DEF LeaseOK
<1>6. Aligned(p)' BY <1>3, <1>5, NotHolding DEF Holds
<1>7. PICK c \in Conns :
      /\ c = ex[p].conn /\ lease[p].conn = c
      /\ \A q \in Procs \ {p} : Holds(q) => ex[q].conn # c
  BY <1>2, OnlyHolder
<1>8. (ex[p].remain >= 0 /\ sock' = sock) \/ sock' = [sock EXCEPT ![c] = NewSocket]
  BY <1>7 DEF GiveBack, Forget
<1>9. Settled(c)'
  <2>1. CASE ex[p].remain >= 0 /\ sock' = sock
    <3>1. sock[c].over = 0 => sock[c].in = <<>> /\ sock[c].due = <<>>
      <4>1. ASSUME sock[c].over = 0 PROVE sock[c].in = <<>> /\ sock[c].due = <<>>
        <5>1. Unspoilt(p) BY <1>7, <4>1 DEF Unspoilt
        <5>2. PICK l \in Nat \union {-1} : AlignedWith(p, l)
          BY <1>2, <5>1 DEF InOrder, Aligned
        <5> QED BY <1>2, <1>7, <2>1, <4>1, <5>2 DEF AlignedWith
      <4> QED BY <4>1
    <3>2. Settled(c) BY <1>7 DEF InOrder
    <3> QED BY <1>2, <2>1, <3>1, <3>2 DEF Settled, Drained
  <2>2. CASE sock' = [sock EXCEPT ![c] = NewSocket]
    BY <1>1, <1>2, <1>7, <2>2, NewIsSettled
  <2> QED BY <1>8, <2>1, <2>2
<1>10. \A d \in Conns \ {c} : sock'[d] = sock[d] BY <1>1, <1>8
<1>11. \A q \in Procs \ {p} : Holds(q) => sock'[ex[q].conn] = sock[ex[q].conn]
  <2>1. \A q \in Procs \ {p} : Holds(q) => ex[q].conn \in Conns \ {c}
    BY <1>7 DEF IInv, Staged, Holds
  <2> QED BY <1>10, <2>1
<1> QED BY <1>2, <1>5, <1>6, <1>7, <1>9, <1>10, <1>11, OthersInOrder

\* OnDone: the connection is no longer the exchange's.
LEMMA OnDoneInOrder ==
    ASSUME IInv, InOrder, NEW p \in Procs, OnDone(p)
    PROVE  InOrder'
<1>1. ex \in [Procs -> Exchange] BY TypesOf DEF IInv
<1>2. /\ ex[p].stage = "done" /\ ex[p].returned /\ UNCHANGED <<pool, buf, sock, count>>
  BY DEF OnDone, IInv, Staged
<1>3. \A q \in Procs \ {p} : ex'[q] = ex[q] BY <1>1 DEF OnDone
<1>4. Aligned(p)'
  <2>1. CASE ex[p].remain = 0
    <3>1. ex'[p] = [ex[p] EXCEPT !.stage = "stream"] BY <1>1, <2>1 DEF OnDone
    <3>2. ex[p] \in Exchange BY <1>1
    <3>3. ex'[p].stage = "stream" /\ ex'[p].returned BY <1>2, <3>1, <3>2 DEF Exchange
    <3> QED BY <3>3, NotHolding DEF Holds
  <2>2. CASE ex[p].remain # 0
    <3>1. ex'[p] = NoExchange BY <1>1, <2>2 DEF OnDone
    <3> QED BY <3>1, NotHolding DEF Holds, NoExchange
  <2> QED BY <2>1, <2>2
<1>5. ASSUME NEW c \in Conns PROVE Settled(c)'
  BY <1>2 DEF InOrder, Settled, Drained, pool
<1>6. ASSUME NEW q \in Procs PROVE Aligned(q)'
  <2>1. CASE q = p BY <1>4, <2>1
  <2>2. CASE q # p BY <1>2, <1>3, <2>2, StaysAligned DEF InOrder
  <2> QED BY <2>1, <2>2
<1> QED BY <1>5, <1>6 DEF InOrder
\* A read from runs, by the bufio.Reader and the connection.
LEMMA TookRuns ==
    ASSUME IInv, NEW b \in Bufs, NEW c \in Conns, NEW k \in Nat, NEW n \in Nat, NEW i, NEW l,
           NEW a \in Nat, k <= Len(sock[c].in), n <= Len(Filled(b, k)), Took(b, c, k, n),
           Run(buf[b].bytes, i, a, l), Run(sock[c].in, i, a + Len(buf[b].bytes), l)
    PROVE  /\ Run(Filled(b, k), i, a, l)
           /\ Run(buf'[b].bytes, i, a + n, l)
           /\ Run(sock'[c].in, i, a + n + Len(buf'[b].bytes), l)
           /\ a + n + Len(buf'[b].bytes) + Len(sock'[c].in) = a + Len(buf[b].bytes) + Len(sock[c].in)
           /\ Len(buf'[b].bytes) \in Nat /\ Len(sock'[c].in) \in Nat
<1> DEFINE s == buf[b].bytes
           t == sock[c].in
           f == Filled(b, k)
           u == buf'[b].bytes
           v == sock'[c].in
<1>1. s \in Seq(Bytes) /\ t \in Seq(Bytes) BY TypesOf DEF IInv, Buffer, Socket
<1>2. f \in Seq(Bytes) /\ u \in Seq(Bytes) /\ v \in Seq(Bytes) BY DEF Took, Buffer, Socket
<1>3. Joined(s, t, k, f) /\ Run(s, i, a, l) /\ Run(t, i, a + Len(s), l)
  BY DEF Took, Joined
<1>4. Dropped(f, n, u) /\ Dropped(t, k, v) BY DEF Took, Dropped
<1> HIDE DEF s, t, f, u, v
<1>5. /\ Run(f, i, a, l) /\ Run(u, i, a + n, l) /\ Run(v, i, a + n + Len(u), l)
      /\ a + n + Len(u) + Len(v) = a + Len(s) + Len(t)
  <2>1. k \in Nat /\ n \in Nat /\ a \in Nat OBVIOUS
  <2> QED BY ONLY <1>1, <1>2, <1>3, <1>4, <2>1, RunRead
<1>6. Len(u) \in Nat /\ Len(v) \in Nat BY <1>2
<1> QED BY <1>5, <1>6 DEF s, t, f, u, v

\* ReadHeader: the first byte is the header, and announces the length.
LEMMA ReadHeaderInOrder ==
    ASSUME IInv, InOrder, NEW p \in Procs, ReadHeader(p)
    PROVE  InOrder'
<1>1. /\ buf \in [Bufs -> Buffer] /\ sock \in [Conns -> Socket] /\ ex \in [Procs -> Exchange]
      /\ ReadersTypeOK /\ ex[p] \in Exchange /\ count \in Nat
  BY TypesOf, ReadersAssumption DEF IInv, Ids, ReadersAssumption
<1>2. /\ ex[p].stage = "header" /\ Holds(p) /\ Owns(p) /\ ex[p].got = <<>> /\ ~ex[p].returned
      /\ UNCHANGED <<pool, count, spare>>
  BY DEF ReadHeader, ParseHeader, Holds, Owns, IInv, Staged
<1>3. PICK c \in Conns : /\ c = ex[p].conn /\ lease[p].conn = c
                         /\ \A q \in Procs \ {p} : Holds(q) => ex[q].conn # c
  BY <1>2, OnlyHolder
<1>4. PICK b \in Bufs : /\ b = ex[p].buf /\ buf[b].src = c
                        /\ \A q \in Procs \ {p} : Owns(q) => ex[q].buf # b
  BY <1>2, <1>3 DEF IInv, Owned
<1>5. PICK k \in 0..Len(In(b)) :
          /\ Filled(b, k) # <<>> /\ TakeBytes(b, k, 1)
          /\ ex' = [ex EXCEPT ![p].stage = "stream", ![p].remain = Head(Filled(b, k)).length]
  BY <1>4 DEF ReadHeader, ParseHeader
<1> DEFINE f == Filled(b, k)
           h == Head(f).length
           e == [[ex[p] EXCEPT !.stage = "stream"] EXCEPT !.remain = h]
<1>6. In(b) = sock[c].in /\ sock[c].in \in Seq(Bytes) BY <1>1, <1>4 DEF In, Socket
<1>7. f \in Seq(Bytes)
  <2>1. buf[b].bytes \in Seq(Bytes) BY <1>1 DEF Buffer
  <2>2. SubSeq(In(b), 1, k) \in Seq(Bytes) BY <1>5, <1>6, Front
  <2> QED BY <2>1, <2>2, Glue DEF Filled
<1> HIDE DEF f
<1>8. 1 \in 1..Len(f) /\ Head(f) = f[1]
  <2>1. f # <<>> BY <1>5 DEF f
  <2> QED BY <1>7, <2>1
<1>9. Took(b, c, k, 1) BY <1>1, <1>4, <1>5, <1>8, TakeBytesEffect DEF f
<1>10. /\ buf' = [buf EXCEPT ![b] = buf'[b]] /\ sock' = [sock EXCEPT ![c] = sock'[c]]
       /\ sock'[c].due = sock[c].due /\ sock'[c].over = sock[c].over /\ sock'[c].state = sock[c].state
  BY <1>9 DEF Took
<1>11. ex' = [ex EXCEPT ![p] = e] BY <1>1, <1>5 DEF f
<1>12. /\ e.stage = "stream" /\ e.buf = b /\ e.conn = c /\ e.got = <<>> /\ e.remain = h /\ e.id = ex[p].id
  BY <1>1, <1>2, <1>3, <1>4 DEF Exchange
<1> HIDE DEF e, h
<1>13. /\ ex'[p] = e /\ lease' = lease /\ count' = count
       /\ \A q \in Procs \ {p} : ex'[q] = ex[q] /\ lease'[q] = lease[q]
  BY <1>1, <1>2, <1>11 DEF pool
<1>14. /\ \A d \in Conns \ {c} : sock'[d] = sock[d]
       /\ \A a \in Bufs \ {b} : buf'[a] = buf[a]
  BY <1>1, <1>10
<1>15. \A q \in Procs \ {p} : Holds(q) => sock'[ex[q].conn] = sock[ex[q].conn]
  <2>1. \A q \in Procs \ {p} : Holds(q) => ex[q].conn \in Conns \ {c}
    BY <1>3 DEF IInv, Staged, Holds
  <2> QED BY <1>14, <2>1
<1>16. \A q \in Procs \ {p} : Owns(q) => buf'[ex[q].buf] = buf[ex[q].buf]
  <2>1. \A q \in Procs \ {p} : Owns(q) => ex[q].buf \in Bufs \ {b} BY <1>4 DEF IInv, Owned
  <2> QED BY <1>14, <2>1
<1>17. Settled(c)'
  <2>1. lease'[p].conn = c BY <1>3, <1>13
  <2> QED BY <1>10, <1>13, <2>1 DEF InOrder, Settled, Drained
<1>18. Aligned(p)'
  <2> SUFFICES ASSUME Unspoilt(p)' PROVE (\E l \in Nat \union {-1} : AlignedWith(p, l))'
    BY DEF Aligned
  <2>1. Unspoilt(p) BY <1>3, <1>10, <1>12, <1>13 DEF Unspoilt
  <2>2. PICK l \in Nat \union {-1} : AlignedWith(p, l) BY <1>2, <2>1 DEF InOrder, Aligned
  <2> DEFINE i == ex[p].id
             s == buf[b].bytes
             t == sock[c].in
             u == buf'[b].bytes
             v == sock'[c].in
             d == sock[c].due
  <2>12. PICK a \in Nat : a = 0 OBVIOUS
  <2>3. Place(p) = a /\ Buffered(p) = s BY <1>2, <1>4, <2>12 DEF Place, Buffered
  <2>4. /\ Run(s, i, a, l) /\ Run(t, i, a + Len(s), l) /\ Run(d, i, a + Len(s) + Len(t), l)
        /\ sock[c].over = 0 /\ l >= 0 => a + Len(s) + Len(t) + Len(d) <= l + 1
    BY <1>2, <1>3, <2>2, <2>3 DEF AlignedWith
  <2>5. /\ Run(f, i, a, l) /\ Run(u, i, a + 1, l) /\ Run(v, i, a + 1 + Len(u), l)
        /\ a + 1 + Len(u) + Len(v) = a + Len(s) + Len(t)
        /\ Len(u) \in Nat /\ Len(v) \in Nat
    <3>1. k \in Nat /\ k <= Len(sock[c].in) BY <1>5, <1>6
    <3>2. 1 <= Len(f) /\ 1 \in Nat BY <1>8
    <3>3. PICK n \in Nat : n = 1 OBVIOUS
    <3>4. /\ IInv /\ b \in Bufs /\ c \in Conns /\ a \in Nat /\ k \in Nat /\ n \in Nat
          /\ k <= Len(sock[c].in) /\ n <= Len(Filled(b, k)) /\ Took(b, c, k, n)
          /\ Run(buf[b].bytes, i, a, l) /\ Run(sock[c].in, i, a + Len(buf[b].bytes), l)
      BY <1>9, <2>4, <3>1, <3>2, <3>3 DEF f
    <3> HIDE DEF i
    <3>5. /\ Run(Filled(b, k), i, a, l)
          /\ Run(buf'[b].bytes, i, a + n, l)
          /\ Run(sock'[c].in, i, a + n + Len(buf'[b].bytes), l)
          /\ a + n + Len(buf'[b].bytes) + Len(sock'[c].in) = a + Len(buf[b].bytes) + Len(sock[c].in)
          /\ Len(buf'[b].bytes) \in Nat /\ Len(sock'[c].in) \in Nat
      BY ONLY <3>4, TookRuns
    <3> QED BY <3>3, <3>5 DEF f
  <2>6. h = l
    <3>1. Byte(f[1], i, a + 1 - 1, l) BY <1>8, <2>5, RunBytes, <1>7
    <3> QED BY <1>8, <3>1 DEF Byte, h
  <2> HIDE DEF i, s, t, u, v, d
  <2>7. Place(p)' = a + 1 /\ Buffered(p)' = u
    <3>1. Len(<<>>) + 1 = a + 1 BY <2>12, EmptySeq
    <3> QED BY <1>12, <1>13, <3>1 DEF Place, Buffered, u
  <2>8. /\ Run(u, i, a + 1, l) /\ Run(v, i, a + 1 + Len(u), l) /\ Run(d, i, a + 1 + Len(u) + Len(v), l)
        /\ sock[c].over = 0 /\ l >= 0 => a + 1 + Len(u) + Len(v) + Len(d) <= l + 1
    BY <2>4, <2>5
  <2>9. /\ Run(<<>>, i, 1, l) /\ Len(<<>>) = 0 BY EmptyRun, EmptySeq
  <2>10. l = IF l < 0 THEN -1 ELSE l - 0 OBVIOUS
  <2>11. AlignedWith(p, l)'
    BY <1>10, <1>12, <1>13, <2>6, <2>7, <2>8, <2>9, <2>10 DEF AlignedWith, i, v, d
  <2> QED BY <2>11
<1> QED BY <1>3, <1>13, <1>14, <1>15, <1>16, <1>17, <1>18, OthersInOrder
\* ReadBytes: what is read follows what was got, and at the announced length all has been read.
LEMMA ReadBytesInOrder ==
    ASSUME IInv, InOrder, NEW p \in Procs, ReadBytes(p)
    PROVE  InOrder'
<1>1. /\ buf \in [Bufs -> Buffer] /\ sock \in [Conns -> Socket] /\ ex \in [Procs -> Exchange]
      /\ ex[p] \in Exchange
  BY TypesOf DEF IInv
<1>2. /\ ex[p].stage = "stream" /\ ex[p].remain # 0 /\ Holds(p) /\ Owns(p)
      /\ UNCHANGED <<pool, count, spare>>
  BY DEF ReadBytes, Holds, Owns, IInv, Staged
<1>3. PICK c \in Conns : /\ c = ex[p].conn /\ lease[p].conn = c
                         /\ \A q \in Procs \ {p} : Holds(q) => ex[q].conn # c
  BY <1>2, OnlyHolder
<1>4. PICK b \in Bufs : /\ b = ex[p].buf /\ buf[b].src = c
                        /\ \A q \in Procs \ {p} : Owns(q) => ex[q].buf # b
  BY <1>2, <1>3 DEF IInv, Owned
<1>5. PICK k \in Nat, n \in Nat, bs \in Seq(Bytes), err \in {"none", "eof", "reset"} :
          BytesRead(p, k, n, bs, err)
  BY ReadBytesEffect
<1> DEFINE f == Filled(b, k)
           g == ex[p].got
           i == ex[p].id
           s == buf[b].bytes
           t == sock[c].in
           u == buf'[b].bytes
           v == sock'[c].in
           d == sock[c].due
           e == ex'[p]
<1>6. /\ k <= Len(t) /\ n <= Len(f) /\ 1 <= n /\ Took(b, c, k, n) /\ f \in Seq(Bytes)
      /\ bs = SubSeq(f, 1, n) /\ Len(bs) = n
      /\ ex[p].remain > 0 => n <= ex[p].remain
      /\ err # "none" => n = k /\ k = Len(t) /\ sock[c].state # "open"
      /\ ex' = [ex EXCEPT ![p] = e] /\ Advanced(ex[p], e, bs, err)
  <2>1. t \in Seq(Bytes) BY <1>1 DEF Socket
  <2>2. Filled(b, k) \in Seq(Bytes) BY <1>3, <1>4, <1>5 DEF BytesRead, Took
  <2> QED BY <1>3, <1>4, <1>5, <2>1, <2>2 DEF BytesRead, Fits
<1>7. /\ buf' = [buf EXCEPT ![b] = buf'[b]] /\ sock' = [sock EXCEPT ![c] = sock'[c]]
      /\ sock'[c].due = d /\ sock'[c].over = sock[c].over /\ sock'[c].state = sock[c].state
      /\ Len(v) = Len(t) - k /\ u \in Seq(Bytes) /\ v \in Seq(Bytes) /\ d \in Seq(Bytes)
      /\ t \in Seq(Bytes) /\ s \in Seq(Bytes) /\ g \in Seq(Bytes)
  <2>1. /\ d \in Seq(Bytes) /\ t \in Seq(Bytes) /\ s \in Seq(Bytes) /\ g \in Seq(Bytes)
    BY <1>1 DEF Socket, Buffer, Exchange
  <2> QED BY <1>6, <2>1 DEF Took, Socket, Buffer
<1>8. /\ e.id = i /\ e.conn = c /\ e.buf = b /\ e.got = g \o bs
      /\ e.remain = (IF ex[p].remain > 0 THEN ex[p].remain - n ELSE ex[p].remain)
      /\ (e.returned <=> e.remain = 0 \/ err # "none")
      /\ e.stage = (IF e.returned THEN "release" ELSE "stream")
  BY <1>3, <1>4, <1>6 DEF Advanced
<1> HIDE DEF e
<1>9. /\ ex'[p] = e /\ lease' = lease /\ count' = count
      /\ \A q \in Procs \ {p} : ex'[q] = ex[q] /\ lease'[q] = lease[q]
  BY <1>1, <1>2, <1>6 DEF pool, e
<1>10. /\ \A y \in Conns \ {c} : sock'[y] = sock[y]
       /\ \A a \in Bufs \ {b} : buf'[a] = buf[a]
  BY <1>1, <1>7
<1>11. \A q \in Procs \ {p} : Holds(q) => sock'[ex[q].conn] = sock[ex[q].conn]
  <2>1. \A q \in Procs \ {p} : Holds(q) => ex[q].conn \in Conns \ {c}
    BY <1>3 DEF IInv, Staged, Holds
  <2> QED BY <1>10, <2>1
<1>12. \A q \in Procs \ {p} : Owns(q) => buf'[ex[q].buf] = buf[ex[q].buf]
  <2>1. \A q \in Procs \ {p} : Owns(q) => ex[q].buf \in Bufs \ {b} BY <1>4 DEF IInv, Owned
  <2> QED BY <1>10, <2>1
<1>13. Settled(c)'
  <2>1. lease'[p].conn = c BY <1>3, <1>9
  <2> QED BY <1>7, <1>9, <2>1 DEF InOrder, Settled, Drained
<1>14. sock[c].state # "open" => d = <<>> BY DEF InOrder, Settled
<1>15. Aligned(p)'
  <2> SUFFICES ASSUME Unspoilt(p)' PROVE (\E l \in Nat \union {-1} : AlignedWith(p, l))'
    BY DEF Aligned
  <2>1. Unspoilt(p) BY <1>3, <1>7, <1>8, <1>9 DEF Unspoilt
  <2>2. PICK l \in Nat \union {-1} : AlignedWith(p, l) BY <1>2, <2>1 DEF InOrder, Aligned
  <2>3. PICK a \in Nat : a = Len(g) + 1 BY <1>7
  <2>4. Place(p) = a /\ Buffered(p) = s BY <1>2, <1>4, <2>3 DEF Place, Buffered
  <2>5. /\ Run(g, i, 1, l) /\ (l >= 0 => Len(g) <= l)
        /\ ex[p].remain = IF l < 0 THEN -1 ELSE l - Len(g)
        /\ Run(s, i, a, l) /\ Run(t, i, a + Len(s), l) /\ Run(d, i, a + Len(s) + Len(t), l)
        /\ sock[c].over = 0 /\ l >= 0 => a + Len(s) + Len(t) + Len(d) <= l + 1
    BY <1>2, <1>3, <2>2, <2>4 DEF AlignedWith
  <2>6. /\ Run(f, i, a, l) /\ Run(u, i, a + n, l) /\ Run(v, i, a + n + Len(u), l)
        /\ a + n + Len(u) + Len(v) = a + Len(s) + Len(t)
        /\ Len(u) \in Nat /\ Len(v) \in Nat
    <3>1. /\ IInv /\ b \in Bufs /\ c \in Conns /\ a \in Nat /\ k \in Nat /\ n \in Nat
          /\ k <= Len(sock[c].in) /\ n <= Len(Filled(b, k)) /\ Took(b, c, k, n)
          /\ Run(buf[b].bytes, i, a, l) /\ Run(sock[c].in, i, a + Len(buf[b].bytes), l)
      BY <1>6, <2>5
    <3> HIDE DEF i
    <3>2. /\ Run(Filled(b, k), i, a, l)
          /\ Run(buf'[b].bytes, i, a + n, l)
          /\ Run(sock'[c].in, i, a + n + Len(buf'[b].bytes), l)
          /\ a + n + Len(buf'[b].bytes) + Len(sock'[c].in) = a + Len(buf[b].bytes) + Len(sock[c].in)
          /\ Len(buf'[b].bytes) \in Nat /\ Len(sock'[c].in) \in Nat
      BY ONLY <3>1, TookRuns
    <3> QED BY <3>2
  <2> HIDE DEF f, g, i, s, t, u, v, d
  <2>7. /\ e.got \in Seq(Bytes) /\ Len(e.got) = Len(g) + n /\ Run(e.got, i, 1, l)
    <3>1. Run(f, i, Len(g) + 1, l) BY <2>3, <2>6
    <3>2. \A j \in 1..n : bs[j] = f[j]
      <4>1. n \in 0..Len(f) BY <1>6
      <4> QED BY <1>6, <4>1, Front
    <3>3. g \in Seq(Bytes) /\ f \in Seq(Bytes) /\ bs \in Seq(Bytes) /\ n \in Nat /\ n <= Len(f) /\ Len(bs) = n
      BY <1>6, <1>7
    <3>4. Run(g, i, 1, l) BY <2>5
    <3>5. g \o bs \in Seq(Bytes) /\ Len(g \o bs) = Len(g) + n /\ Run(g \o bs, i, 1, l)
      BY ONLY <3>1, <3>2, <3>3, <3>4, RunGot
    <3> QED BY <1>8, <3>5
  <2>8. Len(g) \in Nat /\ Len(d) \in Nat /\ Len(t) \in Nat /\ Len(s) \in Nat BY <1>7
  <2>9. /\ l >= 0 => Len(e.got) <= l
        /\ e.remain = IF l < 0 THEN -1 ELSE l - Len(e.got)
    <3>1. CASE l < 0 BY <1>8, <2>5, <3>1
    <3>2. CASE l >= 0
      <4>1. ex[p].remain = l - Len(g) /\ Len(g) <= l /\ l \in Nat BY <2>5, <3>2
      <4>2. ex[p].remain > 0 BY <1>2, <2>8, <4>1
      <4>3. e.remain = (l - Len(g)) - n /\ n <= l - Len(g) BY <1>6, <1>8, <4>1, <4>2
      <4> QED BY <2>7, <2>8, <3>2, <4>1, <4>3
    <3> QED BY <3>1, <3>2
  <2>10. sock[c].over = 0 /\ l >= 0 => a + n + Len(u) + Len(v) + Len(d) <= l + 1
    BY <2>5, <2>6
  <2>11. Run(d, i, a + n + Len(u) + Len(v), l) BY <2>5, <2>6
  <2>12. CASE e.stage = "release"
    <3>1. ASSUME e.remain >= 0, sock[c].over = 0 PROVE v = <<>> /\ d = <<>>
      <4>1. l >= 0 BY <2>9, <3>1
      <4>2. CASE err # "none"
        <5>1. Len(v) = 0 BY <1>6, <1>7, <2>8, <4>2 DEF v, t
        <5> QED BY <1>6, <1>7, <1>14, <4>2, <5>1, EmptySeq
      <4>3. CASE err = "none"
        <5>1. e.remain = 0 BY <1>8, <2>12, <4>3
        <5>2. Len(g) + n = l /\ l \in Nat BY <2>7, <2>8, <2>9, <4>1, <5>1
        <5>3. Len(v) = 0 /\ Len(d) = 0 BY <2>3, <2>6, <2>8, <2>10, <3>1, <4>1, <5>2
        <5> QED BY <1>7, <5>3, EmptySeq
      <4> QED BY <4>2, <4>3
    <3>2. AlignedWith(p, l)'
      BY <1>7, <1>8, <1>9, <2>7, <2>9, <2>12, <3>1 DEF AlignedWith, v, i
    <3> QED BY <3>2
  <2>13. CASE e.stage = "stream"
    <3>1. Place(p)' = a + n /\ Buffered(p)' = u
      <4>1. Len(e.got) + 1 = a + n BY <2>3, <2>7, <2>8
      <4> QED BY <1>8, <1>9, <2>13, <4>1 DEF Place, Buffered, u
    <3>2. AlignedWith(p, l)'
      BY <1>7, <1>8, <1>9, <2>6, <2>7, <2>9, <2>10, <2>11, <2>13, <3>1 DEF AlignedWith, v, i
    <3> QED BY <3>2
  <2> QED BY <1>8, <2>12, <2>13
<1> QED BY <1>3, <1>9, <1>10, <1>11, <1>12, <1>13, <1>15, OthersInOrder
\* ReadError: nothing more is read, and nothing more will come.
LEMMA ReadErrorInOrder ==
    ASSUME IInv, InOrder, NEW p \in Procs, ReadError(p)
    PROVE  InOrder'
<1>1. ex \in [Procs -> Exchange] /\ ex[p] \in Exchange /\ ex[p].got \in Seq(Bytes)
  BY TypesOf DEF IInv, Exchange
<1>2. Holds(p) /\ UNCHANGED <<pool, spare, buf, sock, count>> BY DEF ReadError, Holds, IInv, Staged
<1>3. PICK c \in Conns : c = ex[p].conn /\ lease[p].conn = c BY <1>2, OnlyHolder
<1> DEFINE e == ex'[p]
           w == <<>>
<1>4. /\ ex' = [ex EXCEPT ![p] = e] /\ Advanced(ex[p], e, w, sock[c].state)
      /\ sock[c].state # "open" /\ sock[c].in = <<>> /\ sock[c].due = <<>>
      /\ ex[p].stage = "stream" /\ ex[p].remain # 0
  BY <1>3, ReadErrorEffect DEF InOrder, Settled
<1>5. Len(w) = 0 /\ ex[p].got \o w = ex[p].got
  BY <1>1
<1>6. sock[c].state # "none" BY <1>3, TypesOf DEF IInv, Socket
<1>7. /\ e.id = ex[p].id /\ e.conn = c /\ e.got = ex[p].got /\ e.stage = "release"
  BY <1>3, <1>4, <1>5, <1>6 DEF Advanced
<1> HIDE DEF e, w
<1>8. /\ ex'[p] = e /\ lease' = lease /\ count' = count /\ sock' = sock
      /\ \A q \in Procs \ {p} : ex'[q] = ex[q] /\ lease'[q] = lease[q]
  BY <1>1, <1>2, <1>4 DEF pool
<1>9. Settled(c)' BY <1>8 DEF InOrder, Settled, Drained
<1>10. Aligned(p)'
  <2> SUFFICES ASSUME Unspoilt(p)' PROVE (\E l \in Nat \union {-1} : AlignedWith(p, l))'
    BY DEF Aligned
  <2>1. Unspoilt(p) BY <1>3, <1>7, <1>8 DEF Unspoilt
  <2>2. PICK l \in Nat \union {-1} : AlignedWith(p, l) BY <1>2, <2>1 DEF InOrder, Aligned
  <2>3. AlignedWith(p, l)' BY <1>4, <1>7, <1>8, <2>2 DEF AlignedWith
  <2> QED BY <2>3
<1> QED BY <1>2, <1>3, <1>8, <1>9, <1>10, OthersInOrder

\* What the upstream does to a connection keeps the order if it does for whoever has it.
LEMMA UpstreamInOrder ==
    ASSUME IInv, InOrder, NEW c \in Conns, OnlySocket(c), Settled(c)',
           \A p \in Procs : Holds(p) /\ ex[p].conn = c => Aligned(p)'
    PROVE  InOrder'
<1>1. sock \in [Conns -> Socket] BY TypesOf DEF IInv
<1>2. /\ ex' = ex /\ lease' = lease /\ buf' = buf /\ count' = count
      /\ \A d \in Conns \ {c} : sock'[d] = sock[d]
  BY <1>1 DEF OnlySocket, pool
<1>3. ASSUME NEW p \in Procs PROVE Aligned(p)'
  <2>1. CASE Holds(p) /\ ex[p].conn = c BY <2>1
  <2>2. CASE ~Holds(p)
    <3>1. ~Holds(p)' BY <1>2, <2>2 DEF Holds
    <3> QED BY <3>1, NotHolding
  <2>3. CASE Holds(p) /\ ex[p].conn # c
    <3>1. ex[p].conn \in Conns \ {c} BY <2>3, OnlyHolder
    <3>2. Aligned(p) /\ sock'[ex[p].conn] = sock[ex[p].conn] BY <1>2, <3>1 DEF InOrder
    <3> QED BY <1>2, <3>2, StaysAligned
  <2> QED BY <2>1, <2>2, <2>3
<1>4. ASSUME NEW d \in Conns PROVE Settled(d)'
  <2>1. CASE d = c BY <2>1
  <2>2. CASE d # c
    <3>1. sock'[d] = sock[d] /\ Settled(d) BY <1>2, <2>2 DEF InOrder
    <3> QED BY <1>2, <3>1 DEF Settled, Drained
  <2> QED BY <2>1, <2>2
<1> QED BY <1>3, <1>4 DEF InOrder

\* The place of an exchange is a number and what its reader has buffered a sequence.
LEMMA BufferedType ==
    ASSUME IInv, NEW p \in Procs, Holds(p)
    PROVE  Place(p) \in Nat /\ Buffered(p) \in Seq(Bytes)
<1>1. ex[p].got \in Seq(Bytes) BY TypesOf DEF IInv, Exchange
<1>2. Place(p) \in Nat BY <1>1 DEF Place
<1>3. CASE ex[p].stage \in {"header", "stream"}
  <2>1. ex[p].buf \in Bufs BY <1>3 DEF IInv, Owned, Owns, Holds
  <2> QED BY <1>2, <1>3, <2>1, TypesOf DEF IInv, Buffer, Buffered
<1>4. CASE ex[p].stage \notin {"header", "stream"} BY <1>2, <1>4, EmptySeq DEF Buffered
<1> QED BY <1>3, <1>4

\* Deliver: what was first to be sent is last to be received.
LEMMA DeliverInOrder ==
    ASSUME IInv, InOrder, NEW c \in Conns, Deliver(c)
    PROVE  InOrder'
<1>1. PICK k \in Nat : Delivered(c, k) BY DeliverEffect
<1> DEFINE t == sock[c].in
           d == sock[c].due
           u == sock'[c].in
           v == sock'[c].due
<1>2. /\ t \in Seq(Bytes) /\ d \in Seq(Bytes) /\ u \in Seq(Bytes) /\ v \in Seq(Bytes)
  <2>1. t \in Seq(Bytes) /\ d \in Seq(Bytes) BY TypesOf DEF IInv, Socket
  <2> QED BY <1>1, <2>1 DEF Delivered, OnlySocket, Socket
<1>3. d # <<>> BY <1>1, EmptySeq DEF Delivered
<1>4. /\ OnlySocket(c) /\ sock'[c].over = sock[c].over /\ sock'[c].state = sock[c].state
      /\ ex' = ex /\ lease' = lease /\ buf' = buf /\ count' = count
  BY <1>1 DEF Delivered, OnlySocket, pool
<1>5. Settled(c)'
  <2>1. Settled(c) BY DEF InOrder
  <2> QED BY <1>3, <1>4, <2>1 DEF Settled, Drained
<1>6. Joined(t, d, k, u) /\ Dropped(d, k, v)
  <2>1. k <= Len(d) BY <1>1, <1>2 DEF Delivered
  <2> QED BY <1>1, <2>1 DEF Delivered, Joined, Dropped
<1>7. ASSUME NEW p \in Procs, Holds(p), ex[p].conn = c PROVE Aligned(p)'
  <2> SUFFICES ASSUME Unspoilt(p)' PROVE (\E l \in Nat \union {-1} : AlignedWith(p, l))'
    BY DEF Aligned
  <2>1. Unspoilt(p) BY <1>4, <1>7 DEF Unspoilt
  <2>2. PICK l \in Nat \union {-1} : AlignedWith(p, l) BY <1>7, <2>1 DEF InOrder, Aligned
  <2>3. CASE ex[p].stage = "release"
    <3>1. ~(ex[p].remain >= 0 /\ sock[c].over = 0) BY <1>3, <1>7, <2>2, <2>3 DEF AlignedWith
    <3>2. AlignedWith(p, l)' BY <1>4, <1>7, <2>2, <2>3, <3>1 DEF AlignedWith
    <3> QED BY <3>2
  <2>4. CASE ex[p].stage # "release"
    <3> DEFINE i == ex[p].id
               s == Buffered(p)
    <3>1. PICK a : a = Place(p) + Len(s) OBVIOUS
    <3>2. /\ Place(p) \in Nat /\ Len(s) \in Nat /\ a \in Nat
      <4>1. Place(p) \in Nat /\ s \in Seq(Bytes) BY <1>7, BufferedType
      <4> QED BY <3>1, <4>1
    <3> HIDE DEF s, i
    <3>3. /\ Run(t, i, a, l) /\ Run(d, i, a + Len(t), l)
          /\ sock[c].over = 0 /\ l >= 0 => a + Len(t) + Len(d) <= l + 1
      BY <1>7, <2>2, <2>4, <3>1 DEF AlignedWith, s, i
    <3> HIDE DEF t, d, u, v
    <3>4. /\ Run(u, i, a, l) /\ Run(v, i, a + Len(u), l)
          /\ a + Len(u) + Len(v) = a + Len(t) + Len(d)
      <4>1. a \in Nat /\ k \in Nat BY <3>2
      <4>2. Run(t, i, a, l) /\ Run(d, i, a + Len(t), l) BY <3>3
      <4> QED BY ONLY <1>2, <1>6, <4>1, <4>2, RunMove
    <3>5. sock[c].over = 0 /\ l >= 0 => a + Len(u) + Len(v) <= l + 1 BY <3>3, <3>4
    <3>6. Place(p)' = Place(p) /\ Buffered(p)' = s BY <1>4 DEF Place, Buffered, s
    <3>7. AlignedWith(p, l)'
      BY <1>4, <1>7, <2>2, <2>4, <3>1, <3>4, <3>5, <3>6 DEF AlignedWith, s, i, u, v
    <3> QED BY <3>7
  <2> QED BY <2>3, <2>4
<1> QED BY <1>4, <1>5, <1>7, UpstreamInOrder

\* UpstreamClose: there is less to come.
LEMMA UpstreamCloseInOrder ==
    ASSUME IInv, InOrder, NEW c \in Conns, UpstreamClose(c)
    PROVE  InOrder'
<1>1. Closed(c) BY UpstreamCloseEffect
<1> DEFINE t == sock[c].in
           d == sock[c].due
           u == sock'[c].in
           v == sock'[c].due
<1>2. /\ t \in Seq(Bytes) /\ d \in Seq(Bytes) /\ v = <<>> /\ u \in {t, <<>>}
      /\ OnlySocket(c) /\ sock'[c].over = sock[c].over
      /\ ex' = ex /\ lease' = lease /\ buf' = buf /\ count' = count
  BY <1>1, TypesOf DEF IInv, Socket, Closed, OnlySocket, pool
<1>3. Settled(c)'
  <2>1. Settled(c) BY DEF InOrder
  <2> QED BY <1>2, <2>1 DEF Settled, Drained
<1>4. ASSUME NEW p \in Procs, Holds(p), ex[p].conn = c PROVE Aligned(p)'
  <2> SUFFICES ASSUME Unspoilt(p)' PROVE (\E l \in Nat \union {-1} : AlignedWith(p, l))'
    BY DEF Aligned
  <2>1. Unspoilt(p) BY <1>2, <1>4 DEF Unspoilt
  <2>2. PICK l \in Nat \union {-1} : AlignedWith(p, l) BY <1>4, <2>1 DEF InOrder, Aligned
  <2>3. CASE ex[p].stage = "release"
    <3>1. AlignedWith(p, l)' BY <1>2, <1>4, <2>2, <2>3 DEF AlignedWith
    <3> QED BY <3>1
  <2>4. CASE ex[p].stage # "release"
    <3> DEFINE i == ex[p].id
               s == Buffered(p)
    <3>1. PICK a : a = Place(p) + Len(s) OBVIOUS
    <3>2. a \in Int
      <4>1. Place(p) \in Nat /\ s \in Seq(Bytes) BY <1>4, BufferedType
      <4> QED BY <3>1, <4>1
    <3> HIDE DEF s, i
    <3>3. /\ Run(t, i, a, l) /\ Run(d, i, a + Len(t), l)
          /\ sock[c].over = 0 /\ l >= 0 => a + Len(t) + Len(d) <= l + 1
      BY <1>4, <2>2, <2>4, <3>1 DEF AlignedWith, s, i
    <3> HIDE DEF t, d, u, v
    <3>4. Len(u) <= Len(t) /\ Len(v) = 0 /\ Len(u) \in Nat /\ Len(t) \in Nat /\ Len(d) \in Nat
      BY <1>2, EmptySeq
    <3>5. Run(u, i, a, l) /\ Run(v, i, a + Len(u), l) BY <1>2, <3>3, EmptyRun
    <3>6. sock[c].over = 0 /\ l >= 0 => a + Len(u) + Len(v) <= l + 1 BY <3>2, <3>3, <3>4
    <3>7. Place(p)' = Place(p) /\ Buffered(p)' = s BY <1>2 DEF Place, Buffered, s
    <3>8. AlignedWith(p, l)'
      BY <1>2, <1>4, <2>2, <2>4, <3>1, <3>5, <3>6, <3>7 DEF AlignedWith, s, i, u, v
    <3> QED BY <3>8
  <2> QED BY <2>3, <2>4
<1> QED BY <1>2, <1>3, <1>4, UpstreamInOrder
\* Every step keeps the order of the bytes.
LEMMA InOrderNext == IInv /\ InOrder /\ [ReadersNext]_vars => InOrder'
<1> SUFFICES ASSUME IInv, InOrder, [ReadersNext]_vars PROVE InOrder' OBVIOUS
<1>1. ASSUME NEW p \in Procs, NEW a \in Addrs, NEW c \in Conns, Send(p, a, c) PROVE InOrder'
  BY <1>1, SendInOrder
<1>2. ASSUME NEW p \in Procs, NEW b \in Bufs, AcquireBufIOReader(p, b) PROVE InOrder'
  BY <1>2, AcquireInOrder
<1>3. ASSUME NEW p \in Procs, ReadHeader(p) PROVE InOrder' BY <1>3, ReadHeaderInOrder
<1>4. ASSUME NEW p \in Procs, ExchangeFailed(p) PROVE InOrder' BY <1>4, ExchangeFailedInOrder
<1>5. ASSUME NEW p \in Procs, ReadBytes(p) PROVE InOrder' BY <1>5, ReadBytesInOrder
<1>6. ASSUME NEW p \in Procs, ReadError(p) PROVE InOrder' BY <1>6, ReadErrorInOrder
<1>7. ASSUME NEW p \in Procs, GiveBack(p) PROVE InOrder' BY <1>7, GiveBackInOrder
<1>8. ASSUME NEW p \in Procs, OnDone(p) PROVE InOrder' BY <1>8, OnDoneInOrder
<1>9. ASSUME NEW p \in Procs, StopReading(p) PROVE InOrder' BY <1>9, StopReadingInOrder
<1>10. ASSUME NEW c \in Conns, Deliver(c) PROVE InOrder' BY <1>10, DeliverInOrder
<1>11. ASSUME NEW c \in Conns, UpstreamClose(c) PROVE InOrder' BY <1>11, UpstreamCloseInOrder
<1>12. CASE UNCHANGED vars
  <2>1. ex' = ex /\ lease' = lease /\ buf' = buf /\ sock' = sock /\ count' = count
    BY <1>12 DEF vars
  <2>2. ASSUME NEW p \in Procs PROVE Aligned(p)' BY <2>1, StaysAligned DEF InOrder
  <2>3. ASSUME NEW c \in Conns PROVE Settled(c)' BY <2>1 DEF InOrder, Settled, Drained
  <2> QED BY <2>2, <2>3 DEF InOrder
<1> QED BY <1>1, <1>2, <1>3, <1>4, <1>5, <1>6, <1>7, <1>8, <1>9, <1>10, <1>11, <1>12 DEF ReadersNext

\* What a client has got is the response to its own request from the beginning, without a gap and
\* not beyond the announced length, as long as no upstream has sent too much on that connection
\* before: PoolReader stops at the announced length and gives back a connection on which nothing
\* is left, TimedReader and the pooled bufio.Reader pass on what the connection delivers.
THEOREM ResponseIsOwn == ReadersSpec => []OwnResponse
<1>1. IInv /\ InOrder => OwnResponse
  <2> SUFFICES ASSUME IInv, InOrder, NEW p \in Procs,
                      lease[p] # P!NoLease, sock[ex[p].conn].over \in {0} \union ex[p].id..MaxExchanges,
                      NEW i \in DOMAIN ex[p].got
               PROVE  LET b == ex[p].got[i]
                      IN  b.id = ex[p].id /\ b.at = i /\ (b.length >= 0 => i <= b.length)
    BY DEF OwnResponse
  <2>1. Holds(p) /\ Unspoilt(p) BY DEF IInv, Staged, Unspoilt
  <2>2. PICK l \in Nat \union {-1} : AlignedWith(p, l) BY <2>1 DEF InOrder, Aligned
  <2>3. ex[p].got \in Seq(Bytes) BY TypesOf DEF IInv, Exchange
  <2>4. i \in 1..Len(ex[p].got) /\ i \in Nat /\ Len(ex[p].got) \in Nat BY <2>3
  <2>5. Byte(ex[p].got[i], ex[p].id, 1 + i - 1, l) /\ (l >= 0 => Len(ex[p].got) <= l)
    BY <2>2, <2>4 DEF AlignedWith, Run
  <2>6. 1 + i - 1 = i BY <2>4
  <2> QED BY <2>4, <2>5, <2>6 DEF Byte
<1>2. ReadersInit => IInv /\ InOrder BY IInvInit, InOrderInit
<1>3. IInv /\ InOrder /\ [ReadersNext]_vars => (IInv /\ InOrder)' BY IInvNext, InOrderNext
<1> QED BY <1>1, <1>2, <1>3, PTL DEF ReadersSpec
=============================================================================
