------------------------------ MODULE Readers -------------------------------
(***************************************************************************)
(* The bytes of a response on their way to the client: the PoolReader over *)
(* the TimedReader over a pooled bufio.Reader over the socket, as          *)
(* readResponseHeaders and streamResponseBody of handler.go stack them.    *)
(*                                                                         *)
(* The connection pool is what ConnLease says (module ConnPool implements  *)
(* it); the pool of bufio.Readers is a sync.Pool.  A byte remembers the    *)
(* exchange and the connection it was sent for, and its place in the       *)
(* response, 0 being the header.  An upstream may send more than it has    *)
(* announced.                                                              *)
(***************************************************************************)
EXTENDS Integers, Sequences, FiniteSets

CONSTANTS
    Procs, Addrs, Conns, NoConn,
    Bufs,         \* identities of bufio.Reader objects; reused once dropped
    NoBuf,        \* nil
    BufSize,      \* the size of a bufio.Reader
    Lengths,      \* lengths of response bodies
    Surplus,      \* how many bytes too many a response may have
    MaxExchanges  \* bound on the number of exchanges

ASSUME ReadersAssumption ==
    /\ NoConn \notin Conns /\ NoBuf \notin Bufs
    /\ BufSize \in Nat \ {0} /\ Lengths \subseteq Nat /\ Surplus \in Nat /\ MaxExchanges \in Nat

VARIABLES
    idle, lease, lost,  \* the connection pool, of ConnLease
    spare,   \* the readers in bufIOReaderPool
    buf,     \* for every bufio.Reader, its source and what it has buffered
    sock,    \* for every connection: bytes received, bytes the upstream has yet to send, how it
             \* stands, and the first exchange whose response was too long
    ex,      \* for every goroutine, its handler, PoolReader and TimedReader
    count    \* exchanges begun

pool == <<idle, lease, lost>>
vars == <<idle, lease, lost, spare, buf, sock, ex, count>>

P == INSTANCE ConnLease

(***************************************************************************)
(*   "idle"     no exchange            "stream"   fasthttp reads the body  *)
(*   "await"    the request is sent    "release"  about to give the        *)
(*   "header"   has a bufio.Reader                connection back          *)
(*                                     "done"     about to call onDone     *)
(***************************************************************************)
Stages == {"idle", "await", "header", "stream", "release", "done"}

NoExchange == [stage |-> "idle", id |-> 0, conn |-> NoConn, buf |-> NoBuf, remain |-> 0,
               returned |-> FALSE, timed |-> 0, got |-> <<>>]
NewSocket == [in |-> <<>>, due |-> <<>>, state |-> "open", over |-> 0]

NewBuf == [src |-> NoConn, bytes |-> <<>>]

\* Nobody reads from a connection that was closed or lost, nor from a bufio.Reader that nothing
\* refers to: what they hold is forgotten.
Forget(c) == sock' = [sock EXCEPT ![c] = NewSocket]
ForgetBuf(b) == buf' = IF b = NoBuf THEN buf ELSE [buf EXCEPT ![b] = NewBuf]

ReadersInit ==
    /\ P!LeaseInit
    /\ spare = {}
    /\ buf = [b \in Bufs |-> NewBuf]
    /\ sock = [c \in Conns |-> NewSocket]
    /\ ex = [p \in Procs |-> NoExchange]
    /\ count = 0

-----------------------------------------------------------------------------
(* The exchange up to the response header. *)

\* The response to exchange i on c: a header that announces n bytes, or -1 for a body without a
\* length, then n + extra bytes.
Response(c, i, n, chunked, extra) ==
    [k \in 1..(n + extra + 1) |-> [conn |-> c, id |-> i, at |-> k - 1, length |-> IF chunked THEN -1 ELSE n]]

\* A connection is acquired and the request written to it; an upstream that has closed it
\* answers nothing.
Send(p, a, c) ==
    /\ ex[p].stage = "idle" /\ count < MaxExchanges
    /\ count' = count + 1
    /\ ex' = [ex EXCEPT ![p].stage = "await", ![p].id = count', ![p].conn = c]
    /\ \E n \in Lengths, chunked \in BOOLEAN, extra \in 0..Surplus :
          /\ chunked => extra = 0
          /\ sock' = IF sock[c].state # "open" THEN sock
                     ELSE [sock EXCEPT ![c].due = @ \o Response(c, count', n, chunked, extra),
                                       ![c].over = IF extra > 0 /\ @ = 0 THEN count' ELSE @]
    /\ P!Reuse(p, a, c) \/ P!Connect(p, a, c)
    /\ UNCHANGED <<spare, buf>>

\* Mutant: the reader is taken from the pool as it is.
AsItIs(p, b) == IF b \in spare THEN buf[b] ELSE [src |-> ex[p].conn, bytes |-> <<>>]

\* bufio.Reader.Reset, or NewReaderSize.
Reset(p, b) == [src |-> ex[p].conn, bytes |-> <<>>]

\* A reader of the pool, reset to the connection, or a new one.
AcquireBufIOReader(p, b) ==
    /\ ex[p].stage = "await"
    /\ b \in spare \/ \A q \in Procs : ex[q].buf # b
    /\ spare' = spare \ {b}
    /\ buf' = [buf EXCEPT ![b] = Reset(p, b)]
    /\ ex' = [ex EXCEPT ![p].stage = "header", ![p].buf = b]
    /\ UNCHANGED <<pool, sock, count>>

-----------------------------------------------------------------------------
(* bufio.Reader.Read *)

In(b) == sock[buf[b].src].in

\* What b can give after a fill of k bytes from the socket; there is one only if b is empty.
Filled(b, k) == buf[b].bytes \o SubSeq(In(b), 1, k)

\* A read of n bytes.  A fill is limited by the size of the buffer, unless the caller's slice is
\* at least as large and is read into directly.
TakeBytes(b, k, n) ==
    /\ k = 0 <=> buf[b].bytes # <<>>
    /\ k <= BufSize \/ n = k
    /\ buf' = [buf EXCEPT ![b].bytes = SubSeq(Filled(b, k), n + 1, Len(Filled(b, k)))]
    /\ sock' = [sock EXCEPT ![buf[b].src].in = SubSeq(@, k + 1, Len(@))]

\* Nothing is buffered and the upstream has closed: a read returns an error.
AtEnd(b) == buf[b].bytes = <<>> /\ In(b) = <<>> /\ sock[buf[b].src].state # "open"

-----------------------------------------------------------------------------
(* The response header. *)

ParseHeader(p) ==
    /\ ex[p].stage = "header"
    /\ \E k \in 0..Len(In(ex[p].buf)) :
          /\ Filled(ex[p].buf, k) # <<>>
          /\ TakeBytes(ex[p].buf, k, 1)
          /\ ex' = [ex EXCEPT ![p].stage = "stream", ![p].remain = Head(Filled(ex[p].buf, k)).length]
    /\ UNCHANGED <<pool, count>>

\* Mutant: the reader is released when readResponseHeaders returns.
ReadHeaderReleases(p) == ParseHeader(p) /\ spare' = spare \union {ex[p].buf}

\* The header is parsed.  What an over-long response has left behind may pass for one.
ReadHeader(p) == ParseHeader(p) /\ UNCHANGED spare

\* It is not, or the request could not be written: 502 and CloseAndDrop.  The bufio.Reader is left
\* to the garbage collector.
ExchangeFailed(p) ==
    /\ \/ ex[p].stage = "await"
       \/ ex[p].stage = "header" /\ (AtEnd(ex[p].buf) \/ sock[ex[p].conn].over # 0)
    /\ P!Discard(p) /\ Forget(ex[p].conn) /\ ForgetBuf(ex[p].buf)
    /\ ex' = [ex EXCEPT ![p] = NoExchange]
    /\ UNCHANGED <<spare, count>>

-----------------------------------------------------------------------------
(* TimedReader.Read and PoolReader.Read *)

\* Mutant: the duration is observed after every read.
ObservedAlways(n, err) == 1

\* TimedReader observes the duration of a read that returns n bytes and err.
Observed(n, err) == IF err = "eof" \/ (n > 0 /\ err # "none") THEN 1 ELSE 0

\* Mutant: a body without a length is counted too.
CountDownAlways(e, n) == e.remain - n

CountDown(e, n) == IF e.remain > 0 THEN e.remain - n ELSE e.remain

\* PoolReader after a read that returns bs and err: it is through at the announced length or at
\* an error, and gives the connection back unless it has done so.
AfterRead(e, bs, err) ==
    LET left == CountDown(e, Len(bs))
        over == (e.remain > 0 /\ left <= 0) \/ err # "none"
    IN  [e EXCEPT !.remain = left, !.got = @ \o bs, !.timed = @ + Observed(Len(bs), err),
                  !.returned = @ \/ over, !.stage = IF over /\ ~e.returned THEN "release" ELSE @]

\* Mutant: the slice is not cut to the announced length.
FitsAny(e, n) == TRUE

\* readWithLimit cuts the caller's slice to what remains.
Fits(e, n) == e.remain > 0 => n <= e.remain

\* A read that returns bytes; the last ones may come with the error.
ReadBytes(p) ==
    /\ ex[p].stage = "stream" /\ ex[p].remain # 0
    /\ \E k \in 0..Len(In(ex[p].buf)) : \E n \in 1..Len(Filled(ex[p].buf, k)) :
          /\ Fits(ex[p], n)
          /\ TakeBytes(ex[p].buf, k, n)
          /\ \E err \in {"none"} \union (IF n = k /\ k = Len(In(ex[p].buf)) /\ sock[ex[p].conn].state # "open"
                                         THEN {sock[ex[p].conn].state} ELSE {}) :
                ex' = [ex EXCEPT ![p] = AfterRead(@, SubSeq(Filled(ex[p].buf, k), 1, n), err)]
    /\ UNCHANGED <<pool, spare, count>>

ReadError(p) ==
    /\ ex[p].stage = "stream" /\ ex[p].remain # 0
    /\ AtEnd(ex[p].buf)
    /\ ex' = [ex EXCEPT ![p] = AfterRead(@, <<>>, sock[ex[p].conn].state)]
    /\ UNCHANGED <<pool, spare, buf, sock, count>>

\* Release, with or without room in the pool, or CloseAndDrop for a body without a length.
GiveBack(p) ==
    /\ ex[p].stage = "release"
    /\ \/ ex[p].remain >= 0 /\ P!Return(p) /\ UNCHANGED sock
       \/ P!Discard(p) /\ Forget(ex[p].conn)
    /\ ex' = [ex EXCEPT ![p].stage = "done"]
    /\ UNCHANGED <<spare, buf, count>>

\* onDone: ReleaseBufIOReader.  fasthttp reads once more after a complete body.
OnDone(p) ==
    /\ ex[p].stage = "done"
    /\ spare' = spare \union {ex[p].buf}
    /\ ex' = [ex EXCEPT ![p] = IF @.remain = 0 THEN [@ EXCEPT !.stage = "stream"] ELSE NoExchange]
    /\ UNCHANGED <<pool, buf, sock, count>>

\* fasthttp stops reading: PoolReader returned EOF at remain = 0, or the client has left.
StopReading(p) ==
    /\ ex[p].stage = "stream"
    /\ ex' = [ex EXCEPT ![p] = NoExchange]
    /\ IF lease[p] = P!NoLease THEN UNCHANGED <<pool, buf, sock>>
       ELSE P!Abandon(p) /\ Forget(ex[p].conn) /\ ForgetBuf(ex[p].buf)
    /\ UNCHANGED <<spare, count>>

-----------------------------------------------------------------------------
(* The upstream. *)

Deliver(c) ==
    /\ \E k \in 1..Len(sock[c].due) :
          sock' = [sock EXCEPT ![c].in = @ \o SubSeq(sock[c].due, 1, k),
                               ![c].due = SubSeq(@, k + 1, Len(@))]
    /\ UNCHANGED <<pool, spare, buf, ex, count>>

\* It closes in order, or resets the connection, which may lose what was received.
UpstreamClose(c) ==
    /\ sock[c].state = "open"
    /\ c \in P!Leased \/ \E a \in Addrs : c \in idle[a]
    /\ \E s \in {"eof", "reset"}, in \in {sock[c].in, <<>>} :
          /\ s = "eof" => in = sock[c].in
          /\ sock' = [sock EXCEPT ![c].state = s, ![c].in = in, ![c].due = <<>>]
    /\ UNCHANGED <<pool, spare, buf, ex, count>>

ReadersNext ==
    \/ \E p \in Procs :
          \/ \E a \in Addrs, c \in Conns : Send(p, a, c)
          \/ \E b \in Bufs : AcquireBufIOReader(p, b)
          \/ ReadHeader(p) \/ ExchangeFailed(p) \/ ReadBytes(p) \/ ReadError(p)
          \/ GiveBack(p) \/ OnDone(p) \/ StopReading(p)
    \/ \E c \in Conns : Deliver(c) \/ UpstreamClose(c)

ReadersSpec == ReadersInit /\ [][ReadersNext]_vars

-----------------------------------------------------------------------------
(* Properties. *)

Bytes == [conn : Conns, id : 1..MaxExchanges, at : Nat, length : Nat \union {-1}]

\* Every variable has its type.
ReadersTypeOK ==
    /\ spare \subseteq Bufs /\ count \in 0..MaxExchanges
    /\ buf \in [Bufs -> [src : Conns \union {NoConn}, bytes : Seq(Bytes)]]
    /\ sock \in [Conns -> [in : Seq(Bytes), due : Seq(Bytes), state : {"open", "eof", "reset"}, over : 0..MaxExchanges]]
    /\ ex \in [Procs -> [stage : Stages, id : 0..MaxExchanges, conn : Conns \union {NoConn},
                         buf : Bufs \union {NoBuf}, remain : Nat \union {-1}, returned : BOOLEAN,
                         timed : Nat, got : Seq(Bytes)]]

\* p may still read from its bufio.Reader.
Reading(p) == ex[p].stage \in {"header", "release", "done"} \/ (ex[p].stage = "stream" /\ ex[p].remain # 0)

\* A bufio.Reader from which an exchange may still read is neither in the pool nor another's,
\* and reads from the exchange's own connection.
OwnReader ==
    \A p \in Procs : Reading(p) =>
        /\ ex[p].buf \notin spare
        /\ buf[ex[p].buf].src = ex[p].conn
        /\ \A q \in Procs \ {p} : Reading(q) => ex[q].buf # ex[p].buf

\* What a client has got is the response to its own request from the beginning, without a gap
\* and not beyond the announced length, on any connection on which no earlier response was too
\* long; the response that is too long is itself cut rightly.
OwnResponse ==
    \A p \in Procs : lease[p] # P!NoLease /\ sock[ex[p].conn].over \in {0} \union ex[p].id..MaxExchanges =>
        \A i \in DOMAIN ex[p].got : LET b == ex[p].got[i]
                                    IN  b.id = ex[p].id /\ b.at = i /\ (b.length >= 0 => i <= b.length)

\* Even an upstream that sends too much reaches no client but those whose requests it served on
\* that connection: nothing crosses from one connection to another by way of a reused reader.
Confined == \A p \in Procs : \A i \in DOMAIN ex[p].got : ex[p].got[i].conn = ex[p].conn

\* The duration of a body is observed at most once, and not before the PoolReader is through.
TimedOnce == \A p \in Procs : ex[p].timed <= 1 /\ (ex[p].timed = 1 => ex[p].returned)
=============================================================================
