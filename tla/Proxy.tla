------------------------------- MODULE Proxy --------------------------------
(***************************************************************************)
(* The request path: internal/proxy/handler.go and the PoolReader of       *)
(* internal/readers/pool_reader.go, on top of the connection pool.         *)
(*                                                                         *)
(* Each goroutine serves one request after another.  handle() acquires an  *)
(* upstream connection, writes the request, reads the response header and  *)
(* leaves a PoolReader as the body stream of the response.  fasthttp then  *)
(* reads that stream while it writes to the client; it is PoolReader.Read, *)
(* not the handler, that gives the connection back.                        *)
(*                                                                         *)
(* A connection is modelled by what the proxy can still receive on it; the *)
(* upstream may close it at any time, having sent any part of what is due. *)
(***************************************************************************)
EXTENDS ConnPool

CONSTANTS
    BodySizes,       \* lengths of a response body
    Statuses,        \* status codes of a response
    Bodiless,        \* may a response have no body whatever its header says: the values
                     \* a response's flag takes (HEAD, 1xx, 204, 304)
    ClientMayLeave   \* may a client disconnect while the response is streamed

ASSUME ProxyAssumption ==
    /\ MayForget
    /\ BodySizes \subseteq Nat /\ Statuses \subseteq Nat
    /\ Bodiless \subseteq BOOLEAN
    /\ ClientMayLeave \in BOOLEAN

VARIABLES
    h,     \* for every goroutine, its handler and the PoolReader it leaves behind
    wire   \* for every connection, what is in transit on it

proxyVars == <<poolVars, h, wire>>

(***************************************************************************)
(* Stages of a request.                                                    *)
(*   "idle"     no request                                                 *)
(*   "acquire"  in acquireUpstreamConn                                     *)
(*   "headers"  about to write the request header                          *)
(*   "body"     about to write the request body                            *)
(*   "await"    waiting for the response header                            *)
(*   "stream"   fasthttp reads the PoolReader                              *)
(*   "skip"     the response is one that fasthttp sends without a body     *)
(*   "release"  in ReleaseUpstreamConnection, the body is complete         *)
(*   "fail"     in ReleaseUpstreamConnection, the body broke off           *)
(*   "drop"     in CloseAndDropUpstreamConnection, the last thing it does  *)
(***************************************************************************)
Stages == {"idle", "acquire", "headers", "body", "await", "stream", "skip", "release", "fail", "drop"}

NoRequest == [stage |-> "idle", upstreamAddress |-> NoConn, connection |-> NoConn,
              remain |-> 0, returned |-> FALSE, status |-> 0]

\* owes: a request was written whose response header has not been read.  left: body bytes
\* of the response that can still be read. 
NewWire == [alive |-> TRUE, owes |-> FALSE, left |-> 0]

ProxyInit ==
    /\ Init
    /\ h = [p \in Procs |-> NoRequest]
    /\ wire = [c \in Conns |-> NewWire]

-----------------------------------------------------------------------------
(* handle(), up to the acquired connection. *)

\* A request arrives and resolveUpstream picks an address (module Upstreams has how).
Resolve(p, a) ==
    /\ h[p].stage = "idle"
    /\ h' = [h EXCEPT ![p].stage = "acquire", ![p].upstreamAddress = a]
    /\ UNCHANGED <<poolVars, wire>>

\* Steps inside AcquireUpstreamConnection.
AcquireStep(p) ==
    /\ h[p].stage = "acquire"
    /\ \/ AcquirePop(p, h[p].upstreamAddress) \/ AcquireEmpty(p, h[p].upstreamAddress)
       \/ DropStale(p) \/ UndoCount(p) \/ LimitPass(p) \/ Reserve(p)
    /\ UNCHANGED <<h, wire>>

\* It returned an error: 502, and handle returns.
AcquireFailed(p) ==
    /\ h[p].stage = "acquire"
    /\ LimitReject(p) \/ DialFail(p)
    /\ h' = [h EXCEPT ![p] = NoRequest]
    /\ UNCHANGED wire

\* It returned an idle connection, ...
AcquireIdle(p) ==
    /\ h[p].stage = "acquire"
    /\ KeepFresh(p)
    /\ h' = [h EXCEPT ![p].stage = "headers", ![p].connection = conn[p]]
    /\ UNCHANGED wire

\* ... or a new one.
AcquireNew(p, c) ==
    /\ h[p].stage = "acquire"
    /\ DialOk(p, c)
    /\ h' = [h EXCEPT ![p].stage = "headers", ![p].connection = c]
    /\ wire' = [wire EXCEPT ![c] = NewWire]

-----------------------------------------------------------------------------
(* The exchange with the upstream. *)

\* The header is in the socket.  A write into a socket that the upstream has closed can
\* succeed as well.
WriteRequestHeaders(p) ==
    /\ h[p].stage = "headers"
    /\ h' = [h EXCEPT ![p].stage = "body"]
    /\ wire' = [wire EXCEPT ![h[p].connection].owes = TRUE]
    /\ UNCHANGED poolVars

\* PipeCopy of a streamed body, or one Write of a fixed one, or nothing to send.
WriteRequestBody(p) ==
    /\ h[p].stage = "body"
    /\ h' = [h EXCEPT ![p].stage = "await"]
    /\ UNCHANGED <<poolVars, wire>>

\* The exchange failed: 502, and handle goes on to give the connection up at stage to.
FailTo(p, to) ==
    /\ h[p].stage \in {"headers", "body", "await"}
    /\ h' = [h EXCEPT ![p].stage = to, ![p].status = 502]
    /\ UNCHANGED <<poolVars, wire>>

\* Mutant: the connection of a failed exchange goes back to the pool.
ExchangeFailedReleases(p) == FailTo(p, "fail")

\* Mutant: handle returns without CloseAndDrop.
ExchangeFailedForgets(p) ==
    /\ h[p].stage \in {"headers", "body", "await"}
    /\ h' = [h EXCEPT ![p] = NoRequest]
    /\ Forget(p)
    /\ UNCHANGED wire

\* Writing the header or the body failed (a short write, an error of the client's stream
\* included), or reading the response header did: handle calls CloseAndDrop.
ExchangeFailed(p) == FailTo(p, "drop")

\* copyResponseStatus: any 5xx of the upstream becomes 502.
ClientStatus(s) == IF s >= 500 THEN 502 ELSE s

\* The response header arrives, copyResponseStatus and streamResponseBody run, and handle
\* returns.  The length is -1 for a chunked or close-delimited body.
ReadResponseHeaders(p) ==
    /\ h[p].stage = "await"
    /\ wire[h[p].connection].alive /\ wire[h[p].connection].owes
    /\ \E n \in BodySizes, s \in Statuses, chunked \in BOOLEAN, bodiless \in Bodiless :
          /\ h' = [h EXCEPT ![p].stage = IF bodiless THEN "skip" ELSE "stream",
                            ![p].status = ClientStatus(s),
                            ![p].remain = IF chunked THEN -1 ELSE n,
                            ![p].returned = FALSE]
          /\ wire' = [wire EXCEPT ![h[p].connection].owes = FALSE,
                                  ![h[p].connection].left = IF bodiless THEN 0 ELSE n]
    /\ UNCHANGED poolVars

-----------------------------------------------------------------------------
(* PoolReader.Read *)

\* The request is over.  If the PoolReader has not given the connection back, nobody will:
\* it has no Close, and nothing else refers to the connection.
Finish(p) ==
    /\ h' = [h EXCEPT ![p] = NoRequest]
    /\ IF pc[p] = "held" THEN Forget(p) ELSE UNCHANGED poolVars
    /\ UNCHANGED wire

\* readWithLimit with remain = 0: EOF.
ReadLimitEOF(p) ==
    /\ h[p].stage = "stream" /\ h[p].remain = 0
    /\ Finish(p)

\* Mutant: readWithLimit does not look whether it has given the connection back.
ReadLimitUnflagged(p) ==
    /\ h[p].stage = "stream" /\ h[p].remain >= 0
    /\ h[p].remain <= wire[h[p].connection].left
    /\ h' = [h EXCEPT ![p].remain = 0, ![p].stage = "release"]
    /\ wire' = [wire EXCEPT ![h[p].connection].left = @ - h[p].remain]
    /\ UNCHANGED poolVars

\* readWithLimit that gets n bytes; when at most slack remain it goes on to Release.
ReadBut(p, slack) ==
    /\ h[p].stage = "stream" /\ h[p].remain > 0
    /\ \E n \in 1..h[p].remain :
          /\ n <= wire[h[p].connection].left
          /\ h' = IF n >= h[p].remain - slack /\ ~h[p].returned
                  THEN [h EXCEPT ![p].remain = @ - n, ![p].returned = TRUE, ![p].stage = "release"]
                  ELSE [h EXCEPT ![p].remain = @ - n]
          /\ wire' = [wire EXCEPT ![h[p].connection].left = @ - n]
    /\ UNCHANGED poolVars

\* Mutant: readWithLimit gives the connection back one byte before the end.
ReadLimitEarly(p) == ReadBut(p, 1)

ReadLimit(p) == ReadBut(p, 0)

\* The upstream has closed and nothing is left to read: Read returns an error, and the
\* PoolReader gives the connection up at stage to.
ReadFails(p, to) ==
    /\ ~wire[h[p].connection].alive /\ wire[h[p].connection].left = 0
    /\ h' = [h EXCEPT ![p].returned = TRUE, ![p].stage = to]
    /\ UNCHANGED <<poolVars, wire>>

\* readWithLimit that gets an error before the last byte: Release all the same.
ReadLimitError(p) == h[p].stage = "stream" /\ h[p].remain > 0 /\ ReadFails(p, "fail")

\* readUntilEOF that gets bytes; d is what it counts for each.
ReadAny(p, d) ==
    /\ h[p].stage = "stream" /\ h[p].remain < 0
    /\ \E n \in 1..wire[h[p].connection].left :
          /\ wire' = [wire EXCEPT ![h[p].connection].left = @ - n]
          /\ h' = [h EXCEPT ![p].remain = @ - d * n]
    /\ UNCHANGED poolVars

\* Mutant: the count of a body without a length goes down as well.
ReadSomeCounts(p) == ReadAny(p, 1)

ReadSome(p) == ReadAny(p, 0)

\* Mutant: io.EOF is not taken for an error.
ReadEOFIgnored(p) == h[p].stage = "stream" /\ h[p].remain < 0 /\ UNCHANGED <<poolVars, h, wire>>

\* readUntilEOF at EOF or at an error: CloseAndDrop.
ReadEOF(p) == h[p].stage = "stream" /\ h[p].remain < 0 /\ ReadFails(p, "drop")

\* After a complete body fasthttp reads once more; after an error it stops.
AfterRelease(p) ==
    h' = [h EXCEPT ![p] = IF @.stage = "release" THEN [@ EXCEPT !.stage = "stream"] ELSE NoRequest]

ReleaseConn(p) ==
    /\ h[p].stage \in {"release", "fail"}
    /\ \/ ReleasePut(p, h[p].upstreamAddress, h[p].connection) /\ AfterRelease(p)
       \/ ReleaseEvict(p, h[p].upstreamAddress, h[p].connection) /\ UNCHANGED h
       \/ EvictClose(p) /\ AfterRelease(p)
    /\ UNCHANGED wire

DropConn(p) ==
    /\ h[p].stage = "drop"
    /\ \/ Drop(p, h[p].upstreamAddress, h[p].connection) /\ UNCHANGED h
       \/ DropClose(p) /\ h' = [h EXCEPT ![p] = NoRequest]
    /\ UNCHANGED wire

-----------------------------------------------------------------------------
(* fasthttp, the client and the upstream. *)

\* fasthttp does not read the body of a response that has none.
SkipBody(p) == h[p].stage = "skip" /\ Finish(p)

\* Writing to the client fails and fasthttp stops reading the body.
ClientGone(p) == ClientMayLeave /\ h[p].stage = "stream" /\ Finish(p)

\* The upstream closes its end, after any part of what it had to send.
UpstreamClose(c) ==
    /\ wire[c].alive
    /\ \E a \in Addrs : c \in open[a]
    /\ \E n \in 0..wire[c].left : wire' = [wire EXCEPT ![c].alive = FALSE, ![c].left = n]
    /\ UNCHANGED <<poolVars, h>>

\* What a goroutine does by itself once it has a request.
Serve(p) ==
    \/ AcquireStep(p) \/ AcquireFailed(p) \/ AcquireIdle(p) \/ \E c \in Conns : AcquireNew(p, c)
    \/ WriteRequestHeaders(p) \/ WriteRequestBody(p) \/ ExchangeFailed(p)
    \/ ReadResponseHeaders(p)
    \/ ReadLimitEOF(p) \/ ReadLimit(p) \/ ReadLimitError(p) \/ ReadSome(p) \/ ReadEOF(p)
    \/ ReleaseConn(p) \/ DropConn(p) \/ SkipBody(p)

ProxyNext ==
    \/ \E p \in Procs : Serve(p) \/ ClientGone(p) \/ \E a \in Addrs : Resolve(p, a)
    \/ \E c \in Conns : UpstreamClose(c)
    \/ Tick /\ UNCHANGED <<h, wire>>

ProxySpec == ProxyInit /\ [][ProxyNext]_proxyVars

\* Goroutines are scheduled and sync.Mutex does not starve a waiter.  The upstream closes
\* a connection in the end: without that the proxy, which sets no read deadline, waits
\* for a response, or for the end of a chunked one, for ever.
FairProxySpec ==
    /\ ProxySpec
    /\ \A p \in Procs : SF_proxyVars(Serve(p))
    /\ \A c \in Conns : WF_proxyVars(UpstreamClose(c))

-----------------------------------------------------------------------------
(* Properties. *)

\* Every variable of the request path has its type; of the 5xx the client sees only 502.
ProxyTypeOK ==
    /\ h \in [Procs -> [stage : Stages, upstreamAddress : Addrs \union {NoConn},
                        connection : Conns \union {NoConn}, remain : Nat \union {-1},
                        returned : BOOLEAN, status : 0..499 \union {502}]]
    /\ wire \in [Conns -> [alive : BOOLEAN, owes : BOOLEAN, left : Nat]]

\* The handler and the PoolReader call the pool as it must be called: a connection is
\* given back at most once, by the goroutine that acquired it, under the same address.
\* It takes the flag returned, the exclusion of the two branches of readWithLimit and the
\* early returns of handle to make it so.
UsesPoolRightly == Spec

\* A goroutine writes to and reads from a connection only while it has it from the pool:
\* nothing is read after PoolReader has given the connection back.
TalksOnLease ==
    \A p \in Procs :
        \/ h[p].stage \in {"headers", "body", "await"}
        \/ h[p].stage = "stream" /\ h[p].remain # 0
        => pc[p] = "held" /\ conn[p] = h[p].connection /\ addr[p] = h[p].upstreamAddress

\* A live connection in the pool is between two exchanges: no response is due on it and
\* none has bytes left, so that the next request does not read the last one's response.
IdleClean ==
    \A a \in Addrs : \A c \in Idle(a) :
        wire[c].alive => ~wire[c].owes /\ wire[c].left = 0

\* Every open socket is in the pool or in the hands of a goroutine that will give it back.
NoOrphan ==
    \A a \in Addrs : \A c \in open[a] :
        c \in Idle(a) \/ \E p \in Procs : pc[p] \in Owning /\ conn[p] = c

\* Every request ends.
RequestEnds == \A p \in Procs : h[p].stage # "idle" ~> h[p].stage = "idle"
=============================================================================
