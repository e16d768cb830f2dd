---------------------------- MODULE ProxyProofs -----------------------------
(***************************************************************************)
(* Proofs about Proxy, for any number of goroutines, hosts, connections,   *)
(* body sizes and status codes: the handler and the PoolReader keep the    *)
(* contract of the pool, so that all that ConnPoolProofs has of the pool   *)
(* holds of the proxy as well.                                             *)
(***************************************************************************)
EXTENDS Proxy, ConnPoolLeaseProofs

\* The goroutine has the connection that its handler, or its PoolReader, works on.
Has(p, L) == pc[p] \in L /\ conn[p] = h[p].connection /\ addr[p] = h[p].upstreamAddress

\* Where a goroutine may be in the pool at each stage of its request, and whether the
\* PoolReader has given the connection back.
LinkedAt(p) ==
    /\ h[p].stage = "idle" => pc[p] = "out"
    /\ h[p].stage = "acquire" =>
          /\ pc[p] \in {"out", "check", "undo", "limit", "reserve", "dial"}
          /\ h[p].upstreamAddress \in Addrs
          /\ pc[p] # "out" => addr[p] = h[p].upstreamAddress
    /\ h[p].stage \in {"headers", "body", "await", "skip"} => Has(p, {"held"})
    /\ h[p].stage = "stream" => IF h[p].returned THEN h[p].remain = 0 /\ pc[p] = "out"
                                                 ELSE Has(p, {"held"})
    /\ h[p].stage \in {"release", "fail"} => h[p].returned /\ Has(p, {"held", "evict"})
    /\ h[p].stage = "release" => h[p].remain = 0
    /\ h[p].stage = "drop" => Has(p, {"held", "close"})

Linked == \A p \in Procs : LinkedAt(p)

\* What a goroutine may do in a step.
Act(p) == Serve(p) \/ ClientGone(p) \/ \E a \in Addrs : Resolve(p, a)

-----------------------------------------------------------------------------
(* The contract of the pool. *)

\* A step of the proxy's goroutine is a step of the pool that the pool's callers may take,
\* or none of the pool's; it forgets a connection only at the end of a request.
LEMMA PoolUse ==
    ASSUME Linked, NEW p \in Procs, Act(p)
    PROVE  \/ PoolStep(p) \/ Acquire(p) \/ GiveBack(p) \/ UNCHANGED poolVars
           \/ Forget(p) /\ (ReadLimitEOF(p) \/ SkipBody(p) \/ ClientGone(p))
<1>0. LinkedAt(p) BY DEF Linked
<1>1. CASE AcquireStep(p)
  <2>1. h[p].upstreamAddress \in Addrs BY <1>0, <1>1 DEF LinkedAt, AcquireStep
  <2> QED BY <1>1, <2>1 DEF AcquireStep, PoolStep, Acquire
<1>2. CASE AcquireFailed(p) BY <1>2 DEF AcquireFailed, PoolStep
<1>3. CASE AcquireIdle(p) BY <1>3 DEF AcquireIdle, PoolStep
<1>4. CASE \E c \in Conns : AcquireNew(p, c) BY <1>4 DEF AcquireNew, PoolStep
<1>5. CASE \/ WriteRequestHeaders(p) \/ WriteRequestBody(p) \/ ExchangeFailed(p)
           \/ ReadResponseHeaders(p) \/ ReadLimit(p) \/ ReadLimitError(p) \/ ReadSome(p) \/ ReadEOF(p)
           \/ \E a \in Addrs : Resolve(p, a)
  BY <1>5 DEF WriteRequestHeaders, WriteRequestBody, ExchangeFailed, FailTo, ReadResponseHeaders,
              ReadLimit, ReadBut, ReadLimitError, ReadFails, ReadSome, ReadAny, ReadEOF, Resolve
<1>6. CASE ReadLimitEOF(p) \/ SkipBody(p) \/ ClientGone(p)
  <2>1. Finish(p) BY <1>6 DEF ReadLimitEOF, SkipBody, ClientGone
  <2> QED BY <1>6, <2>1 DEF Finish
<1>7. CASE ReleaseConn(p)
  <2>1. Has(p, {"held", "evict"}) BY <1>0, <1>7 DEF LinkedAt, ReleaseConn
  <2>2. CASE EvictClose(p) BY <2>2 DEF PoolStep
  <2>3. CASE ReleasePut(p, h[p].upstreamAddress, h[p].connection)
    BY <2>1, <2>3 DEF Has, ReleasePut, PutIdle, GiveBack
  <2>4. CASE ReleaseEvict(p, h[p].upstreamAddress, h[p].connection)
    BY <2>1, <2>4 DEF Has, ReleaseEvict, Uncount, GiveBack
  <2> QED BY <1>7, <2>2, <2>3, <2>4 DEF ReleaseConn
<1>8. CASE DropConn(p)
  <2>1. Has(p, {"held", "close"}) BY <1>0, <1>8 DEF LinkedAt, DropConn
  <2>2. CASE DropClose(p) BY <2>2 DEF PoolStep
  <2>3. CASE Drop(p, h[p].upstreamAddress, h[p].connection)
    BY <2>1, <2>3 DEF Has, Drop, Uncount, GiveBack
  <2> QED BY <1>8, <2>2, <2>3 DEF DropConn
<1> QED BY <1>1, <1>2, <1>3, <1>4, <1>5, <1>6, <1>7, <1>8 DEF Act, Serve

-----------------------------------------------------------------------------
(* Types. *)

\* A goroutine that has a connection has one of Conns.
LEMMA HasTypes ==
    ASSUME Ownership, NEW p \in Procs, Has(p, Owning)
    PROVE  h[p].connection \in Conns /\ h[p].upstreamAddress \in Addrs
           /\ h[p].connection \in open[h[p].upstreamAddress]
BY DEF Has, Ownership, OwnedOnce, TypeOK

\* The statuses that a client can see.
Codes == 0..499 \union {502}

Request == [stage : Stages, upstreamAddress : Addrs \union {NoConn},
            connection : Conns \union {NoConn}, remain : Nat \union {-1},
            returned : BOOLEAN, status : Codes]

Requests == [Procs -> Request]

\* A request of a goroutine replaced by another.
LEMMA SetRequest ==
    ASSUME NEW f \in Requests, NEW p \in Procs, NEW x \in Request PROVE [f EXCEPT ![p] = x] \in Requests
BY DEF Requests, Request

\* Each field of a request assigned a value of its type: the stage, ...
LEMMA SetStage ==
    ASSUME NEW f \in Requests, NEW p \in Procs, NEW x \in Stages PROVE [f EXCEPT ![p].stage = x] \in Requests
BY DEF Requests, Request

\* ... the address, ...
LEMMA SetAddress ==
    ASSUME NEW f \in Requests, NEW p \in Procs, NEW x \in Addrs \union {NoConn} PROVE [f EXCEPT ![p].upstreamAddress = x] \in Requests
BY DEF Requests, Request

\* ... the connection, ...
LEMMA SetConnection ==
    ASSUME NEW f \in Requests, NEW p \in Procs, NEW x \in Conns \union {NoConn} PROVE [f EXCEPT ![p].connection = x] \in Requests
BY DEF Requests, Request

\* ... what remains of the body, ...
LEMMA SetRemain ==
    ASSUME NEW f \in Requests, NEW p \in Procs, NEW x \in Nat \union {-1} PROVE [f EXCEPT ![p].remain = x] \in Requests
BY DEF Requests, Request

\* ... the flag of the PoolReader, ...
LEMMA SetReturned ==
    ASSUME NEW f \in Requests, NEW p \in Procs, NEW x \in BOOLEAN PROVE [f EXCEPT ![p].returned = x] \in Requests
BY DEF Requests, Request

\* ... the status.
LEMMA SetStatus ==
    ASSUME NEW f \in Requests, NEW p \in Procs, NEW x \in Codes PROVE [f EXCEPT ![p].status = x] \in Requests
BY DEF Requests, Request

\* The empty request is well typed.
LEMMA NoRequestType == NoRequest \in Request
<1>1. FALSE \in BOOLEAN OBVIOUS
<1> QED BY <1>1 DEF NoRequest, Request, Stages, Codes

\* copyResponseStatus yields a status that is not a 5xx, or 502.
LEMMA StatusType == ASSUME NEW s \in Nat PROVE ClientStatus(s) \in Codes
BY DEF ClientStatus, Codes

\* Every step of a goroutine preserves the types.
LEMMA ProxyTypeStep ==
    ASSUME Ownership, Linked, ProxyTypeOK, NEW p \in Procs, Act(p)
    PROVE  ProxyTypeOK'
<1> DEFINE Wires == [Conns -> [alive : BOOLEAN, owes : BOOLEAN, left : Nat]]
<1>0. /\ h \in Requests /\ h[p] \in Request /\ wire \in Wires
      /\ LinkedAt(p) /\ conn[p] \in Conns \union {NoConn}
  BY DEF ProxyTypeOK, Requests, Request, Codes, Linked, Ownership, TypeOK
<1> SUFFICES h' \in Requests /\ wire' \in Wires BY DEF ProxyTypeOK, Requests, Request, Codes
<1>s. /\ "idle" \in Stages /\ "acquire" \in Stages /\ "headers" \in Stages /\ "body" \in Stages
      /\ "await" \in Stages /\ "stream" \in Stages /\ "skip" \in Stages /\ "release" \in Stages
      /\ "fail" \in Stages /\ "drop" \in Stages
  BY DEF Stages
<1>1. CASE AcquireStep(p) BY <1>0, <1>1 DEF AcquireStep
<1>2. CASE AcquireFailed(p) BY <1>0, <1>2, SetRequest, NoRequestType DEF AcquireFailed
<1>3. CASE AcquireIdle(p)
  <2>1. h' = [[h EXCEPT ![p].stage = "headers"] EXCEPT ![p].connection = conn[p]] /\ wire' = wire
    BY <1>3 DEF AcquireIdle
  <2>2. [h EXCEPT ![p].stage = "headers"] \in Requests BY <1>0, <1>s, SetStage
  <2> QED BY <1>0, <2>1, <2>2, SetConnection
<1>4. CASE \E c \in Conns : AcquireNew(p, c)
  <2>1. PICK c \in Conns : AcquireNew(p, c) BY <1>4
  <2>2. NewWire \in [alive : BOOLEAN, owes : BOOLEAN, left : Nat]
    <3>1. TRUE \in BOOLEAN /\ FALSE \in BOOLEAN OBVIOUS
    <3> QED BY <3>1 DEF NewWire
  <2>3. wire' \in Wires BY <1>0, <2>1, <2>2 DEF AcquireNew
  <2>4. h' = [[h EXCEPT ![p].stage = "headers"] EXCEPT ![p].connection = c] BY <2>1 DEF AcquireNew
  <2>5. [h EXCEPT ![p].stage = "headers"] \in Requests BY <1>0, <1>s, SetStage
  <2> QED BY <2>3, <2>4, <2>5, SetConnection
<1>5. CASE WriteRequestHeaders(p)
  <2>1. h' \in Requests BY <1>0, <1>s, <1>5, SetStage DEF WriteRequestHeaders
  <2>2. wire' \in Wires BY <1>0, <1>5 DEF WriteRequestHeaders
  <2> QED BY <2>1, <2>2
<1>6. CASE WriteRequestBody(p) BY <1>0, <1>s, <1>6, SetStage DEF WriteRequestBody
<1>7. CASE ExchangeFailed(p)
  <2>1. h' = [[h EXCEPT ![p].stage = "drop"] EXCEPT ![p].status = 502] /\ wire' = wire
    BY <1>7 DEF ExchangeFailed, FailTo
  <2>2. [h EXCEPT ![p].stage = "drop"] \in Requests BY <1>0, <1>s, SetStage
  <2>3. 502 \in Codes BY DEF Codes
  <2> QED BY <1>0, <2>1, <2>2, <2>3, SetStatus
<1>8. CASE ReadResponseHeaders(p)
  <2>1. PICK n \in BodySizes, s \in Statuses, chunked \in BOOLEAN, bodiless \in Bodiless :
          /\ h' = [h EXCEPT ![p].stage = IF bodiless THEN "skip" ELSE "stream",
                            ![p].status = ClientStatus(s),
                            ![p].remain = IF chunked THEN -1 ELSE n,
                            ![p].returned = FALSE]
          /\ wire' = [wire EXCEPT ![h[p].connection].owes = FALSE,
                                  ![h[p].connection].left = IF bodiless THEN 0 ELSE n]
    BY <1>8 DEF ReadResponseHeaders
  <2>2. n \in Nat /\ ClientStatus(s) \in Codes
    BY ProxyAssumption, StatusType DEF ProxyAssumption
  <2> DEFINE st == IF bodiless THEN "skip" ELSE "stream"
             re == IF chunked THEN -1 ELSE n
             le == IF bodiless THEN 0 ELSE n
             f1 == [h EXCEPT ![p].stage = st]
             cs == ClientStatus(s)
             f2 == [f1 EXCEPT ![p].status = cs]
             f3 == [f2 EXCEPT ![p].remain = re]
             w1 == [wire EXCEPT ![h[p].connection].owes = FALSE]
  <2>3. h' = [f3 EXCEPT ![p].returned = FALSE] /\ wire' = [w1 EXCEPT ![h[p].connection].left = le]
    BY <2>1
  <2>4. st \in Stages /\ re \in Nat \union {-1} /\ le \in Nat BY <1>s, <2>2
  <2>c. cs \in Codes BY <2>2
  <2> HIDE DEF st, re, le, cs
  <2>5. f1 \in Requests BY <1>0, <2>4, SetStage
  <2> HIDE DEF f1
  <2>6. f2 \in Requests BY <2>5, <2>c, SetStatus
  <2> HIDE DEF f2
  <2>7. f3 \in Requests BY <2>4, <2>6, SetRemain
  <2>8. w1 \in Wires BY <1>0
  <2>9. wire' \in Wires BY <2>3, <2>4, <2>8
  <2> HIDE DEF f3
  <2>10. h' \in Requests BY <2>3, <2>7, SetReturned
  <2> QED BY <2>9, <2>10
<1>9. CASE ReadLimitEOF(p) \/ SkipBody(p) \/ ClientGone(p)
  <2>1. h' = [h EXCEPT ![p] = NoRequest] /\ wire' = wire
    BY <1>9 DEF ReadLimitEOF, SkipBody, ClientGone, Finish
  <2> QED BY <1>0, <2>1, SetRequest, NoRequestType
<1>10. CASE ReadLimit(p)
  <2>1. h[p].connection \in Conns /\ wire[h[p].connection].left \in Nat /\ h[p].remain \in Nat \ {0}
    BY <1>0, <1>10, HasTypes DEF LinkedAt, Has, Owning, ReadLimit, ReadBut, Request
  <2>2. PICK n \in 1..h[p].remain :
          /\ n <= wire[h[p].connection].left
          /\ h' = IF n >= h[p].remain - 0 /\ ~h[p].returned
                  THEN [h EXCEPT ![p].remain = @ - n, ![p].returned = TRUE, ![p].stage = "release"]
                  ELSE [h EXCEPT ![p].remain = @ - n]
          /\ wire' = [wire EXCEPT ![h[p].connection].left = @ - n]
    BY <1>10 DEF ReadLimit, ReadBut
  <2> DEFINE f1 == [h EXCEPT ![p].remain = h[p].remain - n]
             f2 == [f1 EXCEPT ![p].returned = TRUE]
  <2>3. h' = f1 \/ h' = [f2 EXCEPT ![p].stage = "release"] BY <1>0, <2>2 DEF Requests
  <2>4. h[p].remain - n \in Nat BY <2>1
  <2>5. f1 \in Requests BY <1>0, <2>4, SetRemain
  <2> HIDE DEF f1
  <2>6. f2 \in Requests BY <2>5, SetReturned
  <2> HIDE DEF f2
  <2>7. wire' \in Wires BY <1>0, <2>1, <2>2
  <2>8. h' \in Requests BY <1>s, <2>3, <2>5, <2>6, SetStage
  <2> QED BY <2>7, <2>8
<1>11. CASE ReadLimitError(p) \/ ReadEOF(p)
  <2>1. PICK to \in {"fail", "drop"} :
          h' = [[h EXCEPT ![p].returned = TRUE] EXCEPT ![p].stage = to] /\ wire' = wire
    BY <1>11 DEF ReadLimitError, ReadEOF, ReadFails
  <2>2. [h EXCEPT ![p].returned = TRUE] \in Requests BY <1>0, SetReturned
  <2> QED BY <1>0, <1>s, <2>1, <2>2, SetStage
<1>12. CASE ReadSome(p)
  <2>1. h[p].connection \in Conns /\ wire[h[p].connection].left \in Nat /\ h[p].remain = -1
    BY <1>0, <1>12, HasTypes DEF LinkedAt, Has, Owning, ReadSome, ReadAny, Request
  <2>2. PICK n \in 1..wire[h[p].connection].left :
          /\ wire' = [wire EXCEPT ![h[p].connection].left = @ - n]
          /\ h' = [h EXCEPT ![p].remain = @ - 0 * n]
    BY <1>12 DEF ReadSome, ReadAny
  <2>5. h[p].remain - 0 * n = -1 BY <2>1
  <2>3. h' = [h EXCEPT ![p].remain = -1] BY <1>0, <2>2, <2>5 DEF Requests
  <2>4. wire' \in Wires BY <1>0, <2>1, <2>2
  <2> QED BY <1>0, <2>3, <2>4, SetRemain
<1>13. CASE ReleaseConn(p)
  <2>1. ASSUME AfterRelease(p) PROVE h' \in Requests
    <3>1. CASE h[p].stage = "release"
      <4>1. h' = [h EXCEPT ![p].stage = "stream"]
        BY <1>0, <2>1, <3>1 DEF AfterRelease, Requests
      <4> QED BY <1>0, <1>s, <4>1, SetStage
    <3>2. CASE h[p].stage # "release"
      <4>1. h' = [h EXCEPT ![p] = NoRequest] BY <1>0, <2>1, <3>2 DEF AfterRelease, Requests
      <4> QED BY <1>0, <4>1, SetRequest, NoRequestType
    <3> QED BY <3>1, <3>2
  <2> QED BY <1>0, <1>13, <2>1 DEF ReleaseConn
<1>14. CASE DropConn(p)
  <2>1. [h EXCEPT ![p] = NoRequest] \in Requests BY <1>0, SetRequest, NoRequestType
  <2> QED BY <1>0, <1>14, <2>1 DEF DropConn
<1>15. CASE \E a \in Addrs : Resolve(p, a)
  <2>1. PICK a \in Addrs : Resolve(p, a) BY <1>15
  <2>2. h' = [[h EXCEPT ![p].stage = "acquire"] EXCEPT ![p].upstreamAddress = a] /\ wire' = wire
    BY <2>1 DEF Resolve
  <2>3. [h EXCEPT ![p].stage = "acquire"] \in Requests BY <1>0, <1>s, SetStage
  <2> QED BY <1>0, <2>2, <2>3, SetAddress
<1> QED
  BY <1>1, <1>2, <1>3, <1>4, <1>5, <1>6, <1>7, <1>8, <1>9, <1>10, <1>11, <1>12, <1>13, <1>14, <1>15
     DEF Act, Serve

-----------------------------------------------------------------------------
(* The link between a request and the pool. *)

\* A step of p in the pool leaves what the other goroutines hold alone.
LEMMA OtherLocals ==
    ASSUME TypeOK, NEW p \in Procs, Step(p) \/ UNCHANGED poolVars
    PROVE  \A q \in Procs \ {p} : pc'[q] = pc[q] /\ conn'[q] = conn[q] /\ addr'[q] = addr[q]
<1> USE DEF settings, locals
<1>0. /\ pc \in [Procs -> Labels] /\ conn \in [Procs -> Conns \union {NoConn}]
      /\ addr \in [Procs -> Addrs]
  BY DEF TypeOK
<1>1. CASE KeepFresh(p) BY <1>0, <1>1 DEF KeepFresh
<1>2. CASE DropStale(p) BY <1>0, <1>2 DEF DropStale
<1>3. CASE UndoCount(p) \/ Reserve(p) \/ DialFail(p)
  BY <1>0, <1>3 DEF UndoCount, Reserve, DialFail, AddCount
<1>4. CASE LimitReject(p) \/ LimitPass(p) BY <1>0, <1>4 DEF LimitReject, LimitPass, Goto
<1>5. CASE \E c \in Conns : DialOk(p, c) BY <1>0, <1>5 DEF DialOk
<1>6. CASE EvictClose(p) \/ DropClose(p) \/ Forget(p)
  BY <1>0, <1>6 DEF EvictClose, DropClose, CloseSocket, Forget, LetGo
<1>7. CASE \E a \in Addrs : AcquirePop(p, a) BY <1>0, <1>7 DEF AcquirePop, TakeTop
<1>8. CASE \E a \in Addrs : AcquireEmpty(p, a) BY <1>0, <1>8 DEF AcquireEmpty
<1>9. CASE GiveBack(p) BY <1>0, <1>9 DEF GiveBack, ReleasePut, PutIdle, ReleaseEvict, Drop, Uncount
<1>10. CASE UNCHANGED poolVars BY <1>10 DEF poolVars
<1> QED BY <1>1, <1>2, <1>3, <1>4, <1>5, <1>6, <1>7, <1>8, <1>9, <1>10 DEF Step, PoolStep, Acquire

\* A step of p leaves the other goroutines' requests alone.
LEMMA OtherRequests ==
    ASSUME ProxyTypeOK, NEW p \in Procs, Act(p) PROVE \A q \in Procs \ {p} : h'[q] = h[q]
<1>0. h \in [Procs -> Request] BY DEF ProxyTypeOK, Request, Codes
<1>1. CASE AcquireStep(p) \/ AcquireFailed(p) \/ AcquireIdle(p) \/ \E c \in Conns : AcquireNew(p, c)
  BY <1>0, <1>1 DEF AcquireStep, AcquireFailed, AcquireIdle, AcquireNew
<1>2. CASE WriteRequestHeaders(p) \/ WriteRequestBody(p) \/ ExchangeFailed(p)
  BY <1>0, <1>2 DEF WriteRequestHeaders, WriteRequestBody, ExchangeFailed, FailTo
<1>3. CASE ReadResponseHeaders(p) BY <1>0, <1>3 DEF ReadResponseHeaders
<1>4. CASE ReadLimit(p) BY <1>0, <1>4 DEF ReadLimit, ReadBut
<1>5. CASE ReadLimitError(p) \/ ReadEOF(p) BY <1>0, <1>5 DEF ReadLimitError, ReadEOF, ReadFails
<1>6. CASE ReadSome(p) BY <1>0, <1>6 DEF ReadSome, ReadAny
<1>7. CASE ReadLimitEOF(p) \/ SkipBody(p) \/ ClientGone(p)
  BY <1>0, <1>7 DEF ReadLimitEOF, SkipBody, ClientGone, Finish
<1>8. CASE ReleaseConn(p) \/ DropConn(p) BY <1>0, <1>8 DEF ReleaseConn, DropConn, AfterRelease
<1>9. CASE \E a \in Addrs : Resolve(p, a) BY <1>0, <1>9 DEF Resolve
<1> QED BY <1>1, <1>2, <1>3, <1>4, <1>5, <1>6, <1>7, <1>8, <1>9 DEF Act, Serve

\* Every step of a goroutine keeps its request and its place in the pool together.
LEMMA LinkedStep ==
    ASSUME TypeOK, ProxyTypeOK, Linked, NEW p \in Procs, Act(p) PROVE Linked'
<1>0. /\ h \in [Procs -> Request] /\ h[p] \in Request /\ LinkedAt(p)
      /\ pc \in [Procs -> Labels] /\ conn \in [Procs -> Conns \union {NoConn}]
      /\ addr \in [Procs -> Addrs]
  BY DEF ProxyTypeOK, Request, Codes, Linked, TypeOK
<1>s. Step(p) \/ UNCHANGED poolVars BY PoolUse DEF Step
<1>o. \A q \in Procs \ {p} :
          h'[q] = h[q] /\ pc'[q] = pc[q] /\ conn'[q] = conn[q] /\ addr'[q] = addr[q]
  BY <1>s, OtherLocals, OtherRequests
<1> SUFFICES LinkedAt(p)' BY <1>o DEF Linked, LinkedAt, Has
<1> USE DEF settings, locals
<1>1. CASE AcquireStep(p)
  <2>1. h' = h /\ h[p].stage = "acquire" BY <1>1 DEF AcquireStep
  <2>2. /\ pc'[p] \in {"out", "check", "undo", "limit", "reserve", "dial"}
        /\ pc'[p] # "out" => addr'[p] = h[p].upstreamAddress
    <3>1. CASE AcquirePop(p, h[p].upstreamAddress) BY <1>0, <3>1 DEF AcquirePop, TakeTop
    <3>2. CASE AcquireEmpty(p, h[p].upstreamAddress) BY <1>0, <3>2 DEF AcquireEmpty
    <3>3. CASE DropStale(p) BY <1>0, <2>1, <3>3 DEF DropStale, LinkedAt
    <3>4. CASE UndoCount(p) \/ Reserve(p) BY <1>0, <2>1, <3>4 DEF UndoCount, Reserve, AddCount, LinkedAt
    <3>5. CASE LimitPass(p) BY <1>0, <2>1, <3>5 DEF LimitPass, Goto, LinkedAt
    <3> QED BY <1>1, <3>1, <3>2, <3>3, <3>4, <3>5 DEF AcquireStep
  <2> QED BY <1>0, <2>1, <2>2 DEF LinkedAt
<1>2. CASE AcquireFailed(p)
  <2>1. h'[p].stage = "idle" BY <1>0, <1>2 DEF AcquireFailed, NoRequest
  <2>2. pc'[p] = "out" BY <1>0, <1>2 DEF AcquireFailed, LimitReject, Goto, DialFail, AddCount
  <2> QED BY <2>1, <2>2 DEF LinkedAt
<1>3. CASE AcquireIdle(p)
  <2>1. /\ h'[p].stage = "headers" /\ h'[p].connection = conn[p]
        /\ h'[p].upstreamAddress = h[p].upstreamAddress
    BY <1>0, <1>3 DEF AcquireIdle, Request
  <2>2. pc'[p] = "held" /\ conn' = conn /\ addr' = addr /\ addr[p] = h[p].upstreamAddress
    BY <1>0, <1>3 DEF AcquireIdle, KeepFresh, LinkedAt
  <2> QED BY <2>1, <2>2 DEF LinkedAt, Has
<1>4. CASE \E c \in Conns : AcquireNew(p, c)
  <2>0. PICK c \in Conns : AcquireNew(p, c) BY <1>4
  <2>1. /\ h'[p].stage = "headers" /\ h'[p].connection = c
        /\ h'[p].upstreamAddress = h[p].upstreamAddress
    BY <1>0, <2>0 DEF AcquireNew, Request
  <2>2. pc'[p] = "held" /\ conn'[p] = c /\ addr' = addr /\ addr[p] = h[p].upstreamAddress
    BY <1>0, <2>0 DEF AcquireNew, DialOk, LinkedAt
  <2> QED BY <2>1, <2>2 DEF LinkedAt, Has
<1>5. CASE WriteRequestHeaders(p) \/ WriteRequestBody(p) \/ ExchangeFailed(p)
  <2>1. /\ h[p].stage \in {"headers", "body", "await"} /\ h'[p].stage \in {"body", "await", "drop"}
        /\ h'[p].connection = h[p].connection /\ h'[p].upstreamAddress = h[p].upstreamAddress
        /\ pc' = pc /\ conn' = conn /\ addr' = addr
    BY <1>0, <1>5 DEF WriteRequestHeaders, WriteRequestBody, ExchangeFailed, FailTo, poolVars, Request
  <2> QED BY <1>0, <2>1 DEF LinkedAt, Has
<1>6. CASE ReadResponseHeaders(p)
  <2>1. /\ h[p].stage = "await" /\ h'[p].stage \in {"skip", "stream"} /\ ~h'[p].returned
        /\ h'[p].connection = h[p].connection /\ h'[p].upstreamAddress = h[p].upstreamAddress
        /\ pc' = pc /\ conn' = conn /\ addr' = addr
    BY <1>0, <1>6 DEF ReadResponseHeaders, poolVars, Request
  <2> QED BY <1>0, <2>1 DEF LinkedAt, Has
<1>7. CASE ReadLimitEOF(p) \/ SkipBody(p) \/ ClientGone(p)
  <2>1. h[p].stage \in {"stream", "skip"} /\ h'[p].stage = "idle"
    BY <1>0, <1>7 DEF ReadLimitEOF, SkipBody, ClientGone, Finish, NoRequest
  <2>2. pc'[p] = "out"
    <3>1. pc[p] \in {"held", "out"} BY <1>0, <2>1 DEF LinkedAt, Has
    <3>2. CASE pc[p] = "held"
      BY <1>0, <1>7, <3>2 DEF ReadLimitEOF, SkipBody, ClientGone, Finish, Forget, LetGo
    <3>3. CASE pc[p] = "out"
      BY <1>7, <3>3 DEF ReadLimitEOF, SkipBody, ClientGone, Finish, poolVars
    <3> QED BY <3>1, <3>2, <3>3
  <2> QED BY <2>1, <2>2 DEF LinkedAt
<1>8. CASE ReadLimit(p)
  <2>0. /\ h[p].stage = "stream" /\ h[p].remain > 0 /\ h[p].remain \in Nat /\ ~h[p].returned
        /\ Has(p, {"held"}) /\ pc' = pc /\ conn' = conn /\ addr' = addr
    BY <1>0, <1>8 DEF ReadLimit, ReadBut, LinkedAt, poolVars, Request
  <2>1. PICK n \in 1..h[p].remain :
          h' = IF n >= h[p].remain - 0 /\ ~h[p].returned
               THEN [h EXCEPT ![p].remain = @ - n, ![p].returned = TRUE, ![p].stage = "release"]
               ELSE [h EXCEPT ![p].remain = @ - n]
    BY <1>8 DEF ReadLimit, ReadBut
  <2>2. CASE n >= h[p].remain
    <3>1. /\ h'[p].stage = "release" /\ h'[p].returned /\ h'[p].remain = h[p].remain - n
          /\ h'[p].connection = h[p].connection /\ h'[p].upstreamAddress = h[p].upstreamAddress
      BY <1>0, <2>0, <2>1, <2>2 DEF Request
    <3>2. h[p].remain - n = 0 BY <2>0, <2>2
    <3> QED BY <2>0, <3>1, <3>2 DEF LinkedAt, Has
  <2>3. CASE ~(n >= h[p].remain)
    <3>1. /\ h'[p].stage = "stream" /\ h'[p].returned = h[p].returned
          /\ h'[p].connection = h[p].connection /\ h'[p].upstreamAddress = h[p].upstreamAddress
      BY <1>0, <2>0, <2>1, <2>3 DEF Request
    <3> QED BY <2>0, <3>1 DEF LinkedAt, Has
  <2> QED BY <2>2, <2>3
<1>9. CASE ReadLimitError(p) \/ ReadEOF(p)
  <2>0. /\ h[p].stage = "stream" /\ h[p].remain # 0 /\ pc' = pc /\ conn' = conn /\ addr' = addr
    BY <1>0, <1>9 DEF ReadLimitError, ReadEOF, ReadFails, poolVars, Request
  <2>1. /\ h'[p].stage \in {"fail", "drop"} /\ h'[p].returned
        /\ h'[p].connection = h[p].connection /\ h'[p].upstreamAddress = h[p].upstreamAddress
    BY <1>0, <1>9 DEF ReadLimitError, ReadEOF, ReadFails, Request
  <2> QED BY <1>0, <2>0, <2>1 DEF LinkedAt, Has
<1>10. CASE ReadSome(p)
  <2>0. /\ h[p].stage = "stream" /\ h[p].remain # 0 /\ pc' = pc /\ conn' = conn /\ addr' = addr
    BY <1>0, <1>10 DEF ReadSome, ReadAny, poolVars, Request
  <2>1. /\ h'[p].stage = "stream" /\ h'[p].returned = h[p].returned
        /\ h'[p].connection = h[p].connection /\ h'[p].upstreamAddress = h[p].upstreamAddress
    BY <1>0, <1>10 DEF ReadSome, ReadAny, Request
  <2> QED BY <1>0, <2>0, <2>1 DEF LinkedAt, Has
<1>11. CASE ReleaseConn(p)
  <2>0. h[p].stage \in {"release", "fail"} /\ h[p].returned /\ Has(p, {"held", "evict"})
        /\ (h[p].stage = "release" => h[p].remain = 0)
    BY <1>0, <1>11 DEF ReleaseConn, LinkedAt
  <2>1. CASE ReleaseEvict(p, h[p].upstreamAddress, h[p].connection) /\ UNCHANGED h
    <3>1. pc'[p] = "evict" /\ conn'[p] = h[p].connection /\ addr'[p] = h[p].upstreamAddress /\ h' = h
      BY <1>0, <2>1 DEF ReleaseEvict, Uncount
    <3> QED BY <2>0, <3>1 DEF LinkedAt, Has
  <2>2. CASE pc'[p] = "out" /\ AfterRelease(p)
    <3>1. CASE h[p].stage = "release"
      <4>1. h'[p].stage = "stream" /\ h'[p].returned = h[p].returned /\ h'[p].remain = h[p].remain
        BY <1>0, <2>2, <3>1 DEF AfterRelease, Request
      <4> QED BY <2>0, <2>2, <3>1, <4>1 DEF LinkedAt
    <3>2. CASE h[p].stage # "release"
      <4>1. h'[p].stage = "idle" BY <1>0, <2>2, <3>2 DEF AfterRelease, NoRequest
      <4> QED BY <2>2, <4>1 DEF LinkedAt
    <3> QED BY <3>1, <3>2
  <2>3. ReleasePut(p, h[p].upstreamAddress, h[p].connection) \/ EvictClose(p) => pc'[p] = "out"
    BY <1>0 DEF ReleasePut, PutIdle, EvictClose, CloseSocket, LetGo
  <2> QED BY <1>11, <2>1, <2>2, <2>3 DEF ReleaseConn
<1>12. CASE DropConn(p)
  <2>0. h[p].stage = "drop" BY <1>12 DEF DropConn
  <2>1. CASE Drop(p, h[p].upstreamAddress, h[p].connection) /\ UNCHANGED h
    <3>1. pc'[p] = "close" /\ conn'[p] = h[p].connection /\ addr'[p] = h[p].upstreamAddress /\ h' = h
      BY <1>0, <2>1 DEF Drop, Uncount
    <3> QED BY <2>0, <3>1 DEF LinkedAt, Has
  <2>2. CASE DropClose(p) /\ h' = [h EXCEPT ![p] = NoRequest]
    <3>1. pc'[p] = "out" /\ h'[p].stage = "idle"
      BY <1>0, <2>2 DEF DropClose, CloseSocket, LetGo, NoRequest
    <3> QED BY <3>1 DEF LinkedAt
  <2> QED BY <1>12, <2>1, <2>2 DEF DropConn
<1>13. CASE \E a \in Addrs : Resolve(p, a)
  <2>1. PICK a \in Addrs : Resolve(p, a) BY <1>13
  <2>2. h'[p].stage = "acquire" /\ h'[p].upstreamAddress = a /\ pc' = pc /\ h[p].stage = "idle"
    BY <1>0, <2>1 DEF Resolve, Request, poolVars
  <2> QED BY <1>0, <2>2 DEF LinkedAt
<1> QED
  BY <1>1, <1>2, <1>3, <1>4, <1>5, <1>6, <1>7, <1>8, <1>9, <1>10, <1>11, <1>12, <1>13 DEF Act, Serve

-----------------------------------------------------------------------------
(* The handlers keep the contract. *)

\* The pool's invariant, the types of the request path, and the link between the two.
Linkage == IInv /\ ProxyTypeOK /\ Linked

\* The proxy starts with no request and nothing acquired.
LEMMA LinkageInit == ProxyInit => Linkage
<1> SUFFICES ASSUME ProxyInit PROVE Linkage OBVIOUS
<1>1. IInv BY IInvInit DEF ProxyInit
<1>2. ProxyTypeOK
  <2>1. NewWire \in [alive : BOOLEAN, owes : BOOLEAN, left : Nat]
    <3>1. TRUE \in BOOLEAN /\ FALSE \in BOOLEAN OBVIOUS
    <3> QED BY <3>1 DEF NewWire
  <2>2. wire \in [Conns -> [alive : BOOLEAN, owes : BOOLEAN, left : Nat]]
    BY <2>1 DEF ProxyInit
  <2>3. h \in [Procs -> Request] BY NoRequestType DEF ProxyInit
  <2> QED BY <2>2, <2>3 DEF ProxyTypeOK, Request, Codes
<1>3. Linked BY DEF ProxyInit, Init, NoRequest, Linked, LinkedAt
<1> QED BY <1>1, <1>2, <1>3 DEF Linkage

\* Every step of the proxy is a step of the pool, or none of the pool's.
LEMMA PoolSteps == Linkage /\ [ProxyNext]_proxyVars => [Next]_poolVars
<1> SUFFICES ASSUME Linkage, [ProxyNext]_proxyVars PROVE [Next]_poolVars OBVIOUS
<1>1. CASE \E p \in Procs : Act(p)
  <2>1. PICK p \in Procs : Act(p) BY <1>1
  <2>2. Step(p) \/ UNCHANGED poolVars BY <2>1, PoolUse DEF Linkage, Step
  <2> QED BY <2>2 DEF Next, Step
<1>2. CASE \E c \in Conns : UpstreamClose(c) BY <1>2 DEF UpstreamClose
<1>3. CASE Tick BY <1>3 DEF Next
<1>4. CASE UNCHANGED proxyVars BY <1>4 DEF proxyVars
<1> QED BY <1>1, <1>2, <1>3, <1>4 DEF ProxyNext, Act

\* Every step of the proxy preserves the linkage.
LEMMA LinkageNext == Linkage /\ [ProxyNext]_proxyVars => Linkage'
<1> SUFFICES ASSUME Linkage, [ProxyNext]_proxyVars PROVE Linkage' OBVIOUS
<1>0. IInv /\ Ownership /\ TypeOK /\ ProxyTypeOK /\ Linked BY DEF Linkage, IInv, Ownership
<1>1. IInv' BY <1>0, PoolSteps, IInvNext
<1>2. CASE \E p \in Procs : Act(p)
  <2>1. PICK p \in Procs : Act(p) BY <1>2
  <2>2. ProxyTypeOK' BY <1>0, <2>1, ProxyTypeStep
  <2>3. Linked' BY <1>0, <2>1, LinkedStep
  <2> QED BY <1>1, <2>2, <2>3 DEF Linkage
<1>3. CASE \E c \in Conns : UpstreamClose(c)
  <2>1. PICK c \in Conns : UpstreamClose(c) BY <1>3
  <2>2. PICK n \in 0..wire[c].left :
          wire' = [wire EXCEPT ![c].alive = FALSE, ![c].left = n] /\ UNCHANGED <<poolVars, h>>
    BY <2>1 DEF UpstreamClose
  <2>3. wire[c].left \in Nat BY <1>0 DEF ProxyTypeOK
  <2> DEFINE w == [wire EXCEPT ![c].alive = FALSE]
  <2>4. w \in [Conns -> [alive : BOOLEAN, owes : BOOLEAN, left : Nat]]
    <3>1. \A x \in BOOLEAN : [wire EXCEPT ![c].alive = x]
                                \in [Conns -> [alive : BOOLEAN, owes : BOOLEAN, left : Nat]]
      BY <1>0 DEF ProxyTypeOK
    <3> QED BY <3>1
  <2>5. wire' = [w EXCEPT ![c].left = n] BY <2>2
  <2> HIDE DEF w
  <2>6. wire' \in [Conns -> [alive : BOOLEAN, owes : BOOLEAN, left : Nat]] BY <2>3, <2>4, <2>5
  <2>7. ProxyTypeOK' BY <1>0, <2>2, <2>6 DEF ProxyTypeOK
  <2>8. Linked' BY <1>0, <2>2 DEF Linked, LinkedAt, Has, poolVars
  <2> QED BY <1>1, <2>7, <2>8 DEF Linkage
<1>4. CASE (Tick /\ UNCHANGED <<h, wire>>) \/ UNCHANGED proxyVars
  <2>1. h' = h /\ wire' = wire /\ pc' = pc /\ addr' = addr /\ conn' = conn
    BY <1>4 DEF Tick, locals, proxyVars, poolVars
  <2>2. ProxyTypeOK' BY <1>0, <2>1 DEF ProxyTypeOK
  <2>3. Linked' BY <1>0, <2>1 DEF Linked, LinkedAt, Has
  <2> QED BY <1>1, <2>2, <2>3 DEF Linkage
<1> QED BY <1>2, <1>3, <1>4 DEF ProxyNext, Act

\* The link between requests and the pool is never lost.
THEOREM LinkageHolds == ProxySpec => []Linkage
BY LinkageInit, LinkageNext, PTL DEF ProxySpec

\* handle and PoolReader.Read use the pool as its contract says, so every theorem about the
\* pool holds of the proxy: no connection is given back twice, by another goroutine or
\* under another address, whatever fails on the way.
THEOREM PoolUsedRightly == ProxySpec => UsesPoolRightly
<1>1. ProxyInit => Init BY DEF ProxyInit
<1> QED BY <1>1, LinkageHolds, PoolSteps, PTL DEF ProxySpec, UsesPoolRightly, Spec

\* So the promise of the pool is kept to its real callers: in every behaviour of the proxy a
\* connection is leased to one request at a time, for the host it leads to.
THEOREM RequestsLeaseExclusively == ProxySpec => ImplementsLease
BY PoolUsedRightly, PoolImplementsLease, PTL DEF UsesPoolRightly

\* Every variable of the request path keeps its type.
THEOREM ProxyTypeCorrect == ProxySpec => []ProxyTypeOK
<1>1. Linkage => ProxyTypeOK BY DEF Linkage
<1> QED BY <1>1, LinkageHolds, PTL

\* No goroutine writes to or reads from a connection that it has given back.
THEOREM TalksOnlyOnLease == ProxySpec => []TalksOnLease
<1>1. Linkage => TalksOnLease
  <2> SUFFICES ASSUME Linkage, NEW p \in Procs,
                      \/ h[p].stage \in {"headers", "body", "await"}
                      \/ h[p].stage = "stream" /\ h[p].remain # 0
               PROVE  Has(p, {"held"})
    BY DEF TalksOnLease, Has
  <2> QED BY DEF Linkage, Linked, LinkedAt
<1> QED BY <1>1, LinkageHolds, PTL

-----------------------------------------------------------------------------
(* What is in transit on a connection. *)

Clean(c) == wire[c].alive => ~wire[c].owes /\ wire[c].left = 0

\* What a goroutine's connection may still bring at each stage: nothing when it comes from
\* the pool, nothing left of an earlier body while a request is written, exactly what the
\* PoolReader still counts while a body of known length is read, and nothing when it goes
\* back.
CleanAt(p) ==
    /\ pc[p] = "check" => Clean(conn[p])
    /\ h[p].stage \in {"headers", "release"} => Clean(h[p].connection)
    /\ h[p].stage \in {"body", "await"} /\ wire[h[p].connection].alive =>
          wire[h[p].connection].left = 0
    /\ h[p].stage = "stream" /\ ~h[p].returned /\ h[p].remain >= 0 /\ wire[h[p].connection].alive =>
          ~wire[h[p].connection].owes /\ wire[h[p].connection].left = h[p].remain
    /\ h[p].stage = "fail" => ~wire[h[p].connection].alive

Transit == IdleClean /\ \A p \in Procs : CleanAt(p)

\* A goroutine disturbs only the connection that it has, and one that nobody has.
LEMMA WireStep ==
    ASSUME TypeOK, OwnedOnce, ProxyTypeOK, Linked, NEW p \in Procs, Act(p)
    PROVE  \A c \in Conns : \/ wire'[c] = wire[c]
                            \/ pc[p] \in Owning /\ c = conn[p]
                            \/ \A a \in Addrs : c \notin open[a]
<1>0. /\ LinkedAt(p) /\ wire \in [Conns -> [alive : BOOLEAN, owes : BOOLEAN, left : Nat]]
  BY DEF Linked, ProxyTypeOK
<1> SUFFICES ASSUME NEW c \in Conns, wire'[c] # wire[c]
             PROVE  (pc[p] \in Owning /\ c = conn[p]) \/ \A a \in Addrs : c \notin open[a]
  OBVIOUS
<1>1. CASE AcquireStep(p) \/ AcquireFailed(p) \/ AcquireIdle(p)
  BY <1>1 DEF AcquireStep, AcquireFailed, AcquireIdle
<1>2. CASE \E d \in Conns : AcquireNew(p, d) BY <1>0, <1>2 DEF AcquireNew, DialOk
<1>3. CASE WriteRequestHeaders(p)
  BY <1>0, <1>3 DEF WriteRequestHeaders, LinkedAt, Has, Owning
<1>4. CASE WriteRequestBody(p) \/ ExchangeFailed(p)
  BY <1>4 DEF WriteRequestBody, ExchangeFailed, FailTo
<1>5. CASE ReadResponseHeaders(p) BY <1>0, <1>5 DEF ReadResponseHeaders, LinkedAt, Has, Owning
<1>6. CASE ReadLimit(p) BY <1>0, <1>6 DEF ReadLimit, ReadBut, LinkedAt, Has, Owning
<1>7. CASE ReadLimitError(p) \/ ReadEOF(p) BY <1>7 DEF ReadLimitError, ReadEOF, ReadFails
<1>8. CASE ReadSome(p) BY <1>0, <1>8 DEF ReadSome, ReadAny, LinkedAt, Has, Owning
<1>9. CASE ReadLimitEOF(p) \/ SkipBody(p) \/ ClientGone(p)
  BY <1>9 DEF ReadLimitEOF, SkipBody, ClientGone, Finish
<1>10. CASE ReleaseConn(p) \/ DropConn(p) BY <1>10 DEF ReleaseConn, DropConn
<1>11. CASE \E a \in Addrs : Resolve(p, a) BY <1>11 DEF Resolve
<1> QED
  BY <1>1, <1>2, <1>3, <1>4, <1>5, <1>6, <1>7, <1>8, <1>9, <1>10, <1>11 DEF Act, Serve

\* The other goroutines' connections are not disturbed, nor are those in the pool.
LEMMA WireOthers ==
    ASSUME Ownership, ProxyTypeOK, Linked, NEW p \in Procs, Act(p)
    PROVE  /\ \A q \in Procs \ {p} : pc[q] \in Owning => wire'[conn[q]] = wire[conn[q]]
           /\ \A a \in Addrs : \A c \in Idle(a) : wire'[c] = wire[c]
<1>1. TypeOK /\ OwnedOnce /\ IdleUnowned BY DEF Ownership
<1>2. \A q \in Procs \ {p} : pc[q] \in Owning => wire'[conn[q]] = wire[conn[q]]
  <2> SUFFICES ASSUME NEW q \in Procs \ {p}, pc[q] \in Owning PROVE wire'[conn[q]] = wire[conn[q]]
    OBVIOUS
  <2>1. addr[q] \in Addrs /\ conn[q] \in open[addr[q]] /\ conn[q] \in Conns
    BY <1>1 DEF TypeOK, OwnedOnce
  <2>2. pc[p] \in Owning => conn[p] # conn[q] BY <1>1 DEF OwnedOnce
  <2> QED BY <1>1, <2>1, <2>2, WireStep
<1>3. \A a \in Addrs : \A c \in Idle(a) : wire'[c] = wire[c]
  <2> SUFFICES ASSUME NEW a \in Addrs, NEW c \in Idle(a) PROVE wire'[c] = wire[c] OBVIOUS
  <2>1. c \in open[a] /\ c \in Conns /\ (pc[p] \in Owning => conn[p] # c)
    BY <1>1 DEF TypeOK, IdleUnowned
  <2> QED BY <1>1, <2>1, WireStep
<1> QED BY <1>2, <1>3

\* What the other goroutines' connections may still bring stays as it was.
LEMMA CleanOthers ==
    ASSUME Ownership, ProxyTypeOK, Linked, NEW p \in Procs, Act(p), NEW q \in Procs \ {p}, CleanAt(q)
    PROVE  CleanAt(q)'
<1>1. h'[q] = h[q] /\ pc'[q] = pc[q] /\ conn'[q] = conn[q]
  BY PoolUse, OtherLocals, OtherRequests DEF Ownership, Step
<1>2. pc[q] \in Owning => wire'[conn[q]] = wire[conn[q]] BY WireOthers
<1>3. LinkedAt(q) BY DEF Linked
<1>4. /\ h[q].stage \in {"headers", "body", "await", "release", "fail"} =>
            pc[q] \in Owning /\ conn[q] = h[q].connection
      /\ h[q].stage = "stream" /\ ~h[q].returned => pc[q] \in Owning /\ conn[q] = h[q].connection
      /\ pc[q] = "check" => pc[q] \in Owning
  BY <1>3 DEF LinkedAt, Has, Owning
<1> QED BY <1>1, <1>2, <1>4 DEF CleanAt, Clean

\* A step of p leaves on p's own connection what its next stage expects.
LEMMA CleanOwn ==
    ASSUME Ownership, ProxyTypeOK, Linked, Transit, NEW p \in Procs, Act(p)
    PROVE  CleanAt(p)'
<1> USE DEF settings, locals
<1>0. /\ h \in [Procs -> Request] /\ h[p] \in Request /\ LinkedAt(p) /\ CleanAt(p) /\ TypeOK
      /\ pc \in [Procs -> Labels] /\ conn \in [Procs -> Conns \union {NoConn}]
      /\ wire \in [Conns -> [alive : BOOLEAN, owes : BOOLEAN, left : Nat]]
  BY DEF ProxyTypeOK, Request, Codes, Linked, Transit, Ownership, TypeOK
<1>c. Has(p, Owning) => h[p].connection \in Conns BY HasTypes
<1>2. CASE AcquireStep(p)
  <2>1. h' = h /\ wire' = wire /\ h[p].stage = "acquire" BY <1>2 DEF AcquireStep
  <2>2. ASSUME pc'[p] # "check" PROVE CleanAt(p)' BY <2>1, <2>2 DEF CleanAt
  <2>3. CASE AcquirePop(p, h[p].upstreamAddress)
    <3> DEFINE a == h[p].upstreamAddress
               c == free[a][Len(free[a])].conn
    <3>1. a \in Addrs BY <1>0, <2>1 DEF LinkedAt
    <3>2. free[a] \in Seq(IdleConn) /\ free[a] # <<>>
      BY <1>0, <2>3, <3>1 DEF TypeOK, AcquirePop, TakeTop
    <3>3. Len(free[a]) \in DOMAIN free[a] BY <3>2, EmptySeq
    <3>4. c \in Idle(a) BY <3>3 DEF Idle
    <3>5. conn'[p] = c BY <1>0, <2>3 DEF AcquirePop, TakeTop
    <3> HIDE DEF c
    <3>6. Clean(c) BY <3>1, <3>4 DEF Transit, IdleClean, Clean
    <3>7. (Clean(conn[p]))' BY <2>1, <3>5, <3>6 DEF Clean
    <3> QED BY <2>1, <3>7 DEF CleanAt
  <2>4. CASE AcquireEmpty(p, h[p].upstreamAddress) BY <1>0, <2>2, <2>4 DEF AcquireEmpty
  <2>5. CASE DropStale(p) BY <1>0, <2>2, <2>5 DEF DropStale
  <2>6. CASE UndoCount(p) \/ Reserve(p) BY <1>0, <2>2, <2>6 DEF UndoCount, Reserve, AddCount
  <2>7. CASE LimitPass(p) BY <1>0, <2>2, <2>7 DEF LimitPass, Goto
  <2> QED BY <1>2, <2>3, <2>4, <2>5, <2>6, <2>7 DEF AcquireStep
<1>3. CASE AcquireFailed(p)
  <2>1. h'[p].stage = "idle" BY <1>0, <1>3 DEF AcquireFailed, NoRequest
  <2>2. pc'[p] = "out" BY <1>0, <1>3 DEF AcquireFailed, LimitReject, Goto, DialFail, AddCount
  <2> QED BY <2>1, <2>2 DEF CleanAt
<1>4. CASE AcquireIdle(p)
  <2>1. h'[p].stage = "headers" /\ h'[p].connection = conn[p] /\ wire' = wire
    BY <1>0, <1>4 DEF AcquireIdle, Request
  <2>2. pc[p] = "check" /\ pc'[p] = "held" BY <1>0, <1>4 DEF AcquireIdle, KeepFresh
  <2>3. Clean(conn[p]) BY <1>0, <2>2 DEF CleanAt
  <2> QED BY <2>1, <2>2, <2>3 DEF CleanAt, Clean
<1>5. CASE \E c \in Conns : AcquireNew(p, c)
  <2>0. PICK c \in Conns : AcquireNew(p, c) BY <1>5
  <2>1. h'[p].stage = "headers" /\ h'[p].connection = c /\ wire'[c] = NewWire
    BY <1>0, <2>0 DEF AcquireNew, Request
  <2>2. pc'[p] = "held" BY <1>0, <2>0 DEF AcquireNew, DialOk
  <2>3. ~NewWire.owes /\ NewWire.left = 0 BY DEF NewWire
  <2> QED BY <2>1, <2>2, <2>3 DEF CleanAt, Clean
<1>6. CASE WriteRequestHeaders(p)
  <2>1. /\ h[p].stage = "headers" /\ h'[p].stage = "body" /\ h'[p].connection = h[p].connection
        /\ pc' = pc /\ wire' = [wire EXCEPT ![h[p].connection].owes = TRUE]
    BY <1>0, <1>6 DEF WriteRequestHeaders, poolVars, Request
  <2>2. Has(p, {"held"}) /\ h[p].connection \in Conns
    BY <1>0, <1>c, <2>1 DEF LinkedAt, Has, Owning
  <2>3. /\ wire'[h[p].connection].alive = wire[h[p].connection].alive
        /\ wire'[h[p].connection].left = wire[h[p].connection].left
    BY <1>0, <2>1, <2>2
  <2>4. Clean(h[p].connection) BY <1>0, <2>1 DEF CleanAt
  <2> QED BY <2>1, <2>2, <2>3, <2>4 DEF CleanAt, Clean, Has
<1>7. CASE WriteRequestBody(p)
  <2>1. /\ h[p].stage = "body" /\ h'[p].stage = "await" /\ h'[p].connection = h[p].connection
        /\ pc' = pc /\ wire' = wire
    BY <1>0, <1>7 DEF WriteRequestBody, poolVars, Request
  <2> QED BY <1>0, <2>1 DEF CleanAt, LinkedAt, Has
<1>8. CASE ExchangeFailed(p)
  <2>1. h[p].stage \in {"headers", "body", "await"} /\ h'[p].stage = "drop" /\ pc' = pc
    BY <1>0, <1>8 DEF ExchangeFailed, FailTo, poolVars, Request
  <2> QED BY <1>0, <2>1 DEF CleanAt, LinkedAt, Has
<1>9. CASE ReadResponseHeaders(p)
  <2>1. PICK n \in BodySizes, s \in Statuses, chunked \in BOOLEAN, bodiless \in Bodiless :
          /\ h' = [h EXCEPT ![p].stage = IF bodiless THEN "skip" ELSE "stream",
                            ![p].status = ClientStatus(s),
                            ![p].remain = IF chunked THEN -1 ELSE n,
                            ![p].returned = FALSE]
          /\ wire' = [wire EXCEPT ![h[p].connection].owes = FALSE,
                                  ![h[p].connection].left = IF bodiless THEN 0 ELSE n]
    BY <1>9 DEF ReadResponseHeaders
  <2>2. h[p].stage = "await" /\ pc' = pc BY <1>9 DEF ReadResponseHeaders, poolVars
  <2>3. Has(p, {"held"}) /\ h[p].connection \in Conns
    BY <1>0, <1>c, <2>2 DEF LinkedAt, Has, Owning
  <2>4. /\ h'[p].stage = IF bodiless THEN "skip" ELSE "stream"
        /\ h'[p].connection = h[p].connection
        /\ h'[p].remain = IF chunked THEN -1 ELSE n
    BY <1>0, <2>1 DEF Request
  <2>5. /\ ~wire'[h[p].connection].owes
        /\ wire'[h[p].connection].left = IF bodiless THEN 0 ELSE n
    BY <1>0, <2>1, <2>3
  <2>6. CASE bodiless BY <2>2, <2>3, <2>4, <2>6 DEF CleanAt, Has
  <2>7. CASE ~bodiless
    <3>1. h'[p].stage = "stream" /\ wire'[h[p].connection].left = n BY <2>4, <2>5, <2>7
    <3>2. h'[p].remain >= 0 => h'[p].remain = n BY <2>4
    <3> QED BY <2>2, <2>3, <2>4, <2>5, <3>1, <3>2 DEF CleanAt, Has
  <2> QED BY <2>6, <2>7
<1>10. CASE ReadLimitEOF(p) \/ SkipBody(p) \/ ClientGone(p)
  <2>1. h[p].stage \in {"stream", "skip"} /\ h'[p].stage = "idle"
    BY <1>0, <1>10 DEF ReadLimitEOF, SkipBody, ClientGone, Finish, NoRequest
  <2>2. pc[p] \in {"held", "out"} BY <1>0, <2>1 DEF LinkedAt, Has
  <2>3. pc'[p] = pc[p] \/ pc'[p] = "out"
    BY <1>0, <1>10 DEF ReadLimitEOF, SkipBody, ClientGone, Finish, Forget, LetGo, poolVars
  <2> QED BY <2>1, <2>2, <2>3 DEF CleanAt
<1>11. CASE ReadLimit(p)
  <2>0. /\ h[p].stage = "stream" /\ h[p].remain > 0 /\ h[p].remain \in Nat /\ ~h[p].returned
        /\ Has(p, {"held"}) /\ pc' = pc
    BY <1>0, <1>11 DEF ReadLimit, ReadBut, LinkedAt, poolVars, Request
  <2>1. PICK n \in 1..h[p].remain :
          /\ h' = IF n >= h[p].remain - 0 /\ ~h[p].returned
                  THEN [h EXCEPT ![p].remain = @ - n, ![p].returned = TRUE, ![p].stage = "release"]
                  ELSE [h EXCEPT ![p].remain = @ - n]
          /\ wire' = [wire EXCEPT ![h[p].connection].left = @ - n]
    BY <1>11 DEF ReadLimit, ReadBut
  <2>2. h[p].connection \in Conns BY <1>c, <2>0 DEF Has, Owning
  <2>3. /\ wire'[h[p].connection].alive = wire[h[p].connection].alive
        /\ wire'[h[p].connection].owes = wire[h[p].connection].owes
        /\ wire'[h[p].connection].left = wire[h[p].connection].left - n
    BY <1>0, <2>1, <2>2
  <2>4. wire[h[p].connection].alive =>
          ~wire[h[p].connection].owes /\ wire[h[p].connection].left = h[p].remain
    BY <1>0, <2>0 DEF CleanAt
  <2>5. CASE n >= h[p].remain
    <3>1. h'[p].stage = "release" /\ h'[p].connection = h[p].connection
      BY <1>0, <2>0, <2>1, <2>5 DEF Request
    <3>2. wire'[h[p].connection].alive => wire'[h[p].connection].left = 0 BY <2>0, <2>3, <2>4, <2>5
    <3> QED BY <2>0, <2>3, <2>4, <3>1, <3>2 DEF CleanAt, Clean, Has
  <2>6. CASE ~(n >= h[p].remain)
    <3>1. /\ h'[p].stage = "stream" /\ h'[p].connection = h[p].connection
          /\ h'[p].remain = h[p].remain - n
      BY <1>0, <2>0, <2>1, <2>6 DEF Request
    <3> QED BY <2>0, <2>3, <2>4, <3>1 DEF CleanAt, Has
  <2> QED BY <2>5, <2>6
<1>12. CASE ReadLimitError(p) \/ ReadEOF(p)
  <2>1. /\ h[p].stage = "stream" /\ pc' = pc /\ wire' = wire /\ ~wire[h[p].connection].alive
        /\ h'[p].stage \in {"fail", "drop"} /\ h'[p].connection = h[p].connection
    BY <1>0, <1>12 DEF ReadLimitError, ReadEOF, ReadFails, poolVars, Request
  <2> QED BY <1>0, <2>1 DEF CleanAt, LinkedAt, Has
<1>13. CASE ReadSome(p)
  <2>1. PICK n \in 1..wire[h[p].connection].left : h' = [h EXCEPT ![p].remain = @ - 0 * n]
    BY <1>13 DEF ReadSome, ReadAny
  <2>2. h[p].stage = "stream" /\ h[p].remain = -1 /\ pc' = pc
    BY <1>0, <1>13 DEF ReadSome, ReadAny, poolVars, Request
  <2>3. h'[p].stage = "stream" /\ h'[p].remain = h[p].remain - 0 * n
    BY <1>0, <2>1, <2>2 DEF Request
  <2>4. n \in Int BY <2>1
  <2>5. h'[p].remain = -1 BY <2>2, <2>3, <2>4
  <2> QED BY <1>0, <2>2, <2>3, <2>5 DEF CleanAt, LinkedAt, Has
<1>14. CASE ReleaseConn(p)
  <2>0. /\ h[p].stage \in {"release", "fail"} /\ wire' = wire /\ h[p].returned
    BY <1>0, <1>14 DEF ReleaseConn, LinkedAt
  <2>1. CASE ReleaseEvict(p, h[p].upstreamAddress, h[p].connection) /\ UNCHANGED h
    <3>1. pc'[p] = "evict" /\ h' = h BY <1>0, <2>1 DEF ReleaseEvict, Uncount
    <3> QED BY <1>0, <2>0, <3>1 DEF CleanAt, Clean
  <2>2. CASE pc'[p] = "out" /\ AfterRelease(p)
    <3>1. \/ h'[p].stage = "stream" /\ h'[p].returned
          \/ h'[p].stage = "idle"
      BY <1>0, <2>0, <2>2 DEF AfterRelease, NoRequest, Request
    <3> QED BY <2>2, <3>1 DEF CleanAt
  <2>3. ReleasePut(p, h[p].upstreamAddress, h[p].connection) \/ EvictClose(p) => pc'[p] = "out"
    BY <1>0 DEF ReleasePut, PutIdle, EvictClose, CloseSocket, LetGo
  <2> QED BY <1>14, <2>1, <2>2, <2>3 DEF ReleaseConn
<1>15. CASE DropConn(p)
  <2>0. h[p].stage = "drop" BY <1>15 DEF DropConn
  <2>1. CASE Drop(p, h[p].upstreamAddress, h[p].connection) /\ UNCHANGED h
    <3>1. pc'[p] = "close" /\ h' = h BY <1>0, <2>1 DEF Drop, Uncount
    <3> QED BY <2>0, <3>1 DEF CleanAt
  <2>2. CASE DropClose(p) /\ h' = [h EXCEPT ![p] = NoRequest]
    <3>1. pc'[p] = "out" /\ h'[p].stage = "idle"
      BY <1>0, <2>2 DEF DropClose, CloseSocket, LetGo, NoRequest
    <3> QED BY <3>1 DEF CleanAt
  <2> QED BY <1>15, <2>1, <2>2 DEF DropConn
<1>16. CASE \E a \in Addrs : Resolve(p, a)
  <2>1. h'[p].stage = "acquire" /\ pc' = pc /\ h[p].stage = "idle"
    BY <1>0, <1>16 DEF Resolve, Request, poolVars
  <2> QED BY <1>0, <2>1 DEF CleanAt, LinkedAt
<1> QED
  BY <1>2, <1>3, <1>4, <1>5, <1>6, <1>7, <1>8, <1>9, <1>10, <1>11, <1>12, <1>13, <1>14, <1>15, <1>16
     DEF Act, Serve

\* A step of a goroutine puts no connection into the pool that could still bring something.
LEMMA IdleCleanStep ==
    ASSUME Ownership, ProxyTypeOK, Linked, Transit, NEW p \in Procs, Act(p)
    PROVE  IdleClean'
<1>0. /\ h[p] \in Request /\ LinkedAt(p) /\ CleanAt(p) /\ TypeOK /\ IdleUnowned
  BY DEF ProxyTypeOK, Request, Codes, Linked, Transit, Ownership
<1>1. \A a \in Addrs : \A c \in Idle(a) : wire'[c] = wire[c] /\ Clean(c)
  BY WireOthers DEF Transit, IdleClean, Clean
<1> SUFFICES \A a \in Addrs : \A c \in Idle(a)' : wire'[c] = wire[c] /\ Clean(c)
  BY DEF IdleClean, Clean
<1>2. CASE free' = free
  <2>1. \A a \in Addrs : Idle(a)' = Idle(a) BY <1>2, IdleSame
  <2> QED BY <1>1, <2>1
<1>3. CASE \E a \in Addrs : AcquirePop(p, a)
  <2>1. PICK a \in Addrs : AcquirePop(p, a) BY <1>3
  <2>2. free[a] # <<>> /\ free' = [free EXCEPT ![a] = SubSeq(free[a], 1, Len(free[a]) - 1)]
    BY <2>1 DEF AcquirePop, TakeTop
  <2>3. NoTwice(a) BY <1>0 DEF IdleUnowned
  <2>4. \A b \in Addrs : Idle(b)' \subseteq Idle(b) BY <1>0, <2>2, <2>3, IdlePop
  <2> QED BY <1>1, <2>4
<1>4. CASE ReleaseConn(p) /\ ReleasePut(p, h[p].upstreamAddress, h[p].connection)
  <2>0. PICK a, c : a = h[p].upstreamAddress /\ c = h[p].connection OBVIOUS
  <2>1. h[p].stage \in {"release", "fail"} /\ wire' = wire BY <1>4 DEF ReleaseConn
  <2>2. Has(p, {"held"}) BY <1>0, <1>4, <2>1 DEF LinkedAt, Has, ReleasePut, PutIdle
  <2>3. a \in Addrs /\ c \in Conns BY <2>0, <2>2, HasTypes DEF Has, Owning
  <2>4. NoTwice(a) /\ c \notin Idle(a) BY <1>0, <2>0, <2>2, <2>3 DEF IdleUnowned, Has, Owning
  <2>5. free' = [free EXCEPT ![a] = Append(@, [conn |-> c, returnedAt |-> now])]
    BY <1>4, <2>0 DEF ReleasePut, PutIdle
  <2>6. \A b \in Addrs : Idle(b)' \subseteq Idle(b) \union {c} BY <1>0, <2>3, <2>4, <2>5, IdlePush
  <2>7. Clean(c) BY <1>0, <2>0, <2>1 DEF CleanAt, Clean
  <2> QED BY <1>1, <2>1, <2>6, <2>7
<1>5. \/ free' = free
      \/ \E a \in Addrs : AcquirePop(p, a)
      \/ ReleaseConn(p) /\ ReleasePut(p, h[p].upstreamAddress, h[p].connection)
  <2> USE DEF settings
  <2>1. CASE AcquireStep(p)
    <3>1. h[p].upstreamAddress \in Addrs BY <1>0, <2>1 DEF LinkedAt, AcquireStep
    <3>2. AcquireEmpty(p, h[p].upstreamAddress) => free' = free BY DEF AcquireEmpty
    <3>3. DropStale(p) => free' = free BY DEF DropStale
    <3>4. UndoCount(p) \/ Reserve(p) => free' = free BY DEF UndoCount, Reserve, AddCount
    <3>5. LimitPass(p) => free' = free BY DEF LimitPass, Goto
    <3>6. \/ AcquirePop(p, h[p].upstreamAddress) \/ AcquireEmpty(p, h[p].upstreamAddress)
          \/ DropStale(p) \/ UndoCount(p) \/ LimitPass(p) \/ Reserve(p)
      BY <2>1 DEF AcquireStep
    <3>7. AcquirePop(p, h[p].upstreamAddress) => \E a \in Addrs : AcquirePop(p, a) BY <3>1
    <3> QED BY <3>2, <3>3, <3>4, <3>5, <3>6, <3>7
  <2>2. CASE AcquireFailed(p) \/ AcquireIdle(p) \/ \E c \in Conns : AcquireNew(p, c)
    BY <2>2 DEF AcquireFailed, LimitReject, Goto, DialFail, AddCount, AcquireIdle, KeepFresh,
                AcquireNew, DialOk
  <2>3. CASE ReadLimitEOF(p) \/ SkipBody(p) \/ ClientGone(p)
    BY <2>3 DEF ReadLimitEOF, SkipBody, ClientGone, Finish, Forget, LetGo, poolVars
  <2>4. CASE ReleaseConn(p)
    <3>1. ReleaseEvict(p, h[p].upstreamAddress, h[p].connection) => free' = free BY DEF ReleaseEvict
    <3>2. EvictClose(p) => free' = free BY DEF EvictClose, CloseSocket, LetGo
    <3>3. \/ ReleasePut(p, h[p].upstreamAddress, h[p].connection)
          \/ ReleaseEvict(p, h[p].upstreamAddress, h[p].connection) \/ EvictClose(p)
      BY <2>4 DEF ReleaseConn
    <3> QED BY <2>4, <3>1, <3>2, <3>3
  <2>5. CASE DropConn(p) BY <2>5 DEF DropConn, Drop, DropClose, CloseSocket, LetGo
  <2>6. CASE \/ WriteRequestHeaders(p) \/ WriteRequestBody(p) \/ ExchangeFailed(p)
             \/ ReadResponseHeaders(p) \/ ReadLimit(p) \/ ReadLimitError(p) \/ ReadSome(p)
             \/ ReadEOF(p) \/ \E a \in Addrs : Resolve(p, a)
    BY <2>6 DEF WriteRequestHeaders, WriteRequestBody, ExchangeFailed, FailTo, ReadResponseHeaders,
                ReadLimit, ReadBut, ReadLimitError, ReadFails, ReadSome, ReadAny, ReadEOF, Resolve,
                poolVars
  <2> QED BY <2>1, <2>2, <2>3, <2>4, <2>5, <2>6 DEF Act, Serve
<1> QED BY <1>2, <1>3, <1>4, <1>5

\* Every step of the proxy preserves what is known of the connections' transit.
LEMMA TransitNext == Linkage /\ Transit /\ [ProxyNext]_proxyVars => Transit'
<1> SUFFICES ASSUME Linkage, Transit, [ProxyNext]_proxyVars PROVE Transit' OBVIOUS
<1>0. Ownership /\ ProxyTypeOK /\ Linked BY DEF Linkage, IInv
<1>1. CASE \E p \in Procs : Act(p)
  <2>1. PICK p \in Procs : Act(p) BY <1>1
  <2>2. IdleClean' BY <1>0, <2>1, IdleCleanStep
  <2>3. CleanAt(p)' BY <1>0, <2>1, CleanOwn
  <2>4. \A q \in Procs \ {p} : CleanAt(q)' BY <1>0, <2>1, CleanOthers DEF Transit
  <2>5. \A q \in Procs : CleanAt(q)' BY <2>3, <2>4
  <2> QED BY <2>2, <2>5 DEF Transit
<1>2. CASE \E c \in Conns : UpstreamClose(c)
  <2>1. PICK c \in Conns : UpstreamClose(c) BY <1>2
  <2>2. /\ h' = h /\ pc' = pc /\ conn' = conn /\ free' = free
        /\ ~wire'[c].alive /\ \A d \in Conns \ {c} : wire'[d] = wire[d]
    BY <1>0, <2>1 DEF UpstreamClose, poolVars, ProxyTypeOK
  <2>3. \A d \in Conns : ~wire'[d].alive \/ wire'[d] = wire[d] BY <2>2
  <2>4. \A a \in Addrs : Idle(a)' = Idle(a) /\ Idle(a) \subseteq Conns
    BY <1>0, <2>2, IdleSame DEF Ownership, IdleUnowned, TypeOK
  <2>5. IdleClean' BY <2>3, <2>4 DEF Transit, IdleClean
  <2>6. ASSUME NEW p \in Procs PROVE CleanAt(p)'
    <3>1. CleanAt(p) /\ LinkedAt(p) BY <1>0 DEF Transit, Linked
    <3>2. pc[p] = "check" => conn[p] \in Conns
      BY <1>0 DEF Ownership, OwnedOnce, TypeOK, Owning
    <3>3. \/ h[p].stage \in {"headers", "release", "body", "await", "fail"}
          \/ h[p].stage = "stream" /\ ~h[p].returned
          => h[p].connection \in Conns
      BY <1>0, <3>1, HasTypes DEF LinkedAt, Has, Owning
    <3> QED BY <2>2, <2>3, <3>1, <3>2, <3>3 DEF CleanAt, Clean
  <2> QED BY <2>5, <2>6 DEF Transit
<1>3. CASE (Tick /\ UNCHANGED <<h, wire>>) \/ UNCHANGED proxyVars
  <2>1. h' = h /\ wire' = wire /\ pc' = pc /\ conn' = conn /\ free' = free
    BY <1>3 DEF Tick, locals, proxyVars, poolVars
  <2>2. \A a \in Addrs : Idle(a)' = Idle(a) BY <2>1, IdleSame
  <2> QED BY <2>1, <2>2 DEF Transit, IdleClean, CleanAt, Clean
<1> QED BY <1>1, <1>2, <1>3 DEF ProxyNext, Act

\* A live connection in the pool never holds an answer, or the rest of one, of an earlier
\* request: no client is sent what another one asked for.
THEOREM IdleIsClean == ProxySpec => []IdleClean
<1>1. ProxyInit => Transit
  <2> SUFFICES ASSUME ProxyInit PROVE Transit OBVIOUS
  <2>1. \A a \in Addrs : Idle(a) = {}
    <3>1. DOMAIN <<>> = {} OBVIOUS
    <3> QED BY <3>1 DEF Idle, ProxyInit, Init
  <2>2. IdleClean BY <2>1 DEF IdleClean
  <2>3. \A p \in Procs : CleanAt(p) BY DEF ProxyInit, Init, NoRequest, CleanAt
  <2> QED BY <2>2, <2>3 DEF Transit
<1>2. Transit => IdleClean BY DEF Transit
<1> QED BY <1>1, <1>2, TransitNext, LinkageHolds, PTL DEF ProxySpec

-----------------------------------------------------------------------------
(* When no connection is lost. *)

\* What no request does when no body is empty, none is skipped and no client leaves.
Thorough == \A p \in Procs :
    /\ h[p].stage # "skip"
    /\ h[p].stage = "stream" /\ ~h[p].returned => h[p].remain # 0

\* A step of the pool in which no caller goes away with its connection loses none.
LEMMA KeptStep ==
    ASSUME Ownership, NoOrphan, NEW p \in Procs, PoolStep(p) \/ Acquire(p) \/ GiveBack(p)
    PROVE  NoOrphan'
<1> USE DEF settings, locals
<1>0. /\ pc \in [Procs -> Labels] /\ conn \in [Procs -> Conns \union {NoConn}]
      /\ addr \in [Procs -> Addrs] /\ open \in [Addrs -> SUBSET Conns] /\ TypeOK
      /\ OwnedOnce /\ IdleUnowned /\ OneHost
  BY DEF Ownership, TypeOK
<1> SUFFICES ASSUME NEW a \in Addrs, NEW c \in open'[a]
             PROVE  (c \in Idle(a))' \/ \E q \in Procs : pc'[q] \in Owning /\ conn'[q] = c
  BY DEF NoOrphan
<1>o. \A q \in Procs \ {p} : pc'[q] = pc[q] /\ conn'[q] = conn[q]
  BY <1>0, OtherLocals DEF Step
\* Where the sockets do not change it is enough to follow c, if it leaves its place.
<1>k. ASSUME open' = open,
             c \in Idle(a) => (c \in Idle(a))' \/ (pc'[p] \in Owning /\ conn'[p] = c),
             pc[p] \in Owning /\ conn[p] = c => (c \in Idle(a))' \/ (pc'[p] \in Owning /\ conn'[p] = c)
      PROVE  (c \in Idle(a))' \/ \E q \in Procs : pc'[q] \in Owning /\ conn'[q] = c
  <2>1. c \in Idle(a) \/ \E q \in Procs : pc[q] \in Owning /\ conn[q] = c BY <1>k DEF NoOrphan
  <2> QED BY <1>o, <1>k, <2>1
<1>i. free' = free => Idle(a)' = Idle(a) BY IdleSame
<1>1. CASE \/ UndoCount(p) \/ LimitReject(p) \/ LimitPass(p) \/ Reserve(p) \/ DialFail(p)
           \/ \E b \in Addrs : AcquireEmpty(p, b)
  <2>1. free' = free /\ open' = open /\ pc[p] \notin Owning
    BY <1>1 DEF UndoCount, LimitReject, LimitPass, Reserve, DialFail, AcquireEmpty, AddCount, Goto, Owning
  <2> QED BY <1>i, <1>k, <2>1
<1>2. CASE KeepFresh(p)
  <2>1. free' = free /\ open' = open /\ pc'[p] = "held" /\ conn' = conn BY <1>0, <1>2 DEF KeepFresh
  <2> QED BY <1>i, <1>k, <2>1 DEF Owning
<1>3. CASE DropStale(p) \/ EvictClose(p) \/ DropClose(p)
  <2>1. /\ free' = free /\ pc[p] \in Owning
        /\ open' = [open EXCEPT ![addr[p]] = @ \ {conn[p]}]
    BY <1>0, <1>3 DEF DropStale, EvictClose, DropClose, CloseSocket, LetGo, Owning
  <2>2. c \in open[a] /\ (a = addr[p] => c # conn[p]) BY <1>0, <2>1
  <2>3. c # conn[p] BY <1>0, <2>1, <2>2 DEF OwnedOnce, OneHost
  <2>4. c \in Idle(a) \/ \E q \in Procs : pc[q] \in Owning /\ conn[q] = c BY <2>2 DEF NoOrphan
  <2> QED BY <1>i, <1>o, <2>1, <2>3, <2>4
<1>4. CASE \E d \in Conns : DialOk(p, d)
  <2>1. PICK d \in Conns : DialOk(p, d) BY <1>4
  <2>2. /\ open' = [open EXCEPT ![addr[p]] = @ \union {d}] /\ free' = free
        /\ conn'[p] = d /\ pc'[p] = "held" /\ pc[p] = "dial"
    BY <1>0, <2>1 DEF DialOk
  <2>3. c = d \/ c \in open[a] BY <1>0, <2>2
  <2>4. c \in open[a] => c \in Idle(a) \/ \E q \in Procs : pc[q] \in Owning /\ conn[q] = c
    BY DEF NoOrphan
  <2> QED BY <1>i, <1>o, <2>2, <2>3, <2>4 DEF Owning
<1>5. CASE \E b \in Addrs : AcquirePop(p, b)
  <2>1. PICK b \in Addrs : AcquirePop(p, b) BY <1>5
  <2> DEFINE d == free[b][Len(free[b])].conn
  <2>2. /\ free[b] # <<>> /\ open' = open /\ pc[p] = "out"
        /\ free' = [free EXCEPT ![b] = SubSeq(free[b], 1, Len(free[b]) - 1)]
        /\ conn'[p] = d /\ pc'[p] = "check"
    BY <1>0, <2>1 DEF AcquirePop, TakeTop
  <2>3. NoTwice(b) BY <1>0 DEF IdleUnowned
  <2>4. Idle(b)' = Idle(b) \ {d} /\ \A e \in Addrs \ {b} : Idle(e)' = Idle(e)
    BY <1>0, <2>2, <2>3, IdlePop
  <2> HIDE DEF d
  <2> QED BY <1>k, <2>2, <2>4 DEF Owning
<1>6. CASE GiveBack(p)
  <2>0. PICK b \in Addrs, d \in Conns : b = addr[p] /\ d = conn[p]
    BY <1>0, <1>6 DEF GiveBack, OwnedOnce, Owning
  <2>1. pc[p] = "held" /\ d \in open[b] /\ d \notin Idle(b) /\ NoTwice(b)
    BY <1>0, <1>6, <2>0 DEF GiveBack, OwnedOnce, IdleUnowned, Owning
  <2>2. CASE ReleasePut(p, b, d)
    <3>1. /\ free' = [free EXCEPT ![b] = Append(@, [conn |-> d, returnedAt |-> now])]
          /\ open' = open
      BY <2>2 DEF ReleasePut, PutIdle
    <3>2. Idle(b)' = Idle(b) \union {d} /\ \A e \in Addrs \ {b} : Idle(e)' = Idle(e)
      BY <1>0, <2>1, <3>1, IdlePush
    <3>3. d \in open[a] => a = b BY <1>0, <2>1 DEF OneHost
    <3> QED BY <1>k, <2>0, <3>1, <3>2, <3>3
  <2>3. CASE ReleaseEvict(p, b, d) \/ Drop(p, b, d)
    <3>1. open' = open /\ free' = free /\ pc'[p] \in {"evict", "close"} /\ conn'[p] = d
      BY <1>0, <2>3 DEF ReleaseEvict, Drop, Uncount
    <3> QED BY <1>i, <1>k, <2>0, <3>1 DEF Owning
  <2> QED BY <1>6, <2>0, <2>2, <2>3 DEF GiveBack
<1> QED BY <1>1, <1>2, <1>3, <1>4, <1>5, <1>6 DEF PoolStep, Acquire

\* Under these conditions a request always reads its body to the end.
LEMMA ThoroughStep ==
    ASSUME ~ClientMayLeave, 0 \notin BodySizes, Bodiless \subseteq {FALSE},
           ProxyTypeOK, Linked, Thorough, NEW p \in Procs, Act(p)
    PROVE  Thorough'
<1>0. /\ h \in [Procs -> Request] /\ h[p] \in Request /\ LinkedAt(p)
      /\ h[p].stage # "skip" /\ (h[p].stage = "stream" /\ ~h[p].returned => h[p].remain # 0)
  BY DEF ProxyTypeOK, Request, Codes, Linked, Thorough
<1>1. \A q \in Procs \ {p} : h'[q] = h[q] BY OtherRequests
<1> SUFFICES h'[p].stage # "skip" /\ (h'[p].stage = "stream" /\ ~h'[p].returned => h'[p].remain # 0)
  BY <1>1 DEF Thorough
<1>2. CASE AcquireStep(p) BY <1>0, <1>2 DEF AcquireStep
<1>3. CASE AcquireFailed(p) \/ AcquireIdle(p) \/ \E c \in Conns : AcquireNew(p, c)
  <2>1. h'[p].stage \in {"idle", "headers"}
    BY <1>0, <1>3 DEF AcquireFailed, AcquireIdle, AcquireNew, NoRequest, Request
  <2> QED BY <2>1
<1>4. CASE WriteRequestHeaders(p) \/ WriteRequestBody(p) \/ ExchangeFailed(p)
  <2>1. h'[p].stage \in {"body", "await", "drop"}
    BY <1>0, <1>4 DEF WriteRequestHeaders, WriteRequestBody, ExchangeFailed, FailTo, Request
  <2> QED BY <2>1
<1>5. CASE ReadResponseHeaders(p)
  <2>1. PICK n \in BodySizes, s \in Statuses, chunked \in BOOLEAN, bodiless \in Bodiless :
          /\ h' = [h EXCEPT ![p].stage = IF bodiless THEN "skip" ELSE "stream",
                            ![p].status = ClientStatus(s),
                            ![p].remain = IF chunked THEN -1 ELSE n,
                            ![p].returned = FALSE]
          /\ wire' = [wire EXCEPT ![h[p].connection].owes = FALSE,
                                  ![h[p].connection].left = IF bodiless THEN 0 ELSE n]
    BY <1>5 DEF ReadResponseHeaders
  <2>2. /\ h'[p].stage = IF bodiless THEN "skip" ELSE "stream"
        /\ h'[p].remain = IF chunked THEN -1 ELSE n
    BY <1>0, <2>1 DEF Request
  <2>3. n # 0 /\ ~bodiless OBVIOUS
  <2> QED BY <2>2, <2>3
<1>6. CASE ReadLimit(p)
  <2>1. PICK n \in 1..h[p].remain :
          h' = IF n >= h[p].remain - 0 /\ ~h[p].returned
               THEN [h EXCEPT ![p].remain = @ - n, ![p].returned = TRUE, ![p].stage = "release"]
               ELSE [h EXCEPT ![p].remain = @ - n]
    BY <1>6 DEF ReadLimit, ReadBut
  <2>2. h[p].stage = "stream" /\ h[p].remain \in Nat /\ h[p].remain > 0 /\ ~h[p].returned
    BY <1>0, <1>6 DEF ReadLimit, ReadBut, LinkedAt, Request
  <2>3. CASE n >= h[p].remain
    <3>1. h'[p].stage = "release" BY <1>0, <2>1, <2>2, <2>3 DEF Request
    <3> QED BY <3>1
  <2>4. CASE ~(n >= h[p].remain)
    <3>1. h'[p].stage = "stream" /\ h'[p].remain = h[p].remain - n
      BY <1>0, <2>1, <2>2, <2>4 DEF Request
    <3>2. h[p].remain - n # 0 BY <2>2, <2>4
    <3> QED BY <3>1, <3>2
  <2> QED BY <2>3, <2>4
<1>7. CASE ReadLimitError(p) \/ ReadEOF(p)
  <2>1. h'[p].stage \in {"fail", "drop"} BY <1>0, <1>7 DEF ReadLimitError, ReadEOF, ReadFails, Request
  <2> QED BY <2>1
<1>8. CASE ReadSome(p)
  <2>1. PICK n \in 1..wire[h[p].connection].left : h' = [h EXCEPT ![p].remain = @ - 0 * n]
    BY <1>8 DEF ReadSome, ReadAny
  <2>2. h[p].remain = -1 /\ h[p].stage = "stream" /\ n \in Int
    BY <1>0, <1>8, <2>1 DEF ReadSome, ReadAny, Request
  <2>3. h'[p].stage = "stream" /\ h'[p].remain = h[p].remain - 0 * n BY <1>0, <2>1, <2>2 DEF Request
  <2>4. h'[p].remain = -1 BY <2>2, <2>3
  <2> QED BY <2>3, <2>4
<1>9. CASE ReadLimitEOF(p) \/ SkipBody(p) \/ ClientGone(p)
  BY <1>0, <1>9 DEF ReadLimitEOF, SkipBody, ClientGone, Finish, NoRequest
<1>10. CASE ReleaseConn(p)
  <2>1. h[p].returned BY <1>0, <1>10 DEF ReleaseConn, LinkedAt
  <2>2. AfterRelease(p) => (h'[p].returned /\ h'[p].stage = "stream") \/ h'[p].stage = "idle"
    BY <1>0, <2>1 DEF AfterRelease, NoRequest, Request
  <2> QED BY <1>0, <1>10, <2>2 DEF ReleaseConn
<1>11. CASE DropConn(p) BY <1>0, <1>11 DEF DropConn, NoRequest
<1>12. CASE \E a \in Addrs : Resolve(p, a) BY <1>0, <1>12 DEF Resolve
<1> QED
  BY <1>2, <1>3, <1>4, <1>5, <1>6, <1>7, <1>8, <1>9, <1>10, <1>11, <1>12 DEF Act, Serve

\* A connection is lost only by an empty body, by a response that fasthttp sends without its
\* body, or by a client that leaves: without these every open socket stays in the pool or in
\* the hands of a goroutine.
THEOREM NothingIsLost ==
    ASSUME ~ClientMayLeave, 0 \notin BodySizes, Bodiless \subseteq {FALSE}
    PROVE  ProxySpec => []NoOrphan
<1> DEFINE Kept == NoOrphan /\ Thorough
<1>1. ProxyInit => Kept BY DEF ProxyInit, Init, NoRequest, NoOrphan, Thorough
<1>2. Linkage /\ Kept /\ [ProxyNext]_proxyVars => Kept'
  <2> SUFFICES ASSUME Linkage, Kept, [ProxyNext]_proxyVars PROVE Kept' OBVIOUS
  <2>0. Ownership /\ ProxyTypeOK /\ Linked BY DEF Linkage, IInv
  <2>1. CASE \E p \in Procs : Act(p)
    <3>1. PICK p \in Procs : Act(p) BY <2>1
    <3>2. Thorough' BY <2>0, <3>1, ThoroughStep
    <3>3. ~(Forget(p) /\ (ReadLimitEOF(p) \/ SkipBody(p) \/ ClientGone(p)))
      <4>1. LinkedAt(p) /\ h[p].stage # "skip"
            /\ (h[p].stage = "stream" /\ ~h[p].returned => h[p].remain # 0)
        BY <2>0 DEF Linked, Thorough
      <4>2. ~SkipBody(p) /\ ~ClientGone(p) BY <4>1 DEF SkipBody, ClientGone
      <4>3. ReadLimitEOF(p) => pc[p] = "out" BY <4>1 DEF ReadLimitEOF, LinkedAt
      <4> QED BY <4>2, <4>3 DEF Forget
    <3>4. PoolStep(p) \/ Acquire(p) \/ GiveBack(p) \/ UNCHANGED poolVars
      BY <2>0, <3>1, <3>3, PoolUse
    <3>5. CASE UNCHANGED poolVars
      <4>1. open' = open /\ free' = free /\ pc' = pc /\ conn' = conn BY <3>5 DEF poolVars
      <4>2. \A a \in Addrs : Idle(a)' = Idle(a) BY <4>1, IdleSame
      <4> QED BY <3>2, <4>1, <4>2 DEF NoOrphan
    <3>6. CASE PoolStep(p) \/ Acquire(p) \/ GiveBack(p)
      <4>1. NoOrphan' BY <2>0, <3>6, KeptStep
      <4> QED BY <3>2, <4>1
    <3> QED BY <3>4, <3>5, <3>6
  <2>2. CASE \/ \E c \in Conns : UpstreamClose(c)
             \/ (Tick /\ UNCHANGED <<h, wire>>) \/ UNCHANGED proxyVars
    <3>1. h' = h /\ open' = open /\ free' = free /\ pc' = pc /\ conn' = conn
      BY <2>2 DEF UpstreamClose, Tick, locals, proxyVars, poolVars
    <3>2. \A a \in Addrs : Idle(a)' = Idle(a) BY <3>1, IdleSame
    <3> QED BY <3>1, <3>2 DEF NoOrphan, Thorough
  <2> QED BY <2>1, <2>2 DEF ProxyNext, Act
<1>3. Kept => NoOrphan OBVIOUS
<1> HIDE DEF Kept
<1> QED BY <1>1, <1>2, <1>3, LinkageHolds, PTL DEF ProxySpec
=============================================================================
