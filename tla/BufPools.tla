------------------------------ MODULE BufPools ------------------------------
(***************************************************************************)
(* The pools of bufio.Reader, bufio.Writer and copy buffers and the        *)
(* counters and gauges about them: internal/pool/bufio_pool.go, as the     *)
(* handler uses it.                                                        *)
(*                                                                         *)
(* A pooled object is its size.  sync.Pool.Get may return any object that  *)
(* was Put, or none although there are some.  The metrics functions are    *)
(* sequences of atomic operations on the counters and the gauges, in which *)
(* goroutines interleave: Set(Load()) is two of them.                      *)
(***************************************************************************)
EXTENDS Integers, Sequences, FiniteSets

CONSTANTS
    Procs,        \* the goroutines that serve requests
    Sizes,        \* buffer sizes
    DefaultSize,  \* the initial defaultBufSize and pipeCopyBufferSize
    MinSize,      \* the least size that the setters accept
    MaxRequests   \* bound on the number of requests

ASSUME BufAssumption ==
    /\ IsFiniteSet(Procs)
    /\ Sizes \subseteq Nat /\ DefaultSize \in Sizes
    /\ MinSize \in Nat /\ MinSize <= DefaultSize
    /\ MaxRequests \in Nat

VARIABLES
    bufSize,    \* defaultBufSize
    pipeSize,   \* pipeCopyBufferSize
    free,       \* the objects in each sync.Pool: how many of each size
    inUse,      \* bufIOReaderPoolInUse, bufIOWriterPoolInUse, pipeCopyBufPoolInUse
    idle,       \* bufIOReaderPoolIdle, bufIOWriterPoolIdle, pipeCopyBufPoolIdle
    gauge,      \* the Prometheus gauges of both
    at,         \* where each goroutine is in its request
    buf,        \* the object it has from a pool
    todo,       \* what is left of the metrics function it is in
    loaded,     \* the value it has loaded and not yet set
    lost,       \* readers that no one will release
    requests    \* requests begun

sizes == <<bufSize, pipeSize>>
counters == <<inUse, idle, gauge, loaded>>
vars == <<bufSize, pipeSize, free, inUse, idle, gauge, at, buf, todo, loaded, lost, requests>>

Kinds == {"reader", "writer", "pipe"}

(***************************************************************************)
(*   "idle"    no request                                                  *)
(*   "writer"  has a bufio.Writer, in writeRequestHeaders                  *)
(*   "body"    about to write the request body                             *)
(*   "pipe"    has a copy buffer, in PipeCopy                              *)
(*   "await"   about to acquire a bufio.Reader                             *)
(*   "reader"  has a bufio.Reader, from readResponseHeaders to onDone      *)
(***************************************************************************)
Places == {"idle", "writer", "body", "pipe", "await", "reader"}

SizeOf(k) == IF k = "pipe" THEN pipeSize ELSE bufSize

BufInit ==
    /\ bufSize = DefaultSize /\ pipeSize = DefaultSize
    /\ free = [k \in Kinds |-> [n \in Sizes |-> 0]]
    /\ inUse = [k \in Kinds |-> 0]
    /\ idle = [k \in Kinds |-> 0]
    /\ gauge = [k \in Kinds |-> [inUse |-> 0, idle |-> 0]]
    /\ at = [p \in Procs |-> "idle"]
    /\ buf = [p \in Procs |-> 0]
    /\ todo = [p \in Procs |-> <<>>]
    /\ loaded = [p \in Procs |-> 0]
    /\ lost = 0
    /\ requests = 0

-----------------------------------------------------------------------------
(* The metrics functions. *)

Down == -1
Up == 1

AddInUse(k, d) == [op |-> "addInUse", kind |-> k, by |-> d]
AddIdle(k, d) == [op |-> "addIdle", kind |-> k, by |-> d]

\* Set(float64(...Load())) of the in-use gauge, then of the idle gauge.
Publish(k) == << [op |-> "loadInUse", kind |-> k, by |-> 0], [op |-> "setInUse", kind |-> k, by |-> 0],
                 [op |-> "loadIdle", kind |-> k, by |-> 0], [op |-> "setIdle", kind |-> k, by |-> 0] >>

New(k) == <<AddInUse(k, 1)>> \o Publish(k)
Move(k, v) == <<AddInUse(k, v), AddIdle(k, -v)>> \o Publish(k)

metricsBufIOReaderNew == New("reader")
metricsBufIOReader(v) == Move("reader", v)
metricsBufIOWriterNew == New("writer")

\* Mutant: a function that does nothing on release.
metricsBufIOWriterUpOnly(v) == IF v = Up THEN Move("reader", v) ELSE <<>>

\* The code updates the counters and the gauges of the readers.
metricsBufIOWriter(v) == Move("reader", v)

metricsUpPipeCopy == Move("pipe", Up)

\* Mutants: PipeCopy's deferred function forgets the in-use counter; it moves both the wrong way.
metricsDownPipeCopyShort == <<AddIdle("pipe", 1)>> \o Publish("pipe")
metricsDownPipeCopySwapped == Move("pipe", Up)

metricsDownPipeCopy == Move("pipe", Down)

\* Goroutine p executes the next operation of its metrics function.
MetricStep(p) ==
    /\ todo[p] # <<>>
    /\ todo' = [todo EXCEPT ![p] = Tail(@)]
    /\ LET o == Head(todo[p])
       IN  /\ inUse' = IF o.op = "addInUse" THEN [inUse EXCEPT ![o.kind] = @ + o.by] ELSE inUse
           /\ idle' = IF o.op = "addIdle" THEN [idle EXCEPT ![o.kind] = @ + o.by] ELSE idle
           /\ loaded' = CASE o.op = "loadInUse" -> [loaded EXCEPT ![p] = inUse[o.kind]]
                          [] o.op = "loadIdle" -> [loaded EXCEPT ![p] = idle[o.kind]]
                          [] o.op \in {"setInUse", "setIdle"} -> [loaded EXCEPT ![p] = 0]
                          [] OTHER -> loaded
           /\ gauge' = CASE o.op = "setInUse" -> [gauge EXCEPT ![o.kind].inUse = loaded[p]]
                         [] o.op = "setIdle" -> [gauge EXCEPT ![o.kind].idle = loaded[p]]
                         [] OTHER -> gauge
    /\ UNCHANGED <<sizes, free, at, buf, lost, requests>>

-----------------------------------------------------------------------------
(* sync.Pool *)

\* p is at place x, in no metrics function.
Ready(p, x) == at[p] = x /\ todo[p] = <<>>

\* Get finds an object of size n: metrics ms follow.
GetOld(p, k, n, ms) ==
    /\ free[k][n] > 0
    /\ free' = [free EXCEPT ![k][n] = @ - 1]
    /\ buf' = [buf EXCEPT ![p] = n]
    /\ at' = [at EXCEPT ![p] = k]
    /\ todo' = [todo EXCEPT ![p] = ms]

\* Get finds none, and one of the current size is made.
GetNew(p, k, ms) ==
    /\ buf' = [buf EXCEPT ![p] = SizeOf(k)]
    /\ at' = [at EXCEPT ![p] = k]
    /\ todo' = [todo EXCEPT ![p] = ms]
    /\ UNCHANGED free

\* Put, then metrics ms, then the goroutine goes on at x.
PutBack(p, k, ms, x) ==
    /\ free' = [free EXCEPT ![k][buf[p]] = @ + 1]
    /\ buf' = [buf EXCEPT ![p] = 0]
    /\ at' = [at EXCEPT ![p] = x]
    /\ todo' = [todo EXCEPT ![p] = ms]

-----------------------------------------------------------------------------
(* The operations, in the order in which a request uses them. *)

AcquireBufIOWriter(p) ==
    /\ Ready(p, "idle")
    /\ requests < MaxRequests
    /\ requests' = requests + 1
    /\ \/ \E n \in Sizes : GetOld(p, "writer", n, metricsBufIOWriter(Up))
       \/ GetNew(p, "writer", metricsBufIOWriterNew)
    /\ UNCHANGED <<sizes, counters, lost>>

\* Deferred: whether the header was written or not.
ReleaseBufIOWriter(p) ==
    /\ Ready(p, "writer")
    /\ \E x \in {"body", "idle"} : PutBack(p, "writer", metricsBufIOWriter(Down), x)
    /\ UNCHANGED <<sizes, counters, lost, requests>>

\* A body that is not streamed needs no buffer; writing it may fail.
WriteFixedBody(p) ==
    /\ Ready(p, "body")
    /\ \E x \in {"await", "idle"} : at' = [at EXCEPT ![p] = x]
    /\ UNCHANGED <<sizes, free, counters, buf, todo, lost, requests>>

PipeCopyBegin(p) ==
    /\ Ready(p, "body")
    /\ \/ \E n \in Sizes : GetOld(p, "pipe", n, metricsUpPipeCopy)
       \/ GetNew(p, "pipe", metricsUpPipeCopy)
    /\ UNCHANGED <<sizes, counters, lost, requests>>

\* Deferred: whether the body was copied to its EOF or an error ended it.
PipeCopyEnd(p) ==
    /\ Ready(p, "pipe")
    /\ \E x \in {"await", "idle"} : PutBack(p, "pipe", metricsDownPipeCopy, x)
    /\ UNCHANGED <<sizes, counters, lost, requests>>

AcquireBufIOReader(p) ==
    /\ Ready(p, "await")
    /\ \/ \E n \in Sizes : GetOld(p, "reader", n, metricsBufIOReader(Up))
       \/ GetNew(p, "reader", metricsBufIOReaderNew)
    /\ UNCHANGED <<sizes, counters, lost, requests>>

\* onDone of the PoolReader.
ReleaseBufIOReader(p) ==
    /\ Ready(p, "reader")
    /\ PutBack(p, "reader", metricsBufIOReader(Down), "idle")
    /\ UNCHANGED <<sizes, counters, lost, requests>>

\* readResponseHeaders returns an error, or the PoolReader is never read to its end:
\* nothing releases the reader.
LoseReader(p) ==
    /\ Ready(p, "reader")
    /\ at' = [at EXCEPT ![p] = "idle"]
    /\ buf' = [buf EXCEPT ![p] = 0]
    /\ lost' = lost + 1
    /\ UNCHANGED <<sizes, free, counters, todo, requests>>

-----------------------------------------------------------------------------
(* The settings. *)

\* Mutant: the least size is not enforced.
AnySize(n) == n

BufSizeOf(n) == IF n < MinSize THEN bufSize ELSE n

BufferSize(n) ==
    /\ bufSize' = BufSizeOf(n)
    /\ UNCHANGED <<pipeSize, free, counters, at, buf, todo, lost, requests>>

\* A new sync.Pool replaces the old one, and the idle counter and gauge start again.
PipeCopyBufferSize(n) ==
    /\ IF n < MinSize THEN UNCHANGED <<pipeSize, free, idle, gauge>>
       ELSE /\ pipeSize' = n
            /\ free' = [free EXCEPT !["pipe"] = [s \in Sizes |-> 0]]
            /\ idle' = [idle EXCEPT !["pipe"] = 0]
            /\ gauge' = [gauge EXCEPT !["pipe"].idle = 0]
    /\ UNCHANGED <<bufSize, inUse, at, buf, todo, loaded, lost, requests>>

BufNext ==
    \/ \E p \in Procs :
          \/ MetricStep(p)
          \/ AcquireBufIOWriter(p) \/ ReleaseBufIOWriter(p)
          \/ WriteFixedBody(p) \/ PipeCopyBegin(p) \/ PipeCopyEnd(p)
          \/ AcquireBufIOReader(p) \/ ReleaseBufIOReader(p) \/ LoseReader(p)
    \/ \E n \in Sizes : BufferSize(n) \/ PipeCopyBufferSize(n)

BufSpec == BufInit /\ [][BufNext]_vars

-----------------------------------------------------------------------------
(* Properties. *)

GoodSizes == {n \in Sizes : n >= MinSize}

\* Every variable has its type; the sizes, and the objects made, are at least MinSize.
BufTypeOK ==
    /\ {bufSize, pipeSize} \subseteq GoodSizes
    /\ free \in [Kinds -> [Sizes -> Nat]]
    /\ \A k \in Kinds, n \in Sizes \ GoodSizes : free[k][n] = 0
    /\ inUse \in [Kinds -> Int] /\ idle \in [Kinds -> Int]
    /\ gauge \in [Kinds -> [inUse : Int, idle : Int]]
    /\ at \in [Procs -> Places]
    /\ buf \in [Procs -> GoodSizes \union {0}]
    /\ loaded \in [Procs -> Int]
    /\ lost \in Nat /\ requests \in 0..MaxRequests

\* No metrics function is under way.
Quiet == \A p \in Procs : todo[p] = <<>>

Users(k) == Cardinality({p \in Procs : at[p] = k})

\* Although the writers' metrics go to the readers' counters, nothing is lost between
\* them: together the two in-use counters give the readers and writers in use, the lost
\* readers included.
InUseTogether ==
    Quiet => inUse["reader"] + inUse["writer"] = Users("reader") + Users("writer") + lost

\* The in-use counter of the copy buffers is exact.
PipeInUseExact == Quiet => inUse["pipe"] = Users("pipe")

\* A gauge is set from a counter that was loaded before, so it may be stale, even when nothing
\* is going on; but the value it shows is one that the counter can have.
PipeGaugeInRange == gauge["pipe"].inUse \in 0..Cardinality(Procs)
=============================================================================
