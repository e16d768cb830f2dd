--------------------------- MODULE BufPoolsProofs ---------------------------
(***************************************************************************)
(* Proofs about BufPools, for any number of goroutines and of requests,    *)
(* any buffer sizes and any interleaving of the metrics functions: what    *)
(* the in-use counters count.                                              *)
(***************************************************************************)
EXTENDS BufPools, FiniteSetTheorems, SequenceTheorems, TLAPS

Ops == [op : {"addInUse", "addIdle", "loadInUse", "setInUse", "loadIdle", "setIdle"},
        kind : Kinds, by : {-1, 0, 1}]

\* What may be left of a metrics function: its operation on the in-use counter comes first, and
\* the in-use gauge is set right after the counter is loaded.
WellFormed(s) ==
    /\ s \in Seq(Ops)
    /\ \A i \in 2..Len(s) :
          /\ s[i].op # "addInUse"
          /\ s[i].op = "setInUse" => s[i - 1].op = "loadInUse" /\ s[i - 1].kind = s[i].kind

\* Goroutine p has yet to execute operation x, first of all, on a kind of K.
Due(p, x, K) == todo[p] # <<>> /\ Head(todo[p]).op = x /\ Head(todo[p]).kind \in K

\* The metrics of the writers go to the readers' counters, when they are reused.
Shared == {"reader", "writer"}
Pipe == {"pipe"}

\* The counters of K take p to have an object: it has one and has counted it, or it has none
\* any more but has yet to say so.
Counted(p, K) == IF Due(p, "addInUse", K) THEN Head(todo[p]).by = Down ELSE at[p] \in K
CountedIn(K) == {p \in Procs : Counted(p, K)}

\* Where p is agrees with what it has and with what is left of its metrics function.
Agrees(p) ==
    /\ at[p] \in Kinds => buf[p] \in GoodSizes
    /\ WellFormed(todo[p])
    /\ \A K \in {Shared, Pipe} : Due(p, "addInUse", K) =>
          Head(todo[p]).by = IF at[p] \in K THEN Up ELSE Down
    /\ Due(p, "setInUse", Pipe) => loaded[p] \in 0..Cardinality(Procs)

\* The counters are the number of those they count.
SharedCount == inUse["reader"] + inUse["writer"] = Cardinality(CountedIn(Shared)) + lost
PipeCount == inUse["pipe"] = Cardinality(CountedIn(Pipe))

IInv ==
    /\ BufTypeOK
    /\ todo \in [Procs -> Seq(Ops)]
    /\ \A p \in Procs : Agrees(p)
    /\ SharedCount
    /\ PipeCount
    /\ PipeGaugeInRange
-----------------------------------------------------------------------------
(* The metrics functions. *)

\* After its first operation a metrics function is as well-formed as before, has no operation on
\* the in-use counter any more, and sets the in-use gauge only if it has just loaded the counter.
LEMMA TailWellFormed ==
    ASSUME NEW s, WellFormed(s), s # <<>>
    PROVE  /\ Head(s) \in Ops /\ WellFormed(Tail(s))
           /\ Tail(s) # <<>> =>
                 /\ Head(Tail(s)) \in Ops /\ Head(Tail(s)).op # "addInUse"
                 /\ Head(Tail(s)).op = "setInUse" =>
                       Head(s).op = "loadInUse" /\ Head(s).kind = Head(Tail(s)).kind
<1> DEFINE t == Tail(s)
<1>1. /\ s \in Seq(Ops) /\ Len(s) \in Nat /\ Len(s) >= 1 /\ Head(s) = s[1] /\ Head(s) \in Ops
  BY EmptySeq DEF WellFormed
<1>2. t \in Seq(Ops) /\ Len(t) = Len(s) - 1 /\ \A i \in 1..Len(t) : t[i] = s[i + 1]
  BY <1>1
<1> HIDE DEF t
<1>3. ASSUME NEW i \in 2..Len(t)
      PROVE  /\ t[i].op # "addInUse"
             /\ t[i].op = "setInUse" => t[i - 1].op = "loadInUse" /\ t[i - 1].kind = t[i].kind
  <2>1. /\ i \in 1..Len(t) /\ i - 1 \in 1..Len(t) /\ i + 1 \in 2..Len(s) /\ (i - 1) + 1 = i
        /\ (i + 1) - 1 = i
    BY <1>1, <1>2
  <2>2. t[i] = s[i + 1] /\ t[i - 1] = s[i] BY <1>2, <2>1
  <2> QED BY <2>1, <2>2 DEF WellFormed
<1>4. WellFormed(t) BY <1>2, <1>3 DEF WellFormed
<1>5. ASSUME t # <<>>
      PROVE  /\ Head(t) \in Ops /\ Head(t).op # "addInUse"
             /\ Head(t).op = "setInUse" => Head(s).op = "loadInUse" /\ Head(s).kind = Head(t).kind
  <2>1. Head(t) = t[1] /\ Head(t) \in Ops /\ Len(t) >= 1 BY <1>2, <1>5, EmptySeq
  <2>2. 1 \in 1..Len(t) /\ 2 \in 2..Len(s) /\ 1 + 1 = 2 /\ 2 - 1 = 1 BY <1>1, <1>2, <2>1
  <2>3. t[1] = s[2] BY <1>2, <2>2
  <2> QED BY <1>1, <2>1, <2>2, <2>3 DEF WellFormed
<1> QED BY <1>1, <1>4, <1>5 DEF t

\* The functions of bufio_pool.go begin with the in-use counter and publish both at the end.
LEMMA MetricsWellFormed ==
    ASSUME NEW k \in Kinds, NEW v \in {Up, Down}
    PROVE  /\ WellFormed(Move(k, v)) /\ Move(k, v) # <<>> /\ Head(Move(k, v)) = AddInUse(k, v)
           /\ WellFormed(New(k)) /\ New(k) # <<>> /\ Head(New(k)) = AddInUse(k, Up)
<1> USE DEF Up, Down
<1> DEFINE a == AddInUse(k, v)
           b == AddIdle(k, -v)
           u == AddInUse(k, 1)
           l1 == [op |-> "loadInUse", kind |-> k, by |-> 0]
           s1 == [op |-> "setInUse", kind |-> k, by |-> 0]
           l2 == [op |-> "loadIdle", kind |-> k, by |-> 0]
           s2 == [op |-> "setIdle", kind |-> k, by |-> 0]
<1>1. a \in Ops /\ b \in Ops /\ u \in Ops /\ l1 \in Ops /\ s1 \in Ops /\ l2 \in Ops /\ s2 \in Ops
  BY DEF AddInUse, AddIdle, Ops
<1>2. /\ b.op = "addIdle" /\ l1.op = "loadInUse" /\ s1.op = "setInUse" /\ l2.op = "loadIdle"
      /\ s2.op = "setIdle" /\ s1.kind = l1.kind
  BY DEF AddIdle
<1>3. Move(k, v) = <<a, b>> \o <<l1, s1, l2, s2>> /\ New(k) = <<u>> \o <<l1, s1, l2, s2>>
  BY DEF Move, New, Publish
<1>4. u = AddInUse(k, Up) BY DEF AddInUse
<1> HIDE DEF a, b, u, l1, s1, l2, s2
<1> DEFINE y == <<l1, s1, l2, s2>>
<1>5. /\ <<a, b>> \in Seq(Ops) /\ <<u>> \in Seq(Ops) /\ y \in Seq(Ops)
      /\ Len(<<a, b>>) = 2 /\ Len(<<u>>) = 1 /\ Len(y) = 4
      /\ <<a, b>>[1] = a /\ <<a, b>>[2] = b /\ <<u>>[1] = u
      /\ y[1] = l1 /\ y[2] = s1 /\ y[3] = l2 /\ y[4] = s2
  BY <1>1
<1>6. ASSUME NEW x \in Seq(Ops), Len(x) \in {1, 2}, x[1].op = "addInUse", Len(x) = 2 => x[2].op = "addIdle"
      PROVE  WellFormed(x \o y) /\ x \o y # <<>> /\ Head(x \o y) = x[1]
  <2> HIDE DEF y
  <2>1. y \in Seq(Ops) /\ x \in Seq(Ops) BY <1>5
  <2> DEFINE m == x \o y
  <2>2. /\ m \in Seq(Ops) /\ Len(m) = Len(x) + Len(y)
        /\ \A i \in 1..Len(x) : m[i] = x[i]
        /\ \A i \in 1..Len(y) : m[Len(x) + i] = y[i]
    BY ONLY <2>1
  <2> HIDE DEF m
  <2>3. m # <<>> /\ Head(m) = x[1] BY <1>5, <1>6, <2>2, EmptySeq
  <2>4. ASSUME NEW i \in 2..Len(m)
        PROVE  /\ m[i].op # "addInUse"
               /\ m[i].op = "setInUse" => m[i - 1].op = "loadInUse" /\ m[i - 1].kind = m[i].kind
    <3>1. CASE Len(x) = 1
      <4>1. m[2] = l1 /\ m[3] = s1 /\ m[4] = l2 /\ m[5] = s2 /\ Len(m) = 5
        BY <1>5, <2>2, <3>1
      <4>2. i = 2 \/ i = 3 \/ i = 4 \/ i = 5 BY <4>1
      <4> QED BY <1>2, <4>1, <4>2
    <3>2. CASE Len(x) = 2
      <4>1. m[2] = x[2] /\ m[3] = l1 /\ m[4] = s1 /\ m[5] = l2 /\ m[6] = s2 /\ Len(m) = 6
        BY <1>5, <2>2, <3>2
      <4>2. i = 2 \/ i = 3 \/ i = 4 \/ i = 5 \/ i = 6 BY <4>1
      <4> QED BY <1>2, <1>6, <3>2, <4>1, <4>2
    <3> QED BY <1>6, <3>1, <3>2
  <2>5. WellFormed(m) BY <2>2, <2>4 DEF WellFormed
  <2> QED BY <2>3, <2>5 DEF m
<1>7. a.op = "addInUse" /\ u.op = "addInUse" BY DEF AddInUse, a, u
<1>8. WellFormed(<<a, b>> \o y) /\ <<a, b>> \o y # <<>> /\ Head(<<a, b>> \o y) = a
  <2> DEFINE x == <<a, b>>
  <2>1. /\ x \in Seq(Ops) /\ Len(x) \in {1, 2} /\ x[1].op = "addInUse" /\ x[1] = a
        /\ (Len(x) = 2 => x[2].op = "addIdle")
    BY <1>2, <1>5, <1>7
  <2> HIDE DEF x
  <2>2. WellFormed(x \o y) /\ x \o y # <<>> /\ Head(x \o y) = x[1] BY <1>6, <2>1
  <2> QED BY <2>1, <2>2 DEF x
<1>9. WellFormed(<<u>> \o y) /\ <<u>> \o y # <<>> /\ Head(<<u>> \o y) = u
  <2> DEFINE x == <<u>>
  <2>1. /\ x \in Seq(Ops) /\ Len(x) \in {1, 2} /\ x[1].op = "addInUse" /\ x[1] = u
        /\ (Len(x) = 2 => x[2].op = "addIdle")
    BY <1>5, <1>7
  <2> HIDE DEF x
  <2>2. WellFormed(x \o y) /\ x \o y # <<>> /\ Head(x \o y) = x[1] BY <1>6, <2>1
  <2> QED BY <2>1, <2>2 DEF x
<1> QED BY <1>3, <1>4, <1>8, <1>9 DEF a

-----------------------------------------------------------------------------
(* What the counters count. *)

One(b) == IF b THEN 1 ELSE 0

\* A step of p changes the number of those that are counted by what it changes for p.
LEMMA CountStep ==
    ASSUME NEW p \in Procs, NEW K, \A q \in Procs \ {p} : Counted(q, K)' <=> Counted(q, K),
           NEW c \in BOOLEAN, c <=> Counted(p, K), NEW d \in BOOLEAN, d <=> Counted(p, K)'
    PROVE  Cardinality(CountedIn(K))' = Cardinality(CountedIn(K)) + One(d) - One(c)
<1> DEFINE S == CountedIn(K)
           T == CountedIn(K)'
<1>1. IsFiniteSet(S) /\ IsFiniteSet(T) /\ Cardinality(S) \in Nat
  BY BufAssumption, FS_Subset, FS_CardinalityType DEF BufAssumption, CountedIn
<1>2. /\ (p \in S <=> c) /\ (p \in T <=> d) /\ \A q : q # p => (q \in S <=> q \in T)
  BY DEF CountedIn
<1> HIDE DEF S, T
<1>3. CASE c <=> d
  <2>1. S = T BY <1>2, <1>3
  <2> QED BY <1>1, <1>3, <2>1 DEF One, S, T
<1>4. CASE c /\ ~d
  <2>1. T = S \ {p} BY <1>2, <1>4
  <2>2. Cardinality(T) = Cardinality(S) - 1 BY <1>1, <1>2, <1>4, <2>1, FS_RemoveElement
  <2> QED BY <1>1, <1>4, <2>2 DEF One, S, T
<1>5. CASE ~c /\ d
  <2>1. T = S \union {p} BY <1>2, <1>5
  <2>2. Cardinality(T) = Cardinality(S) + 1 BY <1>1, <1>2, <1>5, <2>1, FS_AddElement
  <2> QED BY <1>1, <1>5, <2>2 DEF One, S, T
<1> QED BY <1>3, <1>4, <1>5

\* No more goroutines are counted than there are.
LEMMA CountRange ==
    ASSUME NEW K
    PROVE  Cardinality(CountedIn(K)) \in 0..Cardinality(Procs)
<1>1. CountedIn(K) \subseteq Procs BY DEF CountedIn
<1> QED BY <1>1, BufAssumption, FS_Subset, FS_CardinalityType DEF BufAssumption

\* Where no metrics function is under way the counters count those that have an object.
LEMMA QuietCount ==
    ASSUME Quiet
    PROVE  /\ Cardinality(CountedIn(Pipe)) = Users("pipe")
           /\ Cardinality(CountedIn(Shared)) = Users("reader") + Users("writer")
<1>1. \A p \in Procs, K \in {Pipe, Shared} : Counted(p, K) <=> at[p] \in K
  BY DEF Quiet, Counted, Due
<1>2. CountedIn(Pipe) = {p \in Procs : at[p] = "pipe"} BY <1>1 DEF CountedIn, Pipe
<1> DEFINE R == {p \in Procs : at[p] = "reader"}
           W == {p \in Procs : at[p] = "writer"}
<1>3. CountedIn(Shared) = R \union W BY <1>1 DEF CountedIn, Shared
<1>4. R \intersect W = {} OBVIOUS
<1>5. IsFiniteSet(R) /\ IsFiniteSet(W) BY BufAssumption, FS_Subset DEF BufAssumption
<1> HIDE DEF R, W
<1>6. Cardinality(R \union W) = Cardinality(R) + Cardinality(W) - Cardinality(R \intersect W)
  BY <1>5, FS_Union
<1>7. Cardinality(R) \in Nat /\ Cardinality(W) \in Nat /\ Cardinality({}) = 0
  BY <1>5, FS_CardinalityType, FS_EmptySet
<1>8. Cardinality(R \intersect W) = 0 BY <1>4, <1>7
<1>9. Cardinality(CountedIn(Shared)) = Cardinality(R) + Cardinality(W)
  BY ONLY <1>3, <1>6, <1>7, <1>8
<1> QED BY <1>2, <1>9 DEF Users, R, W
-----------------------------------------------------------------------------
(* The inductive invariant. *)

\* At the start.
LEMMA IInvInit == BufInit => IInv
<1> SUFFICES ASSUME BufInit PROVE IInv OBVIOUS
<1> USE DEF BufInit
<1>1. BufTypeOK BY BufAssumption DEF BufAssumption, BufTypeOK, GoodSizes, Places
<1>2. WellFormed(<<>>)
  <2>1. <<>> \in Seq(Ops) BY EmptySeq
  <2>2. Len(<<>>) = 0 BY EmptySeq
  <2> QED BY <2>1, <2>2 DEF WellFormed
<1>3. \A p \in Procs : Agrees(p) BY <1>2 DEF Agrees, Due, Kinds
<1>4. Quiet BY DEF Quiet
<1>5. \A k \in Kinds : Users(k) = 0
  <2>1. \A k \in Kinds : {p \in Procs : at[p] = k} = {} BY DEF Kinds
  <2> QED BY <2>1, FS_EmptySet DEF Users
<1>6. SharedCount /\ PipeCount BY <1>4, <1>5, QuietCount DEF SharedCount, PipeCount, Kinds
<1>7. PipeGaugeInRange
  <2>1. Cardinality(Procs) \in Nat BY BufAssumption, FS_CardinalityType DEF BufAssumption
  <2> QED BY <2>1 DEF PipeGaugeInRange, Kinds
<1>8. todo \in [Procs -> Seq(Ops)] BY <1>2 DEF WellFormed
<1> QED BY <1>1, <1>3, <1>6, <1>7, <1>8 DEF IInv

\* The other goroutines are where they were, with what they had.
Still(q) == at'[q] = at[q] /\ buf'[q] = buf[q] /\ todo'[q] = todo[q] /\ loaded'[q] = loaded[q]

\* A goroutine that stays as it is agrees as it did, and is counted as it was.
LEMMA StillAgrees ==
    ASSUME NEW q \in Procs, Agrees(q), Still(q)
    PROVE  Agrees(q)' /\ \A K : Counted(q, K)' <=> Counted(q, K)
<1>1. \A x, K : Due(q, x, K)' <=> Due(q, x, K) BY DEF Still, Due
<1>2. Agrees(q)' BY <1>1 DEF Agrees, Still
<1>3. \A K : Counted(q, K)' <=> Counted(q, K) BY <1>1 DEF Counted, Still
<1> QED BY <1>2, <1>3

\* p goes from one place to the next, with the metrics ms to execute.
Moved(p, y, n, ms) ==
    /\ todo[p] = <<>>
    /\ at' = [at EXCEPT ![p] = y] /\ buf' = [buf EXCEPT ![p] = n] /\ todo' = [todo EXCEPT ![p] = ms]
    /\ y \in Places /\ n \in GoodSizes \union {0} /\ (y \in Kinds => n \in GoodSizes)

\* What the metrics say is what the goroutine does.
Tells(x, y, ms) ==
    \/ ms = <<>> /\ \A K \in {Shared, Pipe} : x \in K <=> y \in K
    \/ \E k \in Kinds, v \in {Up, Down} :
          /\ WellFormed(ms) /\ ms # <<>> /\ Head(ms) = AddInUse(k, v)
          /\ \A K \in {Shared, Pipe} :
                IF k \in K THEN (v = Up <=> y \in K) /\ (v = Down <=> x \in K)
                           ELSE x \in K <=> y \in K

\* p is counted after the move as it was before.
LEMMA MovedAgrees ==
    ASSUME IInv, NEW p \in Procs, NEW y, NEW n, NEW ms, Moved(p, y, n, ms), Tells(at[p], y, ms),
           loaded' = loaded
    PROVE  /\ \A q \in Procs : Agrees(q)'
           /\ \A K \in {Shared, Pipe} : Cardinality(CountedIn(K))' = Cardinality(CountedIn(K))
<1>1. /\ \A q \in Procs \ {p} : Still(q)
      /\ at'[p] = y /\ buf'[p] = n /\ todo'[p] = ms
  BY DEF Moved, Still, IInv, BufTypeOK
<1>2. ASSUME NEW q \in Procs \ {p} PROVE Agrees(q)' /\ \A K : Counted(q, K)' <=> Counted(q, K)
  BY <1>1, StillAgrees DEF IInv
<1>3. Agrees(p)' /\ \A K \in {Shared, Pipe} : Counted(p, K)' <=> Counted(p, K)
  <2>1. \A K : Counted(p, K) <=> at[p] \in K BY DEF Moved, Counted, Due
  <2>2. at'[p] \in Kinds => buf'[p] \in GoodSizes BY <1>1 DEF Moved
  <2>3. CASE ms = <<>> /\ \A K \in {Shared, Pipe} : at[p] \in K <=> y \in K
    <3>1. \A x, K : ~Due(p, x, K)' BY <1>1, <2>3 DEF Due
    <3>2. WellFormed(todo'[p]) BY <1>1, <2>3 DEF Moved, IInv, Agrees
    <3>3. Agrees(p)' BY <2>2, <3>1, <3>2 DEF Agrees
    <3>4. \A K \in {Shared, Pipe} : Counted(p, K)' <=> Counted(p, K)
      BY <1>1, <2>1, <2>3, <3>1 DEF Counted
    <3> QED BY <3>3, <3>4
  <2>4. ASSUME NEW k \in Kinds, NEW v \in {Up, Down},
               WellFormed(ms), ms # <<>>, Head(ms) = AddInUse(k, v),
               \A K \in {Shared, Pipe} :
                  IF k \in K THEN (v = Up <=> y \in K) /\ (v = Down <=> at[p] \in K)
                             ELSE at[p] \in K <=> y \in K
        PROVE  Agrees(p)' /\ \A K \in {Shared, Pipe} : Counted(p, K)' <=> Counted(p, K)
    <3>1. Head(ms).op = "addInUse" /\ Head(ms).kind = k /\ Head(ms).by = v
      BY <2>4 DEF AddInUse
    <3>2. /\ \A K : Due(p, "addInUse", K)' <=> k \in K
          /\ \A K : ~Due(p, "setInUse", K)'
      BY <1>1, <2>4, <3>1 DEF Due
    <3>3. \A K \in {Shared, Pipe} : k \in K => v = IF at'[p] \in K THEN Up ELSE Down
      BY <1>1, <2>4
    <3>4. Agrees(p)' BY <1>1, <2>2, <2>4, <3>1, <3>2, <3>3 DEF Agrees
    <3>5. \A K \in {Shared, Pipe} : Counted(p, K)' <=> Counted(p, K)
      BY <1>1, <2>1, <2>4, <3>1, <3>2 DEF Counted
    <3> QED BY <3>4, <3>5
  <2> QED BY <2>3, <2>4 DEF Tells
<1>4. ASSUME NEW K \in {Shared, Pipe}
      PROVE  Cardinality(CountedIn(K))' = Cardinality(CountedIn(K))
  <2>1. PICK c \in BOOLEAN : c <=> Counted(p, K)
    <3>1. TRUE \in BOOLEAN /\ FALSE \in BOOLEAN OBVIOUS
    <3> QED BY <3>1
  <2>2. (c <=> Counted(p, K)') /\ \A q \in Procs \ {p} : Counted(q, K)' <=> Counted(q, K)
    BY <1>2, <1>3, <2>1
  <2>3. Cardinality(CountedIn(K))' = Cardinality(CountedIn(K)) + One(c) - One(c)
    BY <2>1, <2>2, CountStep
  <2>4. One(c) \in Int /\ Cardinality(CountedIn(K)) \in Int BY CountRange DEF One
  <2> QED BY <2>3, <2>4
<1> QED BY <1>2, <1>3, <1>4

\* A move that leaves the counters alone keeps the invariant.
LEMMA MovedKeeps ==
    ASSUME IInv, NEW p \in Procs, NEW y, NEW n, NEW ms, Moved(p, y, n, ms), Tells(at[p], y, ms),
           UNCHANGED <<sizes, counters, lost>>,
           requests' \in 0..MaxRequests, free' \in [Kinds -> [Sizes -> Nat]],
           \A k \in Kinds, m \in Sizes \ GoodSizes : free'[k][m] = 0
    PROVE  IInv'
<1>1. /\ \A q \in Procs : Agrees(q)'
      /\ \A K \in {Shared, Pipe} : Cardinality(CountedIn(K))' = Cardinality(CountedIn(K))
  BY MovedAgrees DEF counters
<1>2. BufTypeOK' BY DEF IInv, BufTypeOK, Moved, sizes, counters
<1>3. todo' \in [Procs -> Seq(Ops)]
  <2>1. ms \in Seq(Ops)
    <3>1. CASE ms = <<>> BY <3>1, EmptySeq
    <3>2. CASE ms # <<>> BY <3>2 DEF Tells, WellFormed
    <3> QED BY <3>1, <3>2
  <2> QED BY <2>1 DEF IInv, Moved
<1>4. SharedCount' /\ PipeCount' BY <1>1 DEF IInv, SharedCount, PipeCount, counters
<1>5. PipeGaugeInRange' BY DEF IInv, PipeGaugeInRange, counters
<1> QED BY <1>1, <1>2, <1>3, <1>4, <1>5 DEF IInv
-----------------------------------------------------------------------------
(* Get and Put. *)

\* Get returns an object that was Put.
LEMMA GetOldKeeps ==
    ASSUME IInv, NEW p \in Procs, NEW k \in Kinds, NEW n \in Sizes, NEW ms, todo[p] = <<>>,
           GetOld(p, k, n, ms), Tells(at[p], k, ms),
           UNCHANGED <<sizes, counters, lost>>, requests' \in 0..MaxRequests
    PROVE  IInv'
<1>1. free \in [Kinds -> [Sizes -> Nat]] /\ \A j \in Kinds, m \in Sizes \ GoodSizes : free[j][m] = 0
  BY DEF IInv, BufTypeOK
<1>2. free[k] \in [Sizes -> Nat] /\ free[k][n] \in Nat /\ free[k][n] > 0 BY <1>1 DEF GetOld
<1>3. n \in GoodSizes
  <2>1. n \in Sizes \ GoodSizes => free[k][n] = 0 BY <1>1
  <2> QED BY <1>2, <2>1
<1> DEFINE row == [free[k] EXCEPT ![n] = @ - 1]
<1>4. row \in [Sizes -> Nat] /\ \A m \in Sizes : m # n => row[m] = free[k][m] BY <1>2
<1>5. free' = [free EXCEPT ![k] = row] BY DEF GetOld
<1> HIDE DEF row
<1>6. free' \in [Kinds -> [Sizes -> Nat]] BY <1>1, <1>4, <1>5
<1>7. \A j \in Kinds, m \in Sizes \ GoodSizes : free'[j][m] = 0 BY <1>1, <1>3, <1>4, <1>5
<1>8. Moved(p, k, n, ms) BY <1>3 DEF GetOld, Moved, Kinds, Places
<1> QED BY <1>6, <1>7, <1>8, MovedKeeps

\* Get finds none.
LEMMA GetNewKeeps ==
    ASSUME IInv, NEW p \in Procs, NEW k \in Kinds, NEW ms, todo[p] = <<>>,
           GetNew(p, k, ms), Tells(at[p], k, ms),
           UNCHANGED <<sizes, counters, lost>>, requests' \in 0..MaxRequests
    PROVE  IInv'
<1>1. SizeOf(k) \in GoodSizes BY DEF IInv, BufTypeOK, SizeOf
<1>2. Moved(p, k, SizeOf(k), ms) BY <1>1 DEF GetNew, Moved, Kinds, Places
<1>3. /\ free' \in [Kinds -> [Sizes -> Nat]]
      /\ \A j \in Kinds, m \in Sizes \ GoodSizes : free'[j][m] = 0
  BY DEF GetNew, IInv, BufTypeOK
<1> QED BY <1>2, <1>3, MovedKeeps

\* Put.
LEMMA PutBackKeeps ==
    ASSUME IInv, NEW p \in Procs, NEW k \in Kinds, NEW ms, NEW x \in Places \ Kinds,
           at[p] = k, todo[p] = <<>>, PutBack(p, k, ms, x), Tells(k, x, ms),
           UNCHANGED <<sizes, counters, lost>>, requests' \in 0..MaxRequests
    PROVE  IInv'
<1>1. free \in [Kinds -> [Sizes -> Nat]] /\ \A j \in Kinds, m \in Sizes \ GoodSizes : free[j][m] = 0
  BY DEF IInv, BufTypeOK
<1>2. PICK n \in GoodSizes : n = buf[p] BY DEF IInv, Agrees
<1>3. n \in Sizes /\ free[k] \in [Sizes -> Nat] /\ free[k][n] \in Nat BY <1>1 DEF GoodSizes
<1> DEFINE row == [free[k] EXCEPT ![n] = @ + 1]
<1>4. row \in [Sizes -> Nat] /\ \A m \in Sizes : m # n => row[m] = free[k][m] BY <1>3
<1>5. free' = [free EXCEPT ![k] = row] BY <1>2 DEF PutBack
<1> HIDE DEF row
<1>6. free' \in [Kinds -> [Sizes -> Nat]] BY <1>1, <1>4, <1>5
<1>7. \A j \in Kinds, m \in Sizes \ GoodSizes : free'[j][m] = 0 BY <1>1, <1>4, <1>5
<1>8. Moved(p, x, 0, ms) BY DEF PutBack, Moved
<1> QED BY <1>6, <1>7, <1>8, MovedKeeps

\* What each of the functions says.
LEMMA MetricsTell ==
    /\ Tells("idle", "writer", metricsBufIOWriter(Up))
    /\ Tells("idle", "writer", metricsBufIOWriterNew)
    /\ \A x \in {"body", "idle"} : Tells("writer", x, metricsBufIOWriter(Down))
    /\ Tells("body", "pipe", metricsUpPipeCopy)
    /\ \A x \in {"await", "idle"} : Tells("pipe", x, metricsDownPipeCopy)
    /\ Tells("await", "reader", metricsBufIOReader(Up))
    /\ Tells("await", "reader", metricsBufIOReaderNew)
    /\ Tells("reader", "idle", metricsBufIOReader(Down))
    /\ \A x \in {"await", "idle"} : Tells("body", x, <<>>)
<1>1. /\ "reader" \in Kinds /\ "writer" \in Kinds /\ "pipe" \in Kinds
      /\ Up \in {Up, Down} /\ Down \in {Up, Down} /\ Up # Down
  BY DEF Kinds, Up, Down
<1>2. ASSUME NEW k \in Kinds, NEW v \in {Up, Down}, NEW x, NEW y,
             \A K \in {Shared, Pipe} :
                IF k \in K THEN (v = Up <=> y \in K) /\ (v = Down <=> x \in K)
                           ELSE x \in K <=> y \in K
      PROVE  Tells(x, y, Move(k, v)) /\ (v = Up => Tells(x, y, New(k)))
  <2>1. /\ WellFormed(Move(k, v)) /\ Move(k, v) # <<>> /\ Head(Move(k, v)) = AddInUse(k, v)
        /\ WellFormed(New(k)) /\ New(k) # <<>> /\ Head(New(k)) = AddInUse(k, Up)
    BY MetricsWellFormed
  <2>2. Tells(x, y, Move(k, v)) BY <1>2, <2>1 DEF Tells
  <2>3. ASSUME v = Up PROVE Tells(x, y, New(k)) BY <1>2, <2>1, <2>3 DEF Tells
  <2> QED BY <2>2, <2>3
<1>3. ASSUME NEW x \in {"idle", "body", "await"}
      PROVE  /\ Tells(x, "writer", Move("reader", Up)) /\ Tells(x, "writer", New("writer"))
             /\ Tells(x, "reader", Move("reader", Up)) /\ Tells(x, "reader", New("reader"))
             /\ Tells("writer", x, Move("reader", Down)) /\ Tells("reader", x, Move("reader", Down))
             /\ Tells(x, "pipe", Move("pipe", Up)) /\ Tells("pipe", x, Move("pipe", Down))
  <2>1. /\ x \notin Shared /\ x \notin Pipe /\ "writer" \in Shared /\ "reader" \in Shared
        /\ "pipe" \in Pipe /\ "pipe" \notin Shared /\ "reader" \notin Pipe /\ "writer" \notin Pipe
    BY DEF Shared, Pipe
  <2>2. Tells(x, "writer", Move("reader", Up)) BY <1>1, <1>2, <2>1
  <2>3. Tells(x, "writer", New("writer")) BY <1>1, <1>2, <2>1
  <2>4. Tells(x, "reader", Move("reader", Up)) BY <1>1, <1>2, <2>1
  <2>5. Tells(x, "reader", New("reader")) BY <1>1, <1>2, <2>1
  <2>6. Tells("writer", x, Move("reader", Down)) BY <1>1, <1>2, <2>1
  <2>7. Tells("reader", x, Move("reader", Down)) BY <1>1, <1>2, <2>1
  <2>8. Tells(x, "pipe", Move("pipe", Up)) BY <1>1, <1>2, <2>1
  <2>9. Tells("pipe", x, Move("pipe", Down)) BY <1>1, <1>2, <2>1
  <2> QED BY <2>2, <2>3, <2>4, <2>5, <2>6, <2>7, <2>8, <2>9
<1>4. \A x \in {"await", "idle"} : Tells("body", x, <<>>) BY DEF Tells, Shared, Pipe
<1> QED BY <1>3, <1>4 DEF metricsBufIOWriter, metricsBufIOWriterNew, metricsUpPipeCopy,
           metricsDownPipeCopy, metricsBufIOReader, metricsBufIOReaderNew
-----------------------------------------------------------------------------
(* The steps. *)

\* Every step of a request that acquires or releases an object or goes on without one.
LEMMA RequestKeeps ==
    ASSUME IInv, NEW p \in Procs,
           \/ AcquireBufIOWriter(p) \/ ReleaseBufIOWriter(p)
           \/ WriteFixedBody(p) \/ PipeCopyBegin(p) \/ PipeCopyEnd(p)
           \/ AcquireBufIOReader(p) \/ ReleaseBufIOReader(p)
    PROVE  IInv'
<1>1. "reader" \in Kinds /\ "writer" \in Kinds /\ "pipe" \in Kinds BY DEF Kinds
<1>2. "body" \in Places \ Kinds /\ "await" \in Places \ Kinds /\ "idle" \in Places \ Kinds
  BY DEF Kinds, Places
<1>3. requests \in 0..MaxRequests BY DEF IInv, BufTypeOK
<1>4. CASE AcquireBufIOWriter(p)
  <2>1. /\ at[p] = "idle" /\ todo[p] = <<>> /\ UNCHANGED <<sizes, counters, lost>>
        /\ requests' \in 0..MaxRequests
    BY <1>3, <1>4, BufAssumption DEF BufAssumption, AcquireBufIOWriter, Ready
  <2>2. ASSUME NEW n \in Sizes, GetOld(p, "writer", n, metricsBufIOWriter(Up)) PROVE IInv'
    BY <1>1, <2>1, <2>2, GetOldKeeps, MetricsTell
  <2>3. CASE GetNew(p, "writer", metricsBufIOWriterNew)
    BY <1>1, <2>1, <2>3, GetNewKeeps, MetricsTell
  <2> QED BY <1>4, <2>2, <2>3 DEF AcquireBufIOWriter
<1>5. CASE ReleaseBufIOWriter(p)
  <2>1. at[p] = "writer" /\ todo[p] = <<>> /\ UNCHANGED <<sizes, counters, lost, requests>>
    BY <1>5 DEF ReleaseBufIOWriter, Ready
  <2>2. PICK x \in {"body", "idle"} : PutBack(p, "writer", metricsBufIOWriter(Down), x)
    BY <1>5 DEF ReleaseBufIOWriter
  <2>3. Tells("writer", x, metricsBufIOWriter(Down)) /\ x \in Places \ Kinds BY <1>2, MetricsTell
  <2> QED BY <1>1, <1>3, <2>1, <2>2, <2>3, PutBackKeeps
<1>6. CASE WriteFixedBody(p)
  <2>1. /\ at[p] = "body" /\ todo[p] = <<>>
        /\ UNCHANGED <<sizes, free, counters, buf, todo, lost, requests>>
    BY <1>6 DEF WriteFixedBody, Ready
  <2>2. PICK x \in {"await", "idle"} : at' = [at EXCEPT ![p] = x] BY <1>6 DEF WriteFixedBody
  <2>3. buf' = [buf EXCEPT ![p] = buf[p]] /\ todo' = [todo EXCEPT ![p] = <<>>]
    BY <2>1 DEF IInv, BufTypeOK
  <2>4. buf[p] \in GoodSizes \union {0} BY DEF IInv, BufTypeOK
  <2>5. Moved(p, x, buf[p], <<>>) BY <1>2, <2>1, <2>2, <2>3, <2>4 DEF Moved
  <2>6. Tells(at[p], x, <<>>) BY <2>1, MetricsTell
  <2>7. /\ free' \in [Kinds -> [Sizes -> Nat]]
        /\ \A j \in Kinds, m \in Sizes \ GoodSizes : free'[j][m] = 0
    BY <2>1 DEF IInv, BufTypeOK
  <2> QED BY <1>3, <2>1, <2>5, <2>6, <2>7, MovedKeeps
<1>7. CASE PipeCopyBegin(p)
  <2>1. at[p] = "body" /\ todo[p] = <<>> /\ UNCHANGED <<sizes, counters, lost, requests>>
    BY <1>7 DEF PipeCopyBegin, Ready
  <2>2. ASSUME NEW n \in Sizes, GetOld(p, "pipe", n, metricsUpPipeCopy) PROVE IInv'
    BY <1>1, <1>3, <2>1, <2>2, GetOldKeeps, MetricsTell
  <2>3. CASE GetNew(p, "pipe", metricsUpPipeCopy)
    BY <1>1, <1>3, <2>1, <2>3, GetNewKeeps, MetricsTell
  <2> QED BY <1>7, <2>2, <2>3 DEF PipeCopyBegin
<1>8. CASE PipeCopyEnd(p)
  <2>1. at[p] = "pipe" /\ todo[p] = <<>> /\ UNCHANGED <<sizes, counters, lost, requests>>
    BY <1>8 DEF PipeCopyEnd, Ready
  <2>2. PICK x \in {"await", "idle"} : PutBack(p, "pipe", metricsDownPipeCopy, x)
    BY <1>8 DEF PipeCopyEnd
  <2>3. Tells("pipe", x, metricsDownPipeCopy) /\ x \in Places \ Kinds BY <1>2, MetricsTell
  <2> QED BY <1>1, <1>3, <2>1, <2>2, <2>3, PutBackKeeps
<1>9. CASE AcquireBufIOReader(p)
  <2>1. at[p] = "await" /\ todo[p] = <<>> /\ UNCHANGED <<sizes, counters, lost, requests>>
    BY <1>9 DEF AcquireBufIOReader, Ready
  <2>2. ASSUME NEW n \in Sizes, GetOld(p, "reader", n, metricsBufIOReader(Up)) PROVE IInv'
    BY <1>1, <1>3, <2>1, <2>2, GetOldKeeps, MetricsTell
  <2>3. CASE GetNew(p, "reader", metricsBufIOReaderNew)
    BY <1>1, <1>3, <2>1, <2>3, GetNewKeeps, MetricsTell
  <2> QED BY <1>9, <2>2, <2>3 DEF AcquireBufIOReader
<1>10. CASE ReleaseBufIOReader(p)
  <2>1. /\ at[p] = "reader" /\ todo[p] = <<>> /\ UNCHANGED <<sizes, counters, lost, requests>>
        /\ PutBack(p, "reader", metricsBufIOReader(Down), "idle")
    BY <1>10 DEF ReleaseBufIOReader, Ready
  <2> QED BY <1>1, <1>2, <1>3, <2>1, PutBackKeeps, MetricsTell
<1> QED BY <1>4, <1>5, <1>6, <1>7, <1>8, <1>9, <1>10

\* A reader that no one releases stays counted, as lost.
LEMMA LoseKeeps ==
    ASSUME IInv, NEW p \in Procs, LoseReader(p) PROVE IInv'
<1>1. /\ at[p] = "reader" /\ todo[p] = <<>>
      /\ at' = [at EXCEPT ![p] = "idle"] /\ buf' = [buf EXCEPT ![p] = 0] /\ lost' = lost + 1
      /\ UNCHANGED <<sizes, free, counters, todo, requests>>
  BY DEF LoseReader, Ready
<1>2. BufTypeOK' BY <1>1 DEF IInv, BufTypeOK, Places, sizes, counters
<1>3. todo' \in [Procs -> Seq(Ops)] BY <1>1 DEF IInv
<1>4. /\ at'[p] = "idle" /\ buf'[p] = 0 /\ todo'[p] = <<>>
      /\ \A q \in Procs \ {p} : Still(q)
  BY <1>1 DEF Still, IInv, BufTypeOK, counters
<1>5. \A q \in Procs \ {p} : Agrees(q)' /\ \A K : Counted(q, K)' <=> Counted(q, K)
  BY <1>4, StillAgrees DEF IInv
<1>6. \A x, K : ~Due(p, x, K) /\ ~Due(p, x, K)' BY <1>1, <1>4 DEF Due
<1>7. Agrees(p)'
  <2>1. WellFormed(todo'[p]) BY <1>1 DEF IInv, Agrees
  <2> QED BY <1>4, <1>6, <2>1 DEF Agrees, Kinds
<1>8. \A K : (Counted(p, K) <=> "reader" \in K) /\ (Counted(p, K)' <=> "idle" \in K)
  BY <1>1, <1>4, <1>6 DEF Counted
<1>9. PICK yes \in BOOLEAN, no \in BOOLEAN : yes /\ ~no
  <2>1. TRUE \in BOOLEAN /\ FALSE \in BOOLEAN OBVIOUS
  <2> QED BY <2>1
<1>10. One(yes) = 1 /\ One(no) = 0 BY <1>9 DEF One
<1>11. \A K : Cardinality(CountedIn(K)) \in Int BY CountRange
<1>12. Cardinality(CountedIn(Shared))' = Cardinality(CountedIn(Shared)) - 1
  <2>1. (yes <=> Counted(p, Shared)) /\ (no <=> Counted(p, Shared)') BY <1>8, <1>9 DEF Shared
  <2>2. Cardinality(CountedIn(Shared))' = Cardinality(CountedIn(Shared)) + One(no) - One(yes)
    BY <1>5, <2>1, CountStep
  <2> QED BY <1>10, <1>11, <2>2
<1>13. Cardinality(CountedIn(Pipe))' = Cardinality(CountedIn(Pipe))
  <2>1. (no <=> Counted(p, Pipe)) /\ (no <=> Counted(p, Pipe)') BY <1>8, <1>9 DEF Pipe
  <2>2. Cardinality(CountedIn(Pipe))' = Cardinality(CountedIn(Pipe)) + One(no) - One(no)
    BY <1>5, <2>1, CountStep
  <2> QED BY <1>10, <1>11, <2>2
<1>14. SharedCount'
  <2>1. inUse["reader"] \in Int /\ inUse["writer"] \in Int /\ lost \in Nat
    BY DEF IInv, BufTypeOK, Kinds
  <2> QED BY <1>1, <1>11, <1>12, <2>1 DEF IInv, SharedCount, counters
<1>15. PipeCount' BY <1>1, <1>13 DEF IInv, PipeCount, counters
<1>16. PipeGaugeInRange' BY <1>1 DEF IInv, PipeGaugeInRange, counters
<1> QED BY <1>2, <1>3, <1>5, <1>7, <1>14, <1>15, <1>16 DEF IInv

\* A setter changes neither the in-use counters nor what a goroutine has.
LEMMA SetterKeeps ==
    ASSUME IInv, NEW n \in Sizes, BufferSize(n) \/ PipeCopyBufferSize(n) PROVE IInv'
<1>1. UNCHANGED <<inUse, at, buf, todo, loaded, lost, requests>>
  BY DEF BufferSize, PipeCopyBufferSize, counters
<1>2. \A q \in Procs : Agrees(q)' /\ \A K : Counted(q, K)' <=> Counted(q, K)
  <2>1. \A q \in Procs : Still(q) BY <1>1 DEF Still
  <2> QED BY <2>1, StillAgrees DEF IInv
<1>3. CountedIn(Shared)' = CountedIn(Shared) /\ CountedIn(Pipe)' = CountedIn(Pipe)
  BY <1>2 DEF CountedIn
<1>4. SharedCount' /\ PipeCount' BY <1>1, <1>3 DEF IInv, SharedCount, PipeCount
<1>5. todo' \in [Procs -> Seq(Ops)] BY <1>1 DEF IInv
<1>6. CASE BufferSize(n)
  <2>1. bufSize' \in GoodSizes
    BY <1>6, BufAssumption DEF BufAssumption, BufferSize, BufSizeOf, IInv, BufTypeOK, GoodSizes
  <2>2. UNCHANGED <<pipeSize, free, idle, gauge>> BY <1>6 DEF BufferSize, counters
  <2>3. BufTypeOK' BY <1>1, <2>1, <2>2 DEF IInv, BufTypeOK
  <2>4. PipeGaugeInRange' BY <2>2 DEF IInv, PipeGaugeInRange
  <2> QED BY <1>2, <1>4, <1>5, <2>3, <2>4 DEF IInv
<1>7. CASE PipeCopyBufferSize(n)
  <2>1. CASE n < MinSize
    <3>1. UNCHANGED <<bufSize, pipeSize, free, idle, gauge>> BY <1>7, <2>1 DEF PipeCopyBufferSize
    <3>2. BufTypeOK' BY <1>1, <3>1 DEF IInv, BufTypeOK
    <3>3. PipeGaugeInRange' BY <3>1 DEF IInv, PipeGaugeInRange
    <3> QED BY <1>2, <1>4, <1>5, <3>2, <3>3 DEF IInv
  <2>2. CASE ~(n < MinSize)
    <3>1. n \in GoodSizes BY <2>2, BufAssumption DEF BufAssumption, GoodSizes
    <3>2. /\ bufSize' = bufSize /\ pipeSize' = n
          /\ free' = [free EXCEPT !["pipe"] = [s \in Sizes |-> 0]]
          /\ idle' = [idle EXCEPT !["pipe"] = 0]
          /\ gauge' = [gauge EXCEPT !["pipe"].idle = 0]
      BY <1>7, <2>2 DEF PipeCopyBufferSize
    <3>3. /\ free' \in [Kinds -> [Sizes -> Nat]] /\ idle' \in [Kinds -> Int]
          /\ \A k \in Kinds, m \in Sizes \ GoodSizes : free'[k][m] = 0
      <4>1. /\ free \in [Kinds -> [Sizes -> Nat]] /\ idle \in [Kinds -> Int]
            /\ \A k \in Kinds, m \in Sizes \ GoodSizes : free[k][m] = 0
        BY DEF IInv, BufTypeOK
      <4> DEFINE none == [s \in Sizes |-> 0]
      <4>2. none \in [Sizes -> Nat] /\ \A m \in Sizes : none[m] = 0 OBVIOUS
      <4>3. free' = [free EXCEPT !["pipe"] = none] BY <3>2
      <4> HIDE DEF none
      <4>4. free' \in [Kinds -> [Sizes -> Nat]] BY <4>1, <4>2, <4>3
      <4>5. \A k \in Kinds, m \in Sizes \ GoodSizes : free'[k][m] = 0
        BY <4>1, <4>2, <4>3
      <4> QED BY <3>2, <4>1, <4>4, <4>5
    <3>4. /\ gauge' \in [Kinds -> [inUse : Int, idle : Int]]
          /\ gauge'["pipe"].inUse = gauge["pipe"].inUse
      <4>1. gauge \in [Kinds -> [inUse : Int, idle : Int]] /\ "pipe" \in Kinds
        BY DEF IInv, BufTypeOK, Kinds
      <4> DEFINE g == [gauge["pipe"] EXCEPT !.idle = 0]
      <4>2. g \in [inUse : Int, idle : Int] /\ g.inUse = gauge["pipe"].inUse BY <4>1
      <4>3. gauge' = [gauge EXCEPT !["pipe"] = g] BY <3>2
      <4> HIDE DEF g
      <4> QED BY <4>1, <4>2, <4>3
    <3>5. BufTypeOK' BY <1>1, <3>1, <3>2, <3>3, <3>4 DEF IInv, BufTypeOK
    <3>6. PipeGaugeInRange' BY <3>4 DEF IInv, PipeGaugeInRange
    <3> QED BY <1>2, <1>4, <1>5, <3>5, <3>6 DEF IInv
  <2> QED BY <2>1, <2>2
<1> QED BY <1>6, <1>7
\* What an operation o of goroutine p does to the counters and the gauges.
Executes(p, o) ==
    /\ o.op = "addInUse" => inUse' = [inUse EXCEPT ![o.kind] = @ + o.by]
    /\ o.op # "addInUse" => inUse' = inUse
    /\ o.op = "addIdle" => idle' = [idle EXCEPT ![o.kind] = @ + o.by]
    /\ o.op # "addIdle" => idle' = idle
    /\ \E v \in Int : loaded' = [loaded EXCEPT ![p] = v]
    /\ o.op = "loadInUse" => loaded'[p] = inUse[o.kind]
    /\ gauge' \in [Kinds -> [inUse : Int, idle : Int]]
    /\ IF o.op = "setInUse" /\ o.kind = "pipe" THEN gauge'["pipe"].inUse = loaded[p]
                                               ELSE gauge'["pipe"].inUse = gauge["pipe"].inUse

\* An operation is one of six.
LEMMA MetricEffect ==
    ASSUME IInv, NEW p \in Procs, MetricStep(p)
    PROVE  Executes(p, Head(todo[p]))
<1>1. PICK o \in Ops : o = Head(todo[p])
  BY EmptySeq DEF MetricStep, IInv
<1>2. /\ o.op \in {"addInUse", "addIdle", "loadInUse", "setInUse", "loadIdle", "setIdle"}
      /\ o.kind \in Kinds /\ o.by \in Int
  BY DEF Ops
<1>3. /\ inUse \in [Kinds -> Int] /\ idle \in [Kinds -> Int] /\ loaded \in [Procs -> Int]
      /\ gauge \in [Kinds -> [inUse : Int, idle : Int]] /\ "pipe" \in Kinds
  BY DEF IInv, BufTypeOK, Kinds
<1>4. /\ inUse' = IF o.op = "addInUse" THEN [inUse EXCEPT ![o.kind] = @ + o.by] ELSE inUse
      /\ idle' = IF o.op = "addIdle" THEN [idle EXCEPT ![o.kind] = @ + o.by] ELSE idle
  BY <1>1 DEF MetricStep
<1>5. /\ \E v \in Int : loaded' = [loaded EXCEPT ![p] = v]
      /\ o.op = "loadInUse" => loaded'[p] = inUse[o.kind]
  <2>1. loaded' = CASE o.op = "loadInUse" -> [loaded EXCEPT ![p] = inUse[o.kind]]
                    [] o.op = "loadIdle" -> [loaded EXCEPT ![p] = idle[o.kind]]
                    [] o.op \in {"setInUse", "setIdle"} -> [loaded EXCEPT ![p] = 0]
                    [] OTHER -> loaded
    BY <1>1 DEF MetricStep
  <2>2. CASE o.op = "loadInUse" BY <1>2, <1>3, <2>1, <2>2
  <2>3. CASE o.op = "loadIdle" BY <1>2, <1>3, <2>1, <2>3
  <2>4. CASE o.op \in {"setInUse", "setIdle"}
    <3>1. o.op # "loadInUse" /\ o.op # "loadIdle" BY <2>4
    <3>2. PICK z \in Int : z = 0 OBVIOUS
    <3>3. loaded' = [loaded EXCEPT ![p] = z] BY <2>1, <2>4, <3>1, <3>2
    <3> QED BY <3>1, <3>3
  <2>5. CASE o.op \in {"addInUse", "addIdle"}
    <3>1. loaded' = loaded BY <2>1, <2>5
    <3>2. loaded = [loaded EXCEPT ![p] = loaded[p]] /\ loaded[p] \in Int BY <1>3
    <3> QED BY <2>5, <3>1, <3>2
  <2> QED BY <1>2, <2>2, <2>3, <2>4, <2>5
<1>6. /\ gauge' \in [Kinds -> [inUse : Int, idle : Int]]
      /\ IF o.op = "setInUse" /\ o.kind = "pipe" THEN gauge'["pipe"].inUse = loaded[p]
                                                 ELSE gauge'["pipe"].inUse = gauge["pipe"].inUse
  <2>1. gauge' = CASE o.op = "setInUse" -> [gauge EXCEPT ![o.kind].inUse = loaded[p]]
                   [] o.op = "setIdle" -> [gauge EXCEPT ![o.kind].idle = loaded[p]]
                   [] OTHER -> gauge
    BY <1>1 DEF MetricStep
  <2>2. gauge[o.kind] \in [inUse : Int, idle : Int] /\ loaded[p] \in Int BY <1>2, <1>3
  <2>3. CASE o.op = "setInUse"
    <3> DEFINE g == [gauge[o.kind] EXCEPT !.inUse = loaded[p]]
    <3>1. g \in [inUse : Int, idle : Int] /\ g.inUse = loaded[p] BY <2>2
    <3>2. gauge' = [gauge EXCEPT ![o.kind] = g] BY <2>1, <2>3
    <3> HIDE DEF g
    <3> QED BY <1>2, <1>3, <2>3, <3>1, <3>2
  <2>4. CASE o.op = "setIdle"
    <3> DEFINE g == [gauge[o.kind] EXCEPT !.idle = loaded[p]]
    <3>1. g \in [inUse : Int, idle : Int] /\ g.inUse = gauge[o.kind].inUse BY <2>2
    <3>2. gauge' = [gauge EXCEPT ![o.kind] = g] BY <2>1, <2>4
    <3> HIDE DEF g
    <3> QED BY <1>2, <1>3, <2>4, <3>1, <3>2
  <2>5. CASE o.op \notin {"setInUse", "setIdle"} BY <1>3, <2>1, <2>5
  <2> QED BY <2>3, <2>4, <2>5
<1> QED BY <1>1, <1>4, <1>5, <1>6 DEF Executes

\* An operation on an in-use counter counts p, or stops counting it.
LEMMA MetricKeeps ==
    ASSUME IInv, NEW p \in Procs, MetricStep(p) PROVE IInv'
<1>1. /\ todo[p] # <<>> /\ todo' = [todo EXCEPT ![p] = Tail(todo[p])]
      /\ UNCHANGED <<sizes, free, at, buf, lost, requests>>
  BY DEF MetricStep
<1>2. WellFormed(todo[p]) BY DEF IInv, Agrees
<1>3. PICK o \in Ops : o = Head(todo[p]) BY <1>1, <1>2, TailWellFormed
<1>4. o.kind \in Kinds /\ o.by \in Int BY DEF Ops
<1>5. /\ todo'[p] = Tail(todo[p]) /\ WellFormed(todo'[p])
      /\ todo'[p] # <<>> =>
            /\ Head(todo'[p]).op # "addInUse"
            /\ Head(todo'[p]).op = "setInUse" => o.op = "loadInUse" /\ o.kind = Head(todo'[p]).kind
  <2>1. todo'[p] = Tail(todo[p]) BY <1>1 DEF IInv
  <2> QED BY <1>1, <1>2, <1>3, <2>1, TailWellFormed
<1>6. Executes(p, o) BY <1>3, MetricEffect
<1>7. \A q \in Procs \ {p} : Agrees(q)' /\ \A K : Counted(q, K)' <=> Counted(q, K)
  <2>1. \A q \in Procs \ {p} : Still(q)
    <3>1. \A q \in Procs \ {p} : loaded'[q] = loaded[q] BY <1>6 DEF Executes, IInv, BufTypeOK
    <3> QED BY <1>1, <3>1 DEF Still, IInv
  <2> QED BY <2>1, StillAgrees DEF IInv
<1>8. \A K : ~Due(p, "addInUse", K)' /\ (Counted(p, K)' <=> at[p] \in K)
  BY <1>1, <1>5 DEF Due, Counted
<1>9. Agrees(p)'
  <2>1. ASSUME Due(p, "setInUse", Pipe)' PROVE loaded'[p] \in 0..Cardinality(Procs)
    <3>1. o.op = "loadInUse" /\ o.kind = "pipe" BY <1>5, <2>1 DEF Due, Pipe
    <3>2. loaded'[p] = Cardinality(CountedIn(Pipe)) BY <1>6, <3>1 DEF Executes, IInv, PipeCount
    <3> QED BY <3>2, CountRange
  <2>2. at'[p] \in Kinds => buf'[p] \in GoodSizes BY <1>1 DEF IInv, Agrees
  <2> QED BY <1>5, <1>8, <2>1, <2>2 DEF Agrees
<1>10. ASSUME NEW K \in {Shared, Pipe}
       PROVE  Cardinality(CountedIn(K))' = Cardinality(CountedIn(K))
                 + IF o.op = "addInUse" /\ o.kind \in K THEN o.by ELSE 0
  <2>1. PICK c \in BOOLEAN, d \in BOOLEAN : (c <=> Counted(p, K)) /\ (d <=> Counted(p, K)')
    <3>1. TRUE \in BOOLEAN /\ FALSE \in BOOLEAN OBVIOUS
    <3>2. PICK c \in BOOLEAN : c <=> Counted(p, K) BY <3>1
    <3>3. PICK d \in BOOLEAN : d <=> Counted(p, K)' BY <3>1
    <3> QED BY <3>2, <3>3
  <2>2. Cardinality(CountedIn(K))' = Cardinality(CountedIn(K)) + One(d) - One(c)
    BY <1>7, <2>1, CountStep
  <2>3. Cardinality(CountedIn(K)) \in Int BY CountRange
  <2>4. Due(p, "addInUse", K) <=> o.op = "addInUse" /\ o.kind \in K BY <1>1, <1>3 DEF Due
  <2>5. CASE o.op = "addInUse" /\ o.kind \in K
    <3>1. o.by = IF at[p] \in K THEN Up ELSE Down BY <1>3, <2>4, <2>5 DEF IInv, Agrees
    <3>2. c <=> o.by = Down BY <1>3, <2>1, <2>4, <2>5 DEF Counted
    <3>3. d <=> at[p] \in K BY <1>8, <2>1
    <3>4. One(d) - One(c) = o.by
      <4>1. CASE at[p] \in K BY <3>1, <3>2, <3>3, <4>1 DEF One, Up, Down
      <4>2. CASE at[p] \notin K BY <3>1, <3>2, <3>3, <4>2 DEF One, Up, Down
      <4> QED BY <4>1, <4>2
    <3>5. One(c) \in Int /\ One(d) \in Int BY DEF One
    <3> QED BY <2>2, <2>3, <2>5, <3>4, <3>5
  <2>6. CASE ~(o.op = "addInUse" /\ o.kind \in K)
    <3>1. c <=> d BY <1>8, <2>1, <2>4, <2>6 DEF Counted
    <3> QED BY <2>2, <2>3, <2>6, <3>1 DEF One
  <2> QED BY <2>5, <2>6
<1>11. /\ inUse \in [Kinds -> Int] /\ lost \in Nat /\ lost' = lost
       /\ "reader" \in Kinds /\ "writer" \in Kinds /\ "pipe" \in Kinds
       /\ Cardinality(CountedIn(Shared)) \in Int /\ Cardinality(CountedIn(Pipe)) \in Int
  BY <1>1, CountRange DEF IInv, BufTypeOK, Kinds
<1>12. PipeCount'
  <2>1. inUse'["pipe"] = inUse["pipe"] + IF o.op = "addInUse" /\ o.kind = "pipe" THEN o.by ELSE 0
    BY <1>4, <1>6, <1>11 DEF Executes
  <2>2. o.kind \in Pipe <=> o.kind = "pipe" BY DEF Pipe
  <2>3. Cardinality(CountedIn(Pipe))' = Cardinality(CountedIn(Pipe))
           + IF o.op = "addInUse" /\ o.kind \in Pipe THEN o.by ELSE 0
    BY <1>10
  <2> QED BY <2>1, <2>2, <2>3 DEF IInv, PipeCount
<1>13. SharedCount'
  <2>1. inUse'["reader"] + inUse'["writer"] = inUse["reader"] + inUse["writer"]
           + IF o.op = "addInUse" /\ o.kind \in Shared THEN o.by ELSE 0
    <3>1. CASE o.op # "addInUse" BY <1>6, <1>11, <3>1 DEF Executes
    <3>2. CASE o.op = "addInUse"
      <4>1. inUse' = [inUse EXCEPT ![o.kind] = inUse[o.kind] + o.by] BY <1>6, <3>2 DEF Executes
      <4>2. inUse["reader"] \in Int /\ inUse["writer"] \in Int BY <1>11
      <4>3. CASE o.kind = "reader" BY <1>4, <1>11, <3>2, <4>1, <4>2, <4>3 DEF Shared
      <4>4. CASE o.kind = "writer" BY <1>4, <1>11, <3>2, <4>1, <4>2, <4>4 DEF Shared
      <4>5. CASE o.kind = "pipe" BY <1>4, <1>11, <3>2, <4>1, <4>2, <4>5 DEF Shared
      <4> QED BY <1>4, <4>3, <4>4, <4>5 DEF Kinds
    <3> QED BY <3>1, <3>2
  <2>2. Cardinality(CountedIn(Shared))' = Cardinality(CountedIn(Shared))
           + IF o.op = "addInUse" /\ o.kind \in Shared THEN o.by ELSE 0
    BY <1>10
  <2>3. inUse["reader"] + inUse["writer"] = Cardinality(CountedIn(Shared)) + lost
    BY DEF IInv, SharedCount
  <2> QED BY <1>4, <1>11, <2>1, <2>2, <2>3 DEF SharedCount
<1>14. PipeGaugeInRange'
  <2>1. CASE o.op = "setInUse" /\ o.kind = "pipe"
    <3>1. Due(p, "setInUse", Pipe) BY <1>1, <1>3, <2>1 DEF Due, Pipe
    <3>2. loaded[p] \in 0..Cardinality(Procs) BY <3>1 DEF IInv, Agrees
    <3> QED BY <1>6, <2>1, <3>2 DEF Executes, PipeGaugeInRange
  <2>2. CASE ~(o.op = "setInUse" /\ o.kind = "pipe")
    BY <1>6, <2>2 DEF Executes, IInv, PipeGaugeInRange
  <2> QED BY <2>1, <2>2
<1>15. todo' \in [Procs -> Seq(Ops)] BY <1>1, <1>5 DEF IInv, WellFormed
<1>16. BufTypeOK'
  <2>0. inUse \in [Kinds -> Int] /\ idle \in [Kinds -> Int] /\ loaded \in [Procs -> Int]
    BY DEF IInv, BufTypeOK
  <2>1. inUse' \in [Kinds -> Int] /\ idle' \in [Kinds -> Int] /\ loaded' \in [Procs -> Int]
    <3>1. inUse' \in [Kinds -> Int] BY <1>4, <1>6, <2>0 DEF Executes
    <3>2. idle' \in [Kinds -> Int] BY <1>4, <1>6, <2>0 DEF Executes
    <3>3. loaded' \in [Procs -> Int] BY <1>6, <2>0 DEF Executes
    <3> QED BY <3>1, <3>2, <3>3
  <2>2. gauge' \in [Kinds -> [inUse : Int, idle : Int]] BY <1>6 DEF Executes
  <2> QED BY <1>1, <2>1, <2>2 DEF IInv, BufTypeOK, sizes
<1> QED BY <1>7, <1>9, <1>12, <1>13, <1>14, <1>15, <1>16 DEF IInv

\* The invariant is inductive.
LEMMA IInvNext == IInv /\ [BufNext]_vars => IInv'
<1> SUFFICES ASSUME IInv, [BufNext]_vars PROVE IInv' OBVIOUS
<1>1. CASE \E p \in Procs : MetricStep(p) BY <1>1, MetricKeeps
<1>2. CASE \E p \in Procs :
              \/ AcquireBufIOWriter(p) \/ ReleaseBufIOWriter(p)
              \/ WriteFixedBody(p) \/ PipeCopyBegin(p) \/ PipeCopyEnd(p)
              \/ AcquireBufIOReader(p) \/ ReleaseBufIOReader(p)
  BY <1>2, RequestKeeps
<1>3. CASE \E p \in Procs : LoseReader(p) BY <1>3, LoseKeeps
<1>4. CASE \E n \in Sizes : BufferSize(n) \/ PipeCopyBufferSize(n) BY <1>4, SetterKeeps
<1>5. CASE UNCHANGED vars
  <2>1. UNCHANGED <<sizes, counters, at, buf, todo, free, lost, requests>>
    BY <1>5 DEF vars, sizes, counters
  <2>2. \A q \in Procs : Agrees(q)' /\ \A K : Counted(q, K)' <=> Counted(q, K)
    <3>1. \A q \in Procs : Still(q) BY <2>1 DEF Still, counters
    <3> QED BY <3>1, StillAgrees DEF IInv
  <2>3. CountedIn(Shared)' = CountedIn(Shared) /\ CountedIn(Pipe)' = CountedIn(Pipe)
    BY <2>2 DEF CountedIn
  <2>4. SharedCount' /\ PipeCount' BY <2>1, <2>3 DEF IInv, SharedCount, PipeCount, counters
  <2>5. BufTypeOK' /\ todo' \in [Procs -> Seq(Ops)] /\ PipeGaugeInRange'
    BY <2>1 DEF IInv, BufTypeOK, PipeGaugeInRange, sizes, counters
  <2> QED BY <2>2, <2>4, <2>5 DEF IInv
<1> QED BY <1>1, <1>2, <1>3, <1>4, <1>5 DEF BufNext

-----------------------------------------------------------------------------
(* The theorems. *)

\* The inductive invariant: the in-use counters count those who have an object, but for those
\* who have yet to say that they took or returned it.
THEOREM Invariance == BufSpec => []IInv
<1>1. BufInit => IInv BY IInvInit
<1>2. IInv /\ [BufNext]_vars => IInv' BY IInvNext
<1> QED BY <1>1, <1>2, PTL DEF BufSpec

\* Type correctness: no pool ever has an object smaller than the setters accept.
THEOREM TypeCorrect == BufSpec => []BufTypeOK
<1>1. IInv => BufTypeOK BY DEF IInv
<1> QED BY <1>1, Invariance, PTL

\* Nothing is lost between the readers' and the writers' counters, although a reused writer
\* moves the readers' (metricsBufIOWriter).
THEOREM CountersTogether == BufSpec => []InUseTogether
<1>1. IInv => InUseTogether
  <2> SUFFICES ASSUME IInv, Quiet
               PROVE  inUse["reader"] + inUse["writer"] = Users("reader") + Users("writer") + lost
    BY DEF InUseTogether
  <2>1. inUse["reader"] + inUse["writer"] = Cardinality(CountedIn(Shared)) + lost
    BY DEF IInv, SharedCount
  <2> QED BY <2>1, QuietCount
<1> QED BY <1>1, Invariance, PTL

\* PipeCopy's counter is exact when no metrics function is under way.
THEOREM PipeCounterExact == BufSpec => []PipeInUseExact
<1>1. IInv => PipeInUseExact
  <2> SUFFICES ASSUME IInv, Quiet PROVE inUse["pipe"] = Users("pipe") BY DEF PipeInUseExact
  <2>1. inUse["pipe"] = Cardinality(CountedIn(Pipe)) BY DEF IInv, PipeCount
  <2> QED BY <2>1, QuietCount
<1> QED BY <1>1, Invariance, PTL

\* The published gauge of PipeCopy's buffers is never out of range, however late it is set.
THEOREM PipeGaugeTrue == BufSpec => []PipeGaugeInRange
<1>1. IInv => PipeGaugeInRange BY DEF IInv
<1> QED BY <1>1, Invariance, PTL
=============================================================================
