--------------------------- MODULE UpstreamsProofs ---------------------------
(***************************************************************************)
(* Proofs about Upstreams, for any number of goroutines, any names and any *)
(* configured lists.                                                       *)
(***************************************************************************)
EXTENDS Upstreams, SequenceTheorems, TLAPS

\* A step of goroutine p.
Step(p) ==
    \/ \E x \in Names \union {NoName} : Arrive(p, x)
    \/ RandomEmpty(p) \/ RandomSome(p) \/ RandomIndex(p)
    \/ HostMissing(p) \/ HostGiven(p)
    \/ AppendLookup(p) \/ AppendInsert(p) \/ AppendRead(p) \/ AppendStore(p)
    \/ Done(p) \/ Crash(p)

\* What Append works on is an address.
AppendsAddress ==
    \A p \in Procs : at[p] \in {"lookup", "insert", "read", "store"} => target[p] \in Addresses

\* With a configured list no goroutine gets as far as the Host, and a slice header that Random
\* has seen is still the list.
OnlyReads ==
    configured # <<>> =>
        \A p \in Procs :
            /\ at[p] \in {"idle", "random", "index", "resolved"}
            /\ at[p] = "index" => seen[p] = keys

\* Without one, Append enters an address in the map before the slice, and every slice header that
\* a goroutine may write back was made of addresses of the map.
SeenInMap ==
    configured = <<>> =>
        \A p \in Procs :
            /\ \A i \in DOMAIN seen[p] : seen[p][i] \in m
            /\ at[p] \in {"read", "store"} => target[p] \in m

IInv ==
    /\ UpstreamsTypeOK /\ AppendsAddress
    /\ ConfiguredListFixed /\ OnlyReads
    /\ KeysInMap /\ SeenInMap

-----------------------------------------------------------------------------
(* Addresses and lists. *)

\* The scheme is put in front of every name.
LEMMA SchemedType == \A x \in Names : Schemed[x] \in Addresses
BY DEF Addresses

\* What NewUpstreams makes of a list is a list of addresses, as long as the one it was given.
LEMMA NewUpstreamsList ==
    ASSUME NEW l \in Lists
    PROVE  /\ [i \in DOMAIN l |-> Schemed[l[i]]] \in Seq(Addresses)
           /\ l # <<>> => [i \in DOMAIN l |-> Schemed[l[i]]] # <<>>
<1>1. l \in Seq(Names) BY UpstreamsAssumption DEF UpstreamsAssumption
<1>2. Len(l) \in Nat /\ DOMAIN l = 1..Len(l) /\ \A i \in 1..Len(l) : l[i] \in Names BY <1>1
<1> DEFINE k == [i \in 1..Len(l) |-> Schemed[l[i]]]
<1>3. \A i \in 1..Len(l) : Schemed[l[i]] \in Addresses BY <1>2, SchemedType
<1>4. k \in Seq(Addresses) /\ Len(k) = Len(l) BY <1>2, <1>3, IsASeq
<1>5. l # <<>> => Len(l) # 0 BY <1>1, EmptySeq
<1>6. l # <<>> => k # <<>> BY <1>4, <1>5
<1> QED BY <1>2, <1>4, <1>6

-----------------------------------------------------------------------------
(* Preservation. *)

\* The initial states satisfy the invariant.
LEMMA IInvInit == UpstreamsInit => IInv
<1> SUFFICES ASSUME UpstreamsInit PROVE IInv OBVIOUS
<1> USE DEF UpstreamsInit
<1>1. configured \in Seq(Names) BY UpstreamsAssumption DEF UpstreamsAssumption
<1>2. m \subseteq Names BY <1>1
<1>3. keys \in Seq(Addresses) BY NewUpstreamsList
<1>4. UpstreamsTypeOK
  <2>1. seen \in [Procs -> Seq(Addresses)] BY EmptySeq
  <2>2. crashed \in BOOLEAN OBVIOUS
  <2> QED BY <1>2, <1>3, <2>1, <2>2 DEF UpstreamsTypeOK, Places
<1>5. KeysInMap
  <2> SUFFICES ASSUME configured = <<>> PROVE \A i \in DOMAIN keys : keys[i] \in m
    BY DEF KeysInMap
  <2>1. DOMAIN keys = {} OBVIOUS
  <2> QED BY <2>1
<1>6. SeenInMap BY DEF SeenInMap
<1> QED BY <1>4, <1>5, <1>6 DEF IInv, AppendsAddress, ConfiguredListFixed, OnlyReads

\* Every step preserves the types.
LEMMA TypeStep ==
    ASSUME UpstreamsTypeOK, AppendsAddress, NEW p \in Procs, Step(p)
    PROVE  UpstreamsTypeOK' /\ AppendsAddress'
<1> USE DEF UpstreamsTypeOK, AppendsAddress, Places
<1>1. CASE \E x \in Names \union {NoName} : Arrive(p, x) BY <1>1 DEF Arrive
<1>2. CASE RandomEmpty(p) BY <1>2 DEF RandomEmpty, Goto
<1>3. CASE RandomSome(p) BY <1>3 DEF RandomSome, ReadKeys
<1>4. CASE RandomIndex(p)
  <2>1. \A i \in DOMAIN keys : keys[i] \in Addresses BY ElementOfSeq
  <2>2. seen' \in [Procs -> Seq(Addresses)] BY <1>4, EmptySeq DEF RandomIndex
  <2>3. crashed' \in BOOLEAN BY <1>4 DEF RandomIndex
  <2>4. target' \in [Procs -> Addresses \union {NoName}] BY <1>4, <2>1 DEF RandomIndex
  <2>5. at' \in [Procs -> Places] /\ AppendsAddress' BY <1>4, <2>1 DEF RandomIndex
  <2> QED BY <1>4, <2>2, <2>3, <2>4, <2>5 DEF RandomIndex
<1>5. CASE HostMissing(p) BY <1>5 DEF HostMissing, Goto
<1>6. CASE HostGiven(p) BY <1>6, SchemedType DEF HostGiven, UseHost
<1>7. CASE AppendLookup(p) BY <1>7 DEF AppendLookup, Goto
<1>8. CASE AppendInsert(p) BY <1>8 DEF AppendInsert
<1>9. CASE AppendRead(p) BY <1>9 DEF AppendRead, ReadKeys
<1>10. CASE AppendStore(p)
  <2>1. Append(seen[p], target[p]) \in Seq(Addresses) BY <1>10 DEF AppendStore, StoreKeys
  <2> QED BY <1>10, <2>1 DEF AppendStore, StoreKeys
<1>11. CASE Done(p) BY <1>11 DEF Done
<1>12. CASE Crash(p) BY <1>12 DEF Crash
<1> QED
  BY <1>1, <1>2, <1>3, <1>4, <1>5, <1>6, <1>7, <1>8, <1>9, <1>10, <1>11, <1>12 DEF Step

\* With a configured list every step only reads it.
LEMMA FixedStep ==
    ASSUME UpstreamsTypeOK, ConfiguredListFixed, OnlyReads, NEW p \in Procs, Step(p)
    PROVE  ConfiguredListFixed' /\ OnlyReads'
<1>1. configured' = configured
  BY DEF Step, Arrive, RandomEmpty, Goto, RandomSome, ReadKeys, RandomIndex, HostMissing, HostGiven,
         UseHost, AppendLookup, AppendInsert, AppendRead, AppendStore, StoreKeys, Done, Crash
<1> SUFFICES ASSUME configured # <<>> PROVE ConfiguredListFixed' /\ OnlyReads'
  BY <1>1 DEF ConfiguredListFixed, OnlyReads
<1>2. keys = [i \in DOMAIN configured |-> Schemed[configured[i]]] /\ keys # <<>>
  BY NewUpstreamsList DEF ConfiguredListFixed, UpstreamsTypeOK
<1> USE <1>1, <1>2 DEF UpstreamsTypeOK, ConfiguredListFixed, OnlyReads
<1>3. CASE \E x \in Names \union {NoName} : Arrive(p, x) BY <1>3 DEF Arrive
<1>4. CASE RandomSome(p) BY <1>4 DEF RandomSome, ReadKeys
<1>5. CASE RandomIndex(p)
  <2>1. seen[p] = keys BY <1>5 DEF RandomIndex
  <2>2. PICK i \in DOMAIN keys :
            /\ target' = [target EXCEPT ![p] = keys[i]]
            /\ at' = [at EXCEPT ![p] = "resolved"]
            /\ crashed' = crashed
    BY <1>5, <2>1 DEF RandomIndex
  <2>3. keys' = keys BY <1>5 DEF RandomIndex
  <2>4. \A q \in Procs : at'[q] = "index" => seen'[q] = keys BY <1>5, <2>2 DEF RandomIndex
  <2> QED BY <2>2, <2>3, <2>4
<1>6. CASE Done(p) BY <1>6 DEF Done
<1>7. ~RandomEmpty(p) BY DEF RandomEmpty
<1>8. ~HostMissing(p) /\ ~HostGiven(p) BY DEF HostMissing, HostGiven, UseHost, Goto
<1>9. ~AppendLookup(p) /\ ~AppendInsert(p) /\ ~AppendRead(p) /\ ~AppendStore(p)
  BY DEF AppendLookup, AppendInsert, AppendRead, AppendStore, Goto, ReadKeys, StoreKeys
<1>10. ~Crash(p) BY DEF Crash, Races
<1> QED BY <1>3, <1>4, <1>5, <1>6, <1>7, <1>8, <1>9, <1>10 DEF Step

\* Without one, every step keeps the slice, and all that may be stored into it, in the map.
LEMMA KeysStep ==
    ASSUME UpstreamsTypeOK, KeysInMap, SeenInMap, NEW p \in Procs, Step(p)
    PROVE  KeysInMap' /\ SeenInMap'
<1>1. configured' = configured /\ m \subseteq m'
  BY DEF Step, Arrive, RandomEmpty, Goto, RandomSome, ReadKeys, RandomIndex, HostMissing, HostGiven,
         UseHost, AppendLookup, AppendInsert, AppendRead, AppendStore, StoreKeys, Done, Crash
<1> SUFFICES ASSUME configured = <<>> PROVE KeysInMap' /\ SeenInMap'
  BY <1>1 DEF KeysInMap, SeenInMap
<1> USE <1>1 DEF UpstreamsTypeOK, KeysInMap, SeenInMap
<1>2. CASE \E x \in Names \union {NoName} : Arrive(p, x) BY <1>2 DEF Arrive
<1>3. CASE RandomEmpty(p) BY <1>3 DEF RandomEmpty, Goto
<1>4. CASE RandomSome(p) BY <1>4 DEF RandomSome, ReadKeys
<1>5. CASE RandomIndex(p) BY <1>5 DEF RandomIndex
<1>6. CASE HostMissing(p) BY <1>6 DEF HostMissing, Goto
<1>7. CASE HostGiven(p) BY <1>7 DEF HostGiven, UseHost
<1>8. CASE AppendLookup(p) BY <1>8 DEF AppendLookup, Goto
<1>9. CASE AppendInsert(p) BY <1>9 DEF AppendInsert
<1>10. CASE AppendRead(p) BY <1>10 DEF AppendRead, ReadKeys
<1>11. CASE AppendStore(p)
  <2>1. target[p] \in m /\ m' = m /\ keys' = Append(seen[p], target[p])
    BY <1>11 DEF AppendStore, StoreKeys
  <2>2. seen[p] \in Seq(Addresses) OBVIOUS
  <2>3. \A i \in DOMAIN keys' : keys'[i] \in m
    <3>1. /\ DOMAIN keys' = 1..(Len(seen[p]) + 1) /\ Len(seen[p]) \in Nat
          /\ \A i \in 1..Len(seen[p]) : keys'[i] = seen[p][i]
          /\ keys'[Len(seen[p]) + 1] = target[p]
      BY <2>1, <2>2
    <3>2. DOMAIN seen[p] = 1..Len(seen[p]) BY <2>2
    <3>3. 1..(Len(seen[p]) + 1) = 1..Len(seen[p]) \union {Len(seen[p]) + 1} BY <3>1
    <3> QED BY <2>1, <3>1, <3>2, <3>3
  <2>4. SeenInMap' BY <1>11 DEF AppendStore, StoreKeys
  <2> QED BY <2>1, <2>3, <2>4
<1>12. CASE Done(p) BY <1>12 DEF Done
<1>13. CASE Crash(p) BY <1>13 DEF Crash
<1> QED
  BY <1>2, <1>3, <1>4, <1>5, <1>6, <1>7, <1>8, <1>9, <1>10, <1>11, <1>12, <1>13 DEF Step

\* The invariant is inductive.
LEMMA IInvNext == IInv /\ [UpstreamsNext]_vars => IInv'
<1> SUFFICES ASSUME IInv, [UpstreamsNext]_vars PROVE IInv' OBVIOUS
<1>1. CASE UNCHANGED vars
  BY <1>1 DEF vars, IInv, UpstreamsTypeOK, AppendsAddress, ConfiguredListFixed, OnlyReads, KeysInMap, SeenInMap
<1>2. CASE UpstreamsNext
  <2>1. PICK p \in Procs : Step(p) BY <1>2 DEF UpstreamsNext, Step
  <2> QED BY <2>1, TypeStep, FixedStep, KeysStep DEF IInv
<1> QED BY <1>1, <1>2

-----------------------------------------------------------------------------
(* Theorems. *)

\* The invariant holds in every reachable state.
THEOREM Invariance == UpstreamsSpec => []IInv
BY IInvInit, IInvNext, PTL DEF UpstreamsSpec

\* Random, resolveUpstream and Append keep the types; in particular every request that is sent on
\* goes to an address with a scheme.
THEOREM TypeCorrect == UpstreamsSpec => []UpstreamsTypeOK
<1>1. IInv => UpstreamsTypeOK BY DEF IInv
<1> QED BY <1>1, Invariance, PTL

\* With --upstreams the list that has no lock is never written, by whatever number of requests,
\* and every request goes to one of its servers.
THEOREM ListIsFixed == UpstreamsSpec => []ConfiguredListFixed
<1>1. IInv => ConfiguredListFixed BY DEF IInv
<1> QED BY <1>1, Invariance, PTL

\* Without it, whatever racing calls of Append overwrite, the slice holds addresses of the map.
THEOREM MapHasKeys == UpstreamsSpec => []KeysInMap
<1>1. IInv => KeysInMap BY DEF IInv
<1> QED BY <1>1, Invariance, PTL

\* No step empties the list: after its first success Random never fails again.
THEOREM NeverEmptied == UpstreamsSpec => StaysPopulated
<1>1. IInv /\ [UpstreamsNext]_vars => [keys # <<>> => keys' # <<>>]_vars
  <2> SUFFICES ASSUME IInv, NEW p \in Procs, Step(p), keys # <<>> PROVE keys' # <<>>
    BY DEF UpstreamsNext, Step
  <2>1. CASE AppendStore(p)
    <3>1. seen[p] \in Seq(Addresses) /\ target[p] \in Addresses
      BY <2>1 DEF IInv, UpstreamsTypeOK, AppendsAddress, AppendStore, StoreKeys
    <3>2. Append(seen[p], target[p]) # <<>> BY <3>1
    <3> QED BY <2>1, <3>2 DEF AppendStore, StoreKeys
  <2>2. CASE ~AppendStore(p)
    <3>1. keys' = keys
      BY <2>2 DEF Step, Arrive, RandomEmpty, Goto, RandomSome, ReadKeys, RandomIndex, HostMissing,
                  HostGiven, UseHost, AppendLookup, AppendInsert, AppendRead, Done, Crash
    <3> QED BY <3>1
  <2> QED BY <2>1, <2>2
<1> QED BY <1>1, Invariance, PTL DEF UpstreamsSpec, StaysPopulated
=============================================================================
