----------------------------- MODULE Upstreams ------------------------------
(***************************************************************************)
(* The list of upstream servers and the choice of one of them for a        *)
(* request: type Upstreams of internal/upstream/upstream.go and            *)
(* resolveUpstream of internal/proxy/handler.go.                           *)
(*                                                                         *)
(* The list is a map m and a slice keys with no lock.  With a configured   *)
(* list it is only read; with an empty one every request whose Random      *)
(* found it empty appends its Host.  A step is one access to the map or to *)
(* the slice header.  Two accesses to the map of which one is a write may  *)
(* end the process: the Go runtime detects them on a best-effort basis.    *)
(* So may an access to the slice header while another goroutine replaces   *)
(* it, and an index that is out of range.                                  *)
(***************************************************************************)
EXTENDS Naturals, Sequences, FiniteSets

CONSTANTS
    Procs,       \* the goroutines that serve requests
    Names,       \* host[:port] with or without a scheme, as configured or sent by clients
    NoName,      \* the empty Host
    Schemed,     \* for every name, the address: the name with http:// put in front of it
                 \* unless it has a scheme
    Lists        \* the lists of upstreams that the command line may give, the empty one included

ASSUME UpstreamsAssumption ==
    /\ NoName \notin Names
    /\ DOMAIN Schemed = Names
    /\ Lists \subseteq Seq(Names)

Addresses == {Schemed[x] : x \in Names}

VARIABLES
    configured,  \* the argument of NewUpstreams, never changed
    m,           \* the keys of u.m
    keys,        \* u.keys, as addresses
    at,          \* where each goroutine is in resolveUpstream
    name,        \* the Host of its request
    target,      \* h.upstreamAddress
    seen,        \* the slice header that Append has read
    crashed      \* the process has ended

vars == <<configured, m, keys, at, name, target, seen, crashed>>

(***************************************************************************)
(*   "idle"      no request                                                *)
(*   "random"    about to call Random                                      *)
(*   "index"     Random found a non-empty list and is about to index it    *)
(*   "host"      about to look at the Host                                 *)
(*   "lookup"    Append is about to look the address up in m               *)
(*   "insert"    Append is writing m                                       *)
(*   "read"      Append is about to read the header of keys                *)
(*   "store"     Append is replacing the header of keys                    *)
(*   "resolved"  resolveUpstream has returned true                         *)
(***************************************************************************)
Places == {"idle", "random", "index", "host", "lookup", "insert", "read", "store", "resolved"}

\* NewUpstreams.  The map is keyed by the names as they were given.
UpstreamsInit ==
    /\ configured \in Lists
    /\ m = {configured[i] : i \in DOMAIN configured}
    /\ keys = [i \in DOMAIN configured |-> Schemed[configured[i]]]
    /\ at = [p \in Procs |-> "idle"]
    /\ name = [p \in Procs |-> NoName]
    /\ target = [p \in Procs |-> NoName]
    /\ seen = [p \in Procs |-> <<>>]
    /\ crashed = FALSE

Arrive(p, x) ==
    /\ at[p] = "idle"
    /\ at' = [at EXCEPT ![p] = "random"]
    /\ name' = [name EXCEPT ![p] = x]
    /\ UNCHANGED <<configured, m, keys, target, seen, crashed>>

-----------------------------------------------------------------------------
(* Random *)

\* Goroutine p goes from one place to another and changes nothing else.
Goto(p, from, to) ==
    /\ at[p] = from
    /\ at' = [at EXCEPT ![p] = to]
    /\ UNCHANGED <<configured, m, keys, name, target, seen, crashed>>

\* Mutant: the list is taken for empty whatever its length.
RandomIgnoresList(p) == Goto(p, "random", "host")

RandomEmpty(p) == keys = <<>> /\ Goto(p, "random", "host")

\* p keeps the slice header it has read and goes on.
ReadKeys(p, from, to) ==
    /\ at[p] = from
    /\ seen' = [seen EXCEPT ![p] = keys]
    /\ at' = [at EXCEPT ![p] = to]
    /\ UNCHANGED <<configured, m, keys, name, target, crashed>>

RandomSome(p) == keys # <<>> /\ ReadKeys(p, "random", "index")

\* The index was drawn below the length that Random saw; keys is read again.
RandomIndex(p) ==
    /\ at[p] = "index"
    /\ \E i \in DOMAIN seen[p] :
          IF i \in DOMAIN keys
          THEN /\ target' = [target EXCEPT ![p] = keys[i]]
               /\ at' = [at EXCEPT ![p] = "resolved"]
               /\ crashed' = crashed
          ELSE /\ crashed' = TRUE
               /\ UNCHANGED <<target, at>>
    /\ seen' = [seen EXCEPT ![p] = <<>>]
    /\ UNCHANGED <<configured, m, keys, name>>

-----------------------------------------------------------------------------
(* resolveUpstream without a list, and Append *)

\* 400, and resolveUpstream returns false.
HostMissing(p) == name[p] = NoName /\ Goto(p, "host", "idle")

\* The Host is given; the request goes to x.
UseHost(p, x) ==
    /\ at[p] = "host"
    /\ name[p] # NoName
    /\ target' = [target EXCEPT ![p] = x]
    /\ at' = [at EXCEPT ![p] = "lookup"]
    /\ UNCHANGED <<configured, m, keys, name, seen, crashed>>

\* Mutant: the Host is used without a scheme.
HostGivenBare(p) == UseHost(p, name[p])

\* An address that does not parse sets a status of 400, which the response of the
\* upstream or a 502 replaces later: it is used like any other.
HostGiven(p) == UseHost(p, Schemed[name[p]])

AppendLookup(p) == Goto(p, "lookup", IF target[p] \in m THEN "resolved" ELSE "insert")

\* Mutant: the address is not entered in the map.
AppendNoInsert(p) == Goto(p, "insert", "read")

AppendInsert(p) ==
    /\ at[p] = "insert"
    /\ m' = m \union {target[p]}
    /\ at' = [at EXCEPT ![p] = "read"]
    /\ UNCHANGED <<configured, keys, name, target, seen, crashed>>

AppendRead(p) == ReadKeys(p, "read", "store")

\* The slice becomes s.
StoreKeys(p, s) ==
    /\ at[p] = "store"
    /\ keys' = s
    /\ seen' = [seen EXCEPT ![p] = <<>>]
    /\ at' = [at EXCEPT ![p] = "resolved"]
    /\ UNCHANGED <<configured, m, name, target, crashed>>

\* Mutant: an address that does not parse is not appended, the slice is written back.
AppendParsedOnly(p) == StoreKeys(p, seen[p]) \/ StoreKeys(p, Append(seen[p], target[p]))

AppendStore(p) == StoreKeys(p, Append(seen[p], target[p]))

\* The rest of the request.
Done(p) ==
    /\ at[p] = "resolved"
    /\ at' = [at EXCEPT ![p] = "idle"]
    /\ name' = [name EXCEPT ![p] = NoName]
    /\ target' = [target EXCEPT ![p] = NoName]
    /\ UNCHANGED <<configured, m, keys, seen, crashed>>

-----------------------------------------------------------------------------
\* p accesses the map, or the slice header, while q writes it.
Races(p, q) ==
    \/ at[p] \in {"lookup", "insert"} /\ at[q] = "insert"
    \/ at[p] \in {"random", "index", "read", "store"} /\ at[q] = "store"

Crash(p) ==
    /\ \E q \in Procs \ {p} : Races(p, q)
    /\ crashed' = TRUE
    /\ UNCHANGED <<configured, m, keys, at, name, target, seen>>

UpstreamsNext ==
    /\ ~crashed
    /\ \E p \in Procs :
          \/ \E x \in Names \union {NoName} : Arrive(p, x)
          \/ RandomEmpty(p) \/ RandomSome(p) \/ RandomIndex(p)
          \/ HostMissing(p) \/ HostGiven(p)
          \/ AppendLookup(p) \/ AppendInsert(p) \/ AppendRead(p) \/ AppendStore(p)
          \/ Done(p) \/ Crash(p)

UpstreamsSpec == UpstreamsInit /\ [][UpstreamsNext]_vars

-----------------------------------------------------------------------------
(* Properties. *)

\* Every variable has its type; in particular the targets have a scheme, which dial needs.
UpstreamsTypeOK ==
    /\ configured \in Lists
    /\ m \subseteq Names \union Addresses
    /\ keys \in Seq(Addresses)
    /\ at \in [Procs -> Places]
    /\ name \in [Procs -> Names \union {NoName}]
    /\ target \in [Procs -> Addresses \union {NoName}]
    /\ seen \in [Procs -> Seq(Addresses)]
    /\ crashed \in BOOLEAN

\* With a configured list the unsynchronised Append is never reached: the list stays what
\* NewUpstreams made it, no request is sent elsewhere, and nothing can race.
ConfiguredListFixed ==
    configured # <<>> =>
        /\ keys = [i \in DOMAIN configured |-> Schemed[configured[i]]]
        /\ \A p \in Procs : at[p] = "resolved" => \E i \in DOMAIN keys : target[p] = keys[i]
        /\ ~crashed

\* Without one, what races leave of the list is in the map, so that a later Append of the
\* same address does not add it again once the race is over.
KeysInMap == configured = <<>> => \A i \in DOMAIN keys : keys[i] \in m

\* A list that has an address keeps having one, although racing Appends may overwrite each
\* other's: Random, once it has succeeded, does not fall back to the Host again.
StaysPopulated == [][keys # <<>> => keys' # <<>>]_vars

\* handler.go: "upstreams: the list of upstream servers; if empty, the Host of the request
\* is used".  The first Host becomes the list, and the next requests go to it.
HostHonoured ==
    configured = <<>> =>
        \A p \in Procs :
            at[p] = "resolved" /\ name[p] # NoName => target[p] = Schemed[name[p]]
=============================================================================
