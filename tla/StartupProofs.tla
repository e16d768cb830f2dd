---------------------------- MODULE StartupProofs ----------------------------
(***************************************************************************)
(* Proofs about Startup, for any addresses, lists and values of the flags. *)
(***************************************************************************)
EXTENDS Startup, SequenceTheorems, TLAPS

\* An address comes from the list of the command line, as addrAppend writes it.
FromList(a) == \E j \in DOMAIN values.upstreams : a = WithScheme(values.upstreams[j])

\* parseUpstreams takes the elements in turn: those to come and those done are all there are, and
\* an address that was kept stands in the list and parses.
ParsedSoFar ==
    /\ \A i \in DOMAIN rest : \E j \in DOMAIN values.upstreams : rest[i] = values.upstreams[j]
    /\ \A i \in DOMAIN upstreams : FromList(upstreams[i]) /\ Parses(upstreams[i])
    /\ stage \in {"flags", "parse"} => Len(upstreams) + Len(rest) = Len(values.upstreams)
    /\ stage \notin {"flags", "parse", "exited"} => Len(upstreams) = Len(values.upstreams)

\* Once the setters have run the dialer has its timeout; once the TLS step has not ended the
\* process, the TLS configuration is the one that the flags ask for.
GlobalsSet ==
    /\ stage \notin {"flags", "parse", "setters", "exited"} => dialTimeout = values.dialerTimeout
    /\ stage \in {"handler", "metrics", "server", "listen", "serving"} /\ values.tlsEnabled =>
          NewTLSConfig.ok /\ tlsConfig = NewTLSConfig.cfg

\* The list of a proxy that was given one has an entry, and each of its entries was parsed from it.
ListMade ==
    values.upstreams # <<>> =>
        /\ stage \in {"metrics", "server", "listen", "serving"} => list # <<>>
        /\ \A i \in DOMAIN list : list[i].parsed /\ FromList(list[i].address)

IInv ==
    /\ StartTypeOK
    /\ ParsedSoFar
    /\ GlobalsSet
    /\ ListMade
    /\ HttpsSecured
    /\ GoesWhereTold

-----------------------------------------------------------------------------
(* Addresses. *)

\* WithScheme gives every address a scheme, keeps host and port, and does nothing the second time.
LEMMA SchemeGiven ==
    ASSUME NEW t \in Texts
    PROVE  /\ WithScheme(t) \in Addresses
           /\ WithScheme(WithScheme(t)) = WithScheme(t)
           /\ WithScheme(t).scheme \in Schemes
           /\ WithScheme(t).scheme = "https" <=> t.scheme = "https"
           /\ WithScheme(t).host = t.host /\ WithScheme(t).port = t.port
<1>1. DOMAIN t = {"scheme", "host", "port"} /\ t.scheme \in Schemes \union {""}
  BY StartupAssumption DEF StartupAssumption
<1>2. CASE t.scheme = "" BY <1>1, <1>2 DEF WithScheme, Addresses, Schemes
<1>3. CASE t.scheme # "" BY <1>1, <1>3 DEF WithScheme, Addresses, Schemes
<1> QED BY <1>2, <1>3

\* An entry is made under the address itself, and is a parsed one if the address parses.
LEMMA EntryMade ==
    ASSUME NEW a \in Addresses
    PROVE  Entry(a).address = a /\ Entry(a).parsed = Parses(a)
<1>1. WithScheme(a) = a BY SchemeGiven DEF Addresses
<1>2. CASE Parses(a) BY <1>1, <1>2 DEF Entry
<1>3. CASE ~Parses(a) BY <1>1, <1>3 DEF Entry, Parses
<1> QED BY <1>2, <1>3

\* The flags are constants, and what they hold has its type.
LEMMA FlagTypes ==
    ASSUME StartTypeOK
    PROVE  /\ values.upstreams \in Seq(Texts) /\ values.numbers \in [Settings -> Int]
           /\ values.dialerTimeout \in Timeouts
           /\ values.tlsServerName \in BOOLEAN /\ values.tlsInsecureSkipVerify \in BOOLEAN
           /\ values.tlsEnabled \in BOOLEAN /\ values.tlsCAFile \in BOOLEAN
BY StartupAssumption DEF StartTypeOK, Values, StartupAssumption

\* The configuration that the flags ask for has its type.
LEMMA NewTLSConfigType == ASSUME StartTypeOK PROVE NewTLSConfig.cfg \in TLSConfigs
BY FlagTypes DEF NewTLSConfig, TLSConfigs

-----------------------------------------------------------------------------
(* Preservation. *)

\* The initial states satisfy the invariant.
LEMMA IInvInit == StartInit => IInv
<1> SUFFICES ASSUME StartInit PROVE IInv OBVIOUS
<1> USE DEF StartInit
<1>1. values.upstreams \in Seq(Texts) BY StartupAssumption DEF Values, StartupAssumption
<1>2. Default \in [Settings -> Int] /\ \A s \in Settings : Default[s] >= Minimum[s]
  BY DEF Default, Minimum, Settings
<1>3. NoTLS \in TLSConfigs BY DEF NoTLS, TLSConfigs
<1>4. <<>> \in Seq(Addresses) /\ Len(<<>>) = 0 /\ DOMAIN <<>> = {} BY EmptySeq
<1>5. StartTypeOK BY <1>1, <1>2, <1>3, <1>4 DEF StartTypeOK, Stages
<1>6. ParsedSoFar BY <1>1, <1>4 DEF ParsedSoFar
<1>7. GlobalsSet /\ ListMade BY <1>4 DEF GlobalsSet, ListMade
<1>8. HttpsSecured BY DEF HttpsSecured, NoLink
<1>9. GoesWhereTold BY DEF GoesWhereTold
<1> QED BY <1>5, <1>6, <1>7, <1>8, <1>9 DEF IInv

\* A step that leaves the flags, the list parsed so far and the connection alone, and goes on to
\* a stage that asks for no more, preserves what the invariant says about them.
LEMMA Kept ==
    ASSUME IInv, UNCHANGED <<values, world, rest, upstreams, setting, dialTimeout, tlsConfig, list, link>>,
           \/ stage' = stage \/ stage' = "exited"
           \/ stage = "flags" /\ stage' = "parse"
           \/ stage = "metrics" /\ stage' = "server"
           \/ stage = "server" /\ stage' = "listen"
           \/ stage = "listen" /\ stage' = "serving"
    PROVE  ParsedSoFar' /\ GlobalsSet' /\ ListMade' /\ HttpsSecured' /\ GoesWhereTold'
<1> USE DEF IInv
<1>1. ParsedSoFar' BY DEF ParsedSoFar, FromList
<1>2. GlobalsSet' BY DEF GlobalsSet, NewTLSConfig
<1>3. ListMade' BY DEF ListMade, FromList
<1>4. HttpsSecured' BY DEF HttpsSecured
<1>5. GoesWhereTold' BY DEF GoesWhereTold
<1> QED BY <1>1, <1>2, <1>3, <1>4, <1>5

\* parseUpstreams.
LEMMA ParseStep == ASSUME IInv, parseUpstreams PROVE IInv'
<1> USE DEF IInv, parseUpstreams, config, globals
<1>1. /\ rest \in Seq(Texts) /\ upstreams \in Seq(Addresses) /\ values.upstreams \in Seq(Texts)
      /\ Len(upstreams) + Len(rest) = Len(values.upstreams) /\ list' = list
      /\ UNCHANGED <<values, world, setting, dialTimeout, tlsConfig, list, link>>
  BY FlagTypes DEF StartTypeOK, ParsedSoFar
<1>2. HttpsSecured' /\ GoesWhereTold'
  BY <1>1 DEF HttpsSecured, GoesWhereTold
<1>3. GlobalsSet' /\ ListMade'
  BY DEF GlobalsSet, ListMade, FromList, addrAppend
<1>4. CASE rest = <<>>
  <2>1. stage' = "setters" /\ UNCHANGED <<rest, upstreams>> BY <1>4
  <2>2. ParsedSoFar' BY <1>1, <1>4, <2>1 DEF ParsedSoFar, FromList
  <2>3. StartTypeOK' BY <2>1 DEF StartTypeOK, Stages
  <2> QED BY <1>2, <1>3, <2>2, <2>3
<1>5. CASE rest # <<>>
  <2>1. addrAppend(Head(rest)) /\ rest' = Tail(rest) BY <1>5
  <2>2. /\ Len(rest) \in Nat \ {0} /\ Head(rest) = rest[1] /\ Head(rest) \in Texts
        /\ Tail(rest) \in Seq(Texts) /\ Len(Tail(rest)) = Len(rest) - 1
        /\ \A i \in DOMAIN Tail(rest) : i + 1 \in DOMAIN rest /\ Tail(rest)[i] = rest[i + 1]
    BY <1>1, <1>5
  <2>3. \A i \in DOMAIN rest' : \E j \in DOMAIN values'.upstreams : rest'[i] = values'.upstreams[j]
    BY <1>1, <2>1, <2>2 DEF ParsedSoFar
  <2> DEFINE a == WithScheme(Head(rest))
  <2>4. a \in Addresses BY <2>2, SchemeGiven
  <2>5. FromList(a)
    <3>1. 1 \in DOMAIN rest BY <1>1, <2>2
    <3> QED BY <2>2, <3>1 DEF ParsedSoFar, FromList
  <2> HIDE DEF a
  <2>6. CASE Parses(a)
    <3>1. stage' = stage /\ upstreams' = Append(upstreams, a) BY <2>1, <2>6 DEF addrAppend, a
    <3>2. /\ upstreams' \in Seq(Addresses) /\ Len(upstreams') = Len(upstreams) + 1
          /\ \A i \in DOMAIN upstreams' : upstreams'[i] = a \/ (i \in DOMAIN upstreams /\ upstreams'[i] = upstreams[i])
      BY <1>1, <2>4, <3>1
    <3>3. \A i \in DOMAIN upstreams' : FromList(upstreams'[i]) /\ Parses(upstreams'[i])
      BY <1>1, <2>5, <2>6, <3>2 DEF ParsedSoFar
    <3>4. ParsedSoFar'
      <4>1. Len(upstreams) \in Nat /\ Len(rest) \in Nat BY <1>1
      <4>2. (\A i \in DOMAIN upstreams : FromList(upstreams[i]) /\ Parses(upstreams[i]))'
        BY <1>1, <3>3 DEF FromList, Parses
      <4>3. stage = "parse" /\ stage' = "parse" /\ Len(upstreams) + Len(rest) = Len(values.upstreams)
        BY <3>1 DEF ParsedSoFar
      <4>4. Len(upstreams') + Len(rest') = Len(values.upstreams)
        <5>1. Len(rest') = Len(rest) - 1 /\ Len(upstreams') = Len(upstreams) + 1 BY <2>1, <2>2, <3>2
        <5> HIDE DEF IInv
        <5> QED BY <4>1, <4>3, <5>1
      <4>5. values' = values BY <1>1
      <4> QED BY <2>3, <4>2, <4>3, <4>4, <4>5 DEF ParsedSoFar
    <3>5. StartTypeOK' BY <2>1, <2>2, <3>1, <3>2 DEF StartTypeOK
    <3> QED BY <1>2, <1>3, <3>4, <3>5
  <2>7. CASE ~Parses(a)
    <3>1. stage' = "exited" /\ upstreams' = upstreams BY <2>1, <2>7 DEF addrAppend, a
    <3>2. ParsedSoFar' BY <1>1, <2>3, <3>1 DEF ParsedSoFar, FromList
    <3>3. StartTypeOK' BY <2>1, <2>2, <3>1 DEF StartTypeOK, Stages
    <3> QED BY <1>2, <1>3, <3>2, <3>3
  <2> QED BY <2>6, <2>7
<1> QED BY <1>4, <1>5

\* The setters of the pool.
LEMMA SettersStep == ASSUME IInv, Setters PROVE IInv'
<1> USE DEF IInv, Setters, HTTPDialerTimeout, config
<1>1. \A s \in Settings : Accepted(s) \in Int /\ Accepted(s) >= Minimum[s]
  <2>1. \A s \in Settings : Minimum[s] \in Int BY DEF Minimum, Settings
  <2> QED BY <2>1, FlagTypes DEF Accepted, StartTypeOK
<1>2. StartTypeOK'
  <2>1. setting' \in [Settings -> Int] /\ \A s \in Settings : setting'[s] >= Minimum[s] BY <1>1
  <2>2. dialTimeout' \in Timeouts BY FlagTypes
  <2> QED BY <2>1, <2>2 DEF StartTypeOK, Stages
<1>3. ParsedSoFar' BY DEF ParsedSoFar, FromList
<1>4. GlobalsSet' /\ ListMade' BY DEF GlobalsSet, ListMade, FromList
<1>5. HttpsSecured' /\ GoesWhereTold' BY DEF HttpsSecured, GoesWhereTold
<1> QED BY <1>2, <1>3, <1>4, <1>5

\* The TLS configuration for the upstreams.
LEMMA TLSStep == ASSUME IInv, SetTLSConfig PROVE IInv'
<1> USE DEF IInv, SetTLSConfig, TLSConfig, config
<1>1. StartTypeOK' BY NewTLSConfigType DEF StartTypeOK, Stages
<1>2. ParsedSoFar' BY DEF ParsedSoFar, FromList
<1>3. GlobalsSet'
  <2>1. NewTLSConfig' = NewTLSConfig BY DEF NewTLSConfig
  <2> QED BY <2>1 DEF GlobalsSet
<1>4. ListMade' BY DEF ListMade, FromList
<1>5. HttpsSecured' /\ GoesWhereTold' BY DEF HttpsSecured, GoesWhereTold
<1> QED BY <1>1, <1>2, <1>3, <1>4, <1>5

\* NewUpstreams.
LEMMA HandlerStep == ASSUME IInv, Handler PROVE IInv'
<1> USE DEF IInv, Handler, config, globals
<1>1. /\ upstreams \in Seq(Addresses) /\ values.upstreams \in Seq(Texts)
      /\ Len(upstreams) = Len(values.upstreams)
  BY FlagTypes DEF StartTypeOK, ParsedSoFar
<1>2. \A i \in DOMAIN upstreams : upstreams[i] \in Addresses BY <1>1
<1>3. \A i \in DOMAIN list' : list'[i].address = upstreams[i] /\ list'[i].parsed = Parses(upstreams[i])
  BY <1>2, EntryMade
<1>4. StartTypeOK' BY <1>2, <1>3 DEF StartTypeOK, Stages
<1>5. ParsedSoFar' BY DEF ParsedSoFar, FromList
<1>6. GlobalsSet' BY DEF GlobalsSet, NewTLSConfig
<1>7. ListMade'
  <2>1. \A i \in DOMAIN list' : list'[i].parsed /\ FromList(list'[i].address)
    BY <1>3 DEF ParsedSoFar
  <2>4. (\A i \in DOMAIN list : list[i].parsed /\ FromList(list[i].address))'
    BY <2>1 DEF FromList
  <2>2. values.upstreams # <<>> => 1 \in DOMAIN list' BY <1>1
  <2>3. DOMAIN <<>> = {} OBVIOUS
  <2> QED BY <2>2, <2>3, <2>4 DEF ListMade
<1>8. HttpsSecured' /\ GoesWhereTold' BY DEF HttpsSecured, GoesWhereTold
<1> QED BY <1>4, <1>5, <1>6, <1>7, <1>8

\* A request.
LEMMA RequestStep == ASSUME IInv, NEW t \in Texts, Request(t) PROVE IInv'
<1> USE DEF IInv, config, globals
<1> DEFINE candidates == IF list = <<>> THEN {Entry(WithScheme(t))} ELSE {list[i] : i \in DOMAIN list}
<1>1. PICK e \in candidates :
          /\ list' = IF list = <<>> THEN <<e>> ELSE list
          /\ \/ Dialable(e.address) /\ link' = dial(e.address)
             \/ link' = NoLink
  BY DEF Request
<1>2. /\ stage = "serving"
      /\ UNCHANGED <<values, world, stage, rest, upstreams, setting, dialTimeout, tlsConfig, metrics, serverTLS, listener>>
  BY DEF Request
<1>3. e.address \in Addresses
  <2>1. CASE list = <<>> BY <2>1, SchemeGiven, EntryMade
  <2>2. CASE list # <<>> BY <2>2 DEF StartTypeOK
  <2> QED BY <2>1, <2>2
<1>4. values.upstreams # <<>> => list # <<>> /\ list' = list /\ FromList(e.address)
  BY <1>1, <1>2 DEF ListMade
<1>5. StartTypeOK'
  <2>1. \A i \in DOMAIN list' : list'[i].address \in Addresses
    BY <1>1, <1>3 DEF StartTypeOK
  <2> QED BY <1>2, <2>1 DEF StartTypeOK
<1>6. ParsedSoFar' BY <1>2 DEF ParsedSoFar, FromList
<1>7. GlobalsSet' BY <1>2 DEF GlobalsSet, NewTLSConfig
<1>8. ListMade' BY <1>2, <1>4 DEF ListMade, FromList
<1>9. HttpsSecured'
  <2>1. CASE link' = NoLink BY <2>1 DEF HttpsSecured, NoLink
  <2>2. CASE link' = dial(e.address)
    <3>1. link'.scheme = e.address.scheme /\ (link'.scheme = "https" => link'.tls = tlsConfig)
      BY <2>2 DEF dial
    <3>2. values.tlsEnabled => NewTLSConfig.ok /\ tlsConfig = NewTLSConfig.cfg
      BY <1>2 DEF GlobalsSet
    <3>3. values.tlsEnabled => (values.tlsCAFile => world.ca = "good") BY <3>2 DEF NewTLSConfig
    <3> QED BY <1>2, <3>1, <3>2, <3>3 DEF HttpsSecured, NewTLSConfig
  <2> QED BY <1>1, <2>1, <2>2
<1>10. GoesWhereTold'
  <2> SUFFICES ASSUME values.upstreams # <<>>, link' # NoLink PROVE GoesWhereTold'
    BY <1>2 DEF GoesWhereTold
  <2>1. link' = dial(e.address) BY <1>1
  <2>2. PICK j \in DOMAIN values.upstreams : e.address = WithScheme(values.upstreams[j])
    BY <1>4 DEF FromList
  <2>3. values.upstreams[j] \in Texts BY FlagTypes
  <2>4. /\ link'.host = values.upstreams[j].host /\ link'.port = values.upstreams[j].port
        /\ link'.scheme = "https" <=> values.upstreams[j].scheme = "https"
    BY <2>1, <2>2, <2>3, SchemeGiven DEF dial
  <2>5. link'.timeout = values.dialerTimeout BY <1>2, <2>1 DEF dial, GlobalsSet
  <2> QED BY <1>2, <2>4, <2>5 DEF GoesWhereTold
<1> QED BY <1>5, <1>6, <1>7, <1>8, <1>9, <1>10

\* The invariant is inductive.
LEMMA IInvNext == IInv /\ [StartNext]_vars => IInv'
<1> SUFFICES ASSUME IInv, [StartNext]_vars PROVE IInv' OBVIOUS
<1> USE DEF config, globals
<1>1. CASE UNCHANGED vars BY <1>1, Kept DEF vars, IInv, StartTypeOK
<1>2. CASE ParseFlags BY <1>2, Kept DEF ParseFlags, IInv, StartTypeOK, Stages
<1>3. CASE parseUpstreams BY <1>3, ParseStep
<1>4. CASE Setters BY <1>4, SettersStep
<1>5. CASE SetTLSConfig BY <1>5, TLSStep
<1>6. CASE Handler BY <1>6, HandlerStep
<1>7. CASE StartMetrics BY <1>7, Kept DEF StartMetrics, IInv, StartTypeOK, Stages
<1>8. CASE Server
  <2>1. serverTLS' \in BOOLEAN BY <1>8 DEF Server
  <2> QED BY <1>8, <2>1, Kept DEF Server, IInv, StartTypeOK, Stages
<1>9. CASE ListenAndServe BY <1>9, Kept DEF ListenAndServe, IInv, StartTypeOK, Stages
<1>10. CASE serveMetrics BY <1>10, Kept DEF serveMetrics, IInv, StartTypeOK
<1>11. CASE ServeEnds BY <1>11, Kept DEF ServeEnds, IInv, StartTypeOK, Stages
<1>12. CASE \E t \in Texts : Request(t) BY <1>12, RequestStep
<1> QED
  BY <1>1, <1>2, <1>3, <1>4, <1>5, <1>6, <1>7, <1>8, <1>9, <1>10, <1>11, <1>12 DEF StartNext, Main

-----------------------------------------------------------------------------
(* Theorems. *)

\* The invariant holds in every reachable state.
THEOREM Invariance == StartSpec => []IInv
BY IInvInit, IInvNext, PTL DEF StartSpec

\* Whatever the flags, every setting of the pool stays at or above its minimum, and every entry of
\* the list is an address with a scheme.
THEOREM TypeCorrect == StartSpec => []StartTypeOK
<1>1. IInv => StartTypeOK BY DEF IInv
<1> QED BY <1>1, Invariance, PTL

\* With --tls-enabled no https connection is less secure than the flags ask, whatever the CA file.
THEOREM HttpsIsSecured == StartSpec => []HttpsSecured
<1>1. IInv => HttpsSecured BY DEF IInv
<1> QED BY <1>1, Invariance, PTL

\* With --upstreams every connection goes to a host, port and scheme that stand in it.
THEOREM GoesToTheList == StartSpec => []GoesWhereTold
<1>1. IInv => GoesWhereTold BY DEF IInv
<1> QED BY <1>1, Invariance, PTL

\* NewUpstreams never meets an address that does not parse.
THEOREM ListIsParsed == StartSpec => []ConfiguredParsed
<1>1. IInv => ConfiguredParsed BY DEF IInv, ListMade, ConfiguredParsed
<1> QED BY <1>1, Invariance, PTL
=============================================================================
