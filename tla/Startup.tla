------------------------------ MODULE Startup -------------------------------
(***************************************************************************)
(* From the command line to the first connections: cmd/proxy/main.go,      *)
(* internal/config/config.go, the address and TLS rules of                 *)
(* internal/upstream/upstream.go and internal/pool/dial.go.                *)
(*                                                                         *)
(* main parses the flags, sets the globals of the pool, builds the TLS     *)
(* configuration and the list of upstreams, starts the metrics server in a *)
(* goroutine and serves.  A request then resolves an address and dials it. *)
(* An address is a record of its scheme, host and port; spaces are trimmed *)
(* before anything else.  The flags that are handed to fasthttp.Server     *)
(* unread are left out.                                                    *)
(***************************************************************************)
EXTENDS Integers, Sequences

CONSTANTS
    Texts,         \* elements of --upstreams and values of Host: [scheme, host, port]
    BadHosts,      \* hosts that url.Parse refuses
    Lists,         \* values of --upstreams, split at the commas
    Numbers,       \* values of the numeric flags: functions from Settings to Int
    Timeouts       \* values of --dialer-timeout

Settings == {"io-buffers-size", "copy-buffers-size", "idle-timeout", "max-conns"}

\* The least value that each setter of the pool accepts, and the value before it is called.
Minimum == [s \in Settings |-> CASE s = "io-buffers-size" -> 64
                                 [] s = "copy-buffers-size" -> 256
                                 [] OTHER -> 1]
Default == [s \in Settings |-> CASE s = "io-buffers-size" -> 4096
                                 [] s = "copy-buffers-size" -> 65536
                                 [] s = "idle-timeout" -> 45
                                 [] OTHER -> 100]

\* What the code reads of config.Values.  The files and the server name are only given or not.
Values == [upstreams : Lists, numbers : Numbers, dialerTimeout : Timeouts,
           tlsEnabled : BOOLEAN, tlsInsecureSkipVerify : BOOLEAN, tlsCAFile : BOOLEAN,
           tlsServerName : BOOLEAN, tlsServerEnabled : BOOLEAN, tlsServerKeyPair : BOOLEAN]

\* What the process meets: the flags parse, the CA file is there and holds a certificate, the
\* key pair loads, the proxy's port is free.
World == [flags : BOOLEAN, ca : {"missing", "garbage", "good"}, keyPair : BOOLEAN, port : BOOLEAN]

Schemes == {"http", "https"}

ASSUME StartupAssumption ==
    /\ \A t \in Texts : DOMAIN t = {"scheme", "host", "port"} /\ t.scheme \in Schemes \union {""}
    /\ Lists \subseteq Seq(Texts)
    /\ Numbers \subseteq [Settings -> Int]
    /\ Timeouts \subseteq Nat \ {0}

VARIABLES
    values,      \* the flags, as given
    world,       \* what the process meets
    stage,       \* where main is
    rest,        \* the elements of --upstreams that are not yet parsed
    upstreams,   \* values.Upstreams
    setting,     \* defaultBufSize, pipeCopyBufferSize, idleTimeout, maxUpstreamConnectionsPerHost
    dialTimeout, \* the timeout of customDial, 0 while it is nil
    tlsConfig,   \* tlsConfig of dial.go
    list,        \* keys of upstreamsObj
    metrics,     \* the metrics server
    serverTLS,   \* s.TLSConfig has been set
    listener,    \* how the proxy listens
    link         \* the last connection dialled

config == <<values, world>>
globals == <<setting, dialTimeout, tlsConfig>>
vars == <<values, world, stage, rest, upstreams, setting, dialTimeout, tlsConfig, list, metrics,
          serverTLS, listener, link>>

(***************************************************************************)
(*   "flags"    about to parse the flags                                   *)
(*   "parse"    in parseUpstreams                                          *)
(*   "setters" .. "listen"   in runWith                                    *)
(*   "serving"  in ListenAndServe, requests are handled                    *)
(*   "exited"   log.Fatal, or main has returned                            *)
(***************************************************************************)
Stages == {"flags", "parse", "setters", "tls", "handler", "metrics", "server", "listen", "serving", "exited"}

NoTLS == [roots |-> "none", name |-> FALSE, skip |-> FALSE]
NoText == [scheme |-> "", host |-> "", port |-> ""]
NoLink == [scheme |-> "", host |-> "", port |-> "", tls |-> NoTLS, timeout |-> 0]

StartInit ==
    /\ values \in Values /\ world \in World
    /\ stage = "flags"
    /\ rest = values.upstreams
    /\ upstreams = <<>>
    /\ setting = Default /\ dialTimeout = 0 /\ tlsConfig = NoTLS
    /\ list = <<>>
    /\ metrics = "off" /\ serverTLS = FALSE /\ listener = "none"
    /\ link = NoLink

-----------------------------------------------------------------------------
(* Addresses. *)

\* strings.HasPrefix with http:// and https://; an address without either gets http://.
WithScheme(t) == IF t.scheme = "" THEN [t EXCEPT !.scheme = "http"] ELSE t

\* url.Parse of an address that has a scheme succeeds.
Parses(a) == a.host \notin BadHosts

\* The entry that NewUpstreams and Append make of an address, by ParseAddress or, when that
\* fails, as it is.  Only the address is used to dial: the default port is not.
Entry(t) ==
    LET a == WithScheme(t)
    IN  IF Parses(a)
        THEN [address |-> a, scheme |-> a.scheme, host |-> a.host, parsed |-> TRUE,
              port |-> IF a.port # "" THEN a.port ELSE IF a.scheme = "https" THEN "443" ELSE "80"]
        ELSE [address |-> t, scheme |-> "http", host |-> "", parsed |-> FALSE, port |-> ""]

-----------------------------------------------------------------------------
(* ParseFlags *)

ParseFlags ==
    /\ stage = "flags"
    /\ stage' = IF world.flags THEN "parse" ELSE "exited"
    /\ UNCHANGED <<config, rest, upstreams, globals, list, metrics, serverTLS, listener, link>>

\* Mutants: the address is not parsed; https:// is not known as a prefix.
AddrTrusted(t) == stage' = stage /\ upstreams' = Append(upstreams, WithScheme(t))
AddrHTTPOnly(t) ==
    /\ stage' = stage
    /\ upstreams' = Append(upstreams, IF t.scheme = "http" THEN t ELSE [t EXCEPT !.scheme = "http", !.host = t.scheme])

\* log.Fatalf ends the process at the first address that does not parse.
addrAppend(t) ==
    IF Parses(WithScheme(t)) THEN stage' = stage /\ upstreams' = Append(upstreams, WithScheme(t))
                             ELSE stage' = "exited" /\ UNCHANGED upstreams

parseUpstreams ==
    /\ stage = "parse"
    /\ IF rest = <<>> THEN stage' = "setters" /\ UNCHANGED <<rest, upstreams>>
                      ELSE addrAppend(Head(rest)) /\ rest' = Tail(rest)
    /\ UNCHANGED <<config, globals, list, metrics, serverTLS, listener, link>>

-----------------------------------------------------------------------------
(* runWith *)

\* Mutant: the values of the flags are not tested.
Unchecked(s) == values.numbers[s]

\* A value below the minimum is ignored.
Accepted(s) == IF values.numbers[s] < Minimum[s] THEN setting[s] ELSE values.numbers[s]

\* The dialer is replaced by one with this timeout.
HTTPDialerTimeout(timeout) == dialTimeout' = timeout

\* BufferSize, HTTPDialerTimeout, IdleTimeout, MaxConnectionsPerHost and PipeCopyBufferSize.
Setters ==
    /\ stage = "setters" /\ stage' = "tls"
    /\ setting' = [s \in Settings |-> Accepted(s)]
    /\ HTTPDialerTimeout(values.dialerTimeout)
    /\ UNCHANGED <<config, rest, upstreams, tlsConfig, list, metrics, serverTLS, listener, link>>

\* Mutant: a CA file that cannot be used is skipped.
NewTLSConfigLenient ==
    [ok |-> TRUE,
     cfg |-> [roots |-> IF values.tlsCAFile /\ world.ca = "good" THEN "file" ELSE "system",
              name |-> values.tlsServerName, skip |-> values.tlsInsecureSkipVerify]]

\* An unreadable CA file and one without a certificate are errors.
NewTLSConfig ==
    [ok |-> ~values.tlsCAFile \/ world.ca = "good",
     cfg |-> [roots |-> IF values.tlsCAFile THEN "file" ELSE "system",
              name |-> values.tlsServerName, skip |-> values.tlsInsecureSkipVerify]]

TLSConfig(cfg) == tlsConfig' = cfg

SetTLSConfig ==
    /\ stage = "tls"
    /\ IF values.tlsEnabled => NewTLSConfig.ok
       THEN /\ stage' = "handler"
            /\ IF values.tlsEnabled THEN TLSConfig(NewTLSConfig.cfg) ELSE UNCHANGED tlsConfig
       ELSE stage' = "exited" /\ UNCHANGED tlsConfig
    /\ UNCHANGED <<config, rest, upstreams, setting, dialTimeout, list, metrics, serverTLS, listener, link>>

\* proxy.Handler, which calls NewUpstreams.
Handler ==
    /\ stage = "handler" /\ stage' = "metrics"
    /\ list' = [i \in DOMAIN upstreams |-> Entry(upstreams[i])]
    /\ UNCHANGED <<config, rest, upstreams, globals, metrics, serverTLS, listener, link>>

\* Mutant: serveMetrics runs in the goroutine of main, and returns only if it fails.
StartMetricsInMain ==
    /\ stage = "metrics"
    /\ \/ metrics = "failed" /\ stage' = "server" /\ UNCHANGED metrics
       \/ metrics = "off" /\ metrics' = "starting" /\ UNCHANGED stage
    /\ UNCHANGED <<config, rest, upstreams, globals, list, serverTLS, listener, link>>

StartMetrics ==
    /\ stage = "metrics" /\ stage' = "server"
    /\ metrics' = "starting"
    /\ UNCHANGED <<config, rest, upstreams, globals, list, serverTLS, listener, link>>

\* In its own goroutine; an error is logged.
serveMetrics ==
    /\ metrics = "starting" /\ stage # "exited"
    /\ metrics' \in {"serving", "failed"}
    /\ UNCHANGED <<config, stage, rest, upstreams, globals, list, serverTLS, listener, link>>

\* A name, a certificate and a key, which load.
constructTLSConfig == values.tlsServerName /\ values.tlsServerKeyPair /\ world.keyPair

\* The TLS configuration of the server depends on --tls-enabled.
Server ==
    /\ stage = "server" /\ stage' = "listen"
    /\ serverTLS' = (values.tlsEnabled /\ constructTLSConfig)
    /\ UNCHANGED <<config, rest, upstreams, globals, list, metrics, listener, link>>

\* Server.ListenAndServe does not look at TLSConfig.
ListenAndServe ==
    /\ stage = "listen"
    /\ IF world.port THEN stage' = "serving" /\ listener' = "plain"
                     ELSE stage' = "exited" /\ UNCHANGED listener
    /\ UNCHANGED <<config, rest, upstreams, globals, list, metrics, serverTLS, link>>

\* Accepting fails for good: main returns the error, and log.Fatal ends the other goroutines.
ServeEnds ==
    /\ stage = "serving" /\ stage' = "exited"
    /\ UNCHANGED <<config, rest, upstreams, globals, list, metrics, serverTLS, listener, link>>

-----------------------------------------------------------------------------
(* Requests. *)

\* net.Dial needs a host name and a port.
Dialable(a) == Parses(a) /\ a.host # "" /\ a.port # ""

\* The connection that dial makes: to the address without its prefix, by customDial, and with
\* tls.Client on top when the prefix is https:// and there is a configuration.
dial(a) == [scheme |-> a.scheme, host |-> a.host, port |-> a.port, timeout |-> dialTimeout,
            tls |-> IF a.scheme = "https" THEN tlsConfig ELSE NoTLS]

\* A request for Host t.  Without a list the Host becomes the list, one that does not parse
\* too: the 400 set for it does not end the request.
Request(t) ==
    /\ stage = "serving"
    /\ list = <<>> => t # NoText
    /\ \E e \in IF list = <<>> THEN {Entry(WithScheme(t))} ELSE {list[i] : i \in DOMAIN list} :
          /\ list' = IF list = <<>> THEN <<e>> ELSE list
          /\ \/ Dialable(e.address) /\ link' = dial(e.address)
             \/ link' = NoLink
    /\ UNCHANGED <<config, stage, rest, upstreams, globals, metrics, serverTLS, listener>>

\* The goroutine of main.
Main == ParseFlags \/ parseUpstreams \/ Setters \/ SetTLSConfig \/ Handler \/ StartMetrics
        \/ Server \/ ListenAndServe

StartNext == Main \/ serveMetrics \/ ServeEnds \/ \E t \in Texts : Request(t)

\* The goroutine of main is scheduled.
StartSpec == StartInit /\ [][StartNext]_vars /\ WF_vars(Main)

-----------------------------------------------------------------------------
(* Properties. *)

Addresses == {WithScheme(t) : t \in Texts}

TLSConfigs == [roots : {"none", "system", "file"}, name : BOOLEAN, skip : BOOLEAN]

\* Every variable has its type; the settings of the pool are at least their minima.
StartTypeOK ==
    /\ values \in Values /\ world \in World /\ stage \in Stages
    /\ rest \in Seq(Texts) /\ upstreams \in Seq(Addresses)
    /\ setting \in [Settings -> Int] /\ \A s \in Settings : setting[s] >= Minimum[s]
    /\ dialTimeout \in Timeouts \union {0} /\ tlsConfig \in TLSConfigs
    /\ \A i \in DOMAIN list : list[i].address \in Addresses
    /\ metrics \in {"off", "starting", "serving", "failed"}
    /\ serverTLS \in BOOLEAN /\ listener \in {"none", "plain"}

\* With --tls-enabled no connection to an https upstream is in plain text, and its peer is
\* verified as the flags ask: against the CA file if one is given, never against less because
\* the file could not be used.  It takes the order of runWith and its early return.
HttpsSecured ==
    values.tlsEnabled /\ link.scheme = "https" =>
        /\ link.tls.roots = (IF values.tlsCAFile THEN "file" ELSE "system")
        /\ values.tlsCAFile => world.ca = "good"
        /\ link.tls.name = values.tlsServerName /\ link.tls.skip = values.tlsInsecureSkipVerify

\* With a list, every connection goes to a host and port that stand in it, under the scheme that
\* stands there, and is dialled with the timeout of --dialer-timeout: what addrAppend,
\* ParseAddress and parseUpstreamAddressForDial do to an address cancels out.
GoesWhereTold ==
    values.upstreams # <<>> /\ link # NoLink =>
        /\ link.timeout = values.dialerTimeout
        /\ \E i \in DOMAIN values.upstreams :
              LET t == values.upstreams[i]
              IN  /\ link.host = t.host /\ link.port = t.port
                  /\ link.scheme = "https" <=> t.scheme = "https"

\* upstream.go: "validation was done in config".  NewUpstreams meets no address that does not
\* parse, so only the Host of a request can put such an entry into the list.
ConfiguredParsed == values.upstreams # <<>> => \A i \in DOMAIN list : list[i].parsed

\* The flags, the addresses, the CA file and the port are in order.
InOrder ==
    /\ world.flags /\ world.port
    /\ \A i \in DOMAIN values.upstreams : Parses(values.upstreams[i])
    /\ values.tlsEnabled /\ values.tlsCAFile => world.ca = "good"

\* When they are, the proxy comes to serve, whatever becomes of the metrics server and of the
\* server's key pair.
ProxyServes == InOrder => <>(stage = "serving")

\* docs/Flags.md: --tls-server-enabled enables TLS for the proxy server.
ServerTLS ==
    stage = "serving" /\ values.tlsServerEnabled /\ constructTLSConfig => listener = "tls"

\* docs/Flags.md has an https upstream with --tls-enabled alone.  crypto/tls refuses a handshake
\* without a server name unless verification is off, and nothing takes the name from the address.
HandshakePossible == link.tls # NoTLS => link.tls.name \/ link.tls.skip
=============================================================================
