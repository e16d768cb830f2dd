\* Clients that disconnect while the response is streamed.
CONSTANTS
    Procs = {p1, p2}
    Addrs = {a1}
    Conns = {c1, c2}
    NoConn = NoConn
    DefaultMaxConns = 1
    LimitArgs = {}
    TopLimit = 1
    HalfInt32 = 1000
    DefaultIdleTimeout = 1
    IdleArgs = {}
    MaxTime = 0
    MayForget = TRUE
    BodySizes = {1}
    Statuses = {200}
    Bodiless = {FALSE}
    ClientMayLeave = TRUE
SPECIFICATION FairProxySpec
PROPERTY CapacityReturns
