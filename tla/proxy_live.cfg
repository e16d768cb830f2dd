\* Fair goroutines, upstreams that close in the end; no symmetry.
CONSTANTS
    Procs = {p1, p2}
    Addrs = {a1}
    Conns = {c1, c2}
    NoConn = NoConn
    DefaultMaxConns = 1
    LimitArgs = {}
    TopLimit = 1
    HalfInt32 = 1000
    DefaultIdleTimeout = 1
    IdleArgs = {}
    MaxTime = 2
    MayForget = TRUE
    BodySizes = {1, 2}
    Statuses = {200}
    Bodiless = {FALSE}
    ClientMayLeave = FALSE
SPECIFICATION FairProxySpec
INVARIANT NoOrphan

    
    
