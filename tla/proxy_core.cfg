\* Two goroutines, two hosts with limit 1, so that dialNew can overshoot and Release evict.
\* Clients leave at any time, bodies may be empty or skipped.
CONSTANTS
    Procs = {p1, p2}
    Addrs = {a1, a2}
    Conns = {c1, c2}
    NoConn = NoConn
    DefaultMaxConns = 1
    LimitArgs = {}
    TopLimit = 1
    HalfInt32 = 1000
    DefaultIdleTimeout = 1
    IdleArgs = {}
    MaxTime = 2
    MayForget = TRUE
    BodySizes = {0, 2}
    Statuses = {200, 503}
    Bodiless = {TRUE, FALSE}
    ClientMayLeave = TRUE
SPECIFICATION ProxySpec
SYMMETRY Symmetry
INVARIANTS
    ProxyTypeOK
    
    
 
