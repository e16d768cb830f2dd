\* Two goroutines, two hosts, the limit and the idle timeout changed at any time.
\* A limit of 0 and an idle timeout of 0 are refused.
CONSTANTS
    Procs = {p1, p2}
    Addrs = {a1, a2}
    Conns = {c1, c2, c3, c4}
    NoConn = NoConn
    DefaultMaxConns = 1
    LimitArgs = {0, 1, 2}
    TopLimit = 2
    HalfInt32 = 1000
    DefaultIdleTimeout = 1
    IdleArgs = {0, 2}
    MaxTime = 2
    MayForget = TRUE
SPECIFICATION Spec
SYMMETRY Symmetry
INVARIANTS
    TypeOK
    OwnedOnce
    IdleUnowned
    CountExact
    OvershootBound
    SocketBound
    FreshestOnTop
PROPERTY ImplementsLease
