\* Two goroutines, three exchanges on two connections to one host, responses of two
\* bytes, none, or one too many; readers that buffer two bytes.
CONSTANTS
    Procs = {p1, p2}
    Addrs = {a1}
    Conns = {c1, c2}
    NoConn = NoConn
    Bufs = {b1, b2}
    NoBuf = NoBuf
    BufSize = 2
    Lengths = {0, 2}
    Surplus = 1
    MaxExchanges = 3
SPECIFICATION ReadersSpec
SYMMETRY Symmetry
INVARIANTS
    ReadersTypeOK
    
    
    
    
CHECK_DEADLOCK FALSE
