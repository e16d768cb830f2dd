\* Three goroutines, with a configured list of two servers and without a list.
\* Without one the process may crash.
CONSTANTS
    Procs = {p1, p2, p3}
    Names <- MCNames
    NoName = NoName
    Schemed <- MCSchemed
    Lists <- MCLists
SPECIFICATION UpstreamsSpec
SYMMETRY Symmetry
INVARIANTS
    UpstreamsTypeOK
    ConfiguredListFixed
    
PROPERTY StaysPopulated
CHECK_DEADLOCK FALSE
