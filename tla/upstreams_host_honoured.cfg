\* No list: every request should go to its own host.
CONSTANTS
    Procs = {p1}
    Names <- MCNames
    NoName = NoName
    Schemed <- MCSchemed
    Lists <- NoLists
SPECIFICATION UpstreamsSpec
SYMMETRY Symmetry
INVARIANT HostHonoured
CHECK_DEADLOCK FALSE
