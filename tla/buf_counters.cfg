\* Two goroutines, two requests; the setters called at any time, with a size they refuse (2)
\* and one that makes PipeCopyBufferSize replace its pool (4).
CONSTANTS
    Procs = {p1, p2}
    Sizes = {2, 4}
    DefaultSize = 4
    MinSize = 3
    MaxRequests = 2
SPECIFICATION BufSpec
SYMMETRY Symmetry
CHECK_DEADLOCK FALSE
INVARIANTS
    BufTypeOK
    InUseTogether
    PipeInUseExact
    PipeGaugeInRange
