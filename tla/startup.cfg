\* Every combination of the TLS flags, four lists, three settings of the numeric flags.
\* The process may exit.
CONSTANTS
    Texts <- MCTexts
    BadHosts = {"%"}
    Lists <- MCLists
    Numbers <- MCNumbers
    Timeouts = {30}
SPECIFICATION StartSpec
INVARIANTS
    StartTypeOK
    HttpsSecured
    GoesWhereTold
    ConfiguredParsed
PROPERTY ProxyServes
CHECK_DEADLOCK FALSE
