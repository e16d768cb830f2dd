\* The flags that docs/Flags.md gives for TLS on the side of the proxy.
CONSTANTS
    Texts <- MCTexts
    BadHosts = {"%"}
    Lists <- MCLists
    Numbers <- MCNumbers
    Timeouts = {30}
SPECIFICATION StartSpec
INVARIANT ServerTLS
CHECK_DEADLOCK FALSE
