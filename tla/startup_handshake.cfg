\* An http and an https upstream, as in the example of docs/Flags.md.
CONSTANTS
    Texts <- MCTexts
    BadHosts = {"%"}
    Lists <- MCLists
    Numbers <- MCNumbers
    Timeouts = {30}
SPECIFICATION StartSpec
INVARIANT HandshakePossible
CHECK_DEADLOCK FALSE
