SPECIFICATION Spec
CONSTANTS
    MAXCLIENTS = 2
    Peers = {p1, p2}
    NoSocket = NoSocket
    acceptSocket = acceptSocket
    Cell = c1
    Healths = {1, 2}
    StreamBound = 1
    InboxBound = 2
    RecvBound = 2
    ResetBound = 0
    JoinBound = 2
SYMMETRY PeerSymmetry
INVARIANTS DifferencesMakeSense
\* Players may all leave for good: the server then waits in select.
CHECK_DEADLOCK FALSE
