SPECIFICATION Spec
CONSTANTS
    MAXCLIENTS = 2
    Peers = {p1, p2}
    NoSocket = NoSocket
    acceptSocket = acceptSocket
    Cell = c1
    Healths = {1}
    StreamBound = 2
    InboxBound = 2
    RecvBound = 2
    ResetBound = 0
    JoinBound = 3
SYMMETRY PeerSymmetry
VIEW StateView
CONSTRAINTS UnderWayBound RepeatAlone
INVARIANTS TypeOK NumberIsOurs NobodyThrownOut
PROPERTIES ImplementsServer
\* Players may all leave for good: the server then waits in select.
CHECK_DEADLOCK FALSE
