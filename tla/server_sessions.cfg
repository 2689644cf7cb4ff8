SPECIFICATION Spec
CONSTANTS
    MAXCLIENTS = 2
    Peers = {p1, p2, p3}
    NoSocket = NoSocket
    acceptSocket = acceptSocket
    ClientPackets <- AllPackets
    Cells = {c1}
    StartCell = c1
    StreamBound = 2
    RecvBound = 2
    ResetBound = 1
SYMMETRY PeerSymmetry
VIEW StateView
CONSTRAINT TablePacketsAlone
INVARIANTS TypeOK CountExact MasterOnRecord NeverBlocks
PROPERTIES LeaversAnnounced MasterHandedOver ImplementsSessions
