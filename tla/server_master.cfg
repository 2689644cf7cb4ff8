SPECIFICATION Spec
CONSTANTS
    MAXCLIENTS = 2
    Peers = {p1, p2}
    NoSocket = NoSocket
    acceptSocket = acceptSocket
    ClientPackets <- SessionPackets
    Cells = {c1}
    StartCell = c1
    StreamBound = 1
    RecvBound = 1
    ResetBound = 0
INVARIANT MasterIsPlaying
