SPECIFICATION FairSpec
CONSTANTS
    Handles = {s1, s2, s3}
    INVALID_SOCKET = INVALID_SOCKET
    MaxFiles = 2
INVARIANTS TypeOK StopLeavesNothing OneConnection
 
