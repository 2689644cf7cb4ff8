SPECIFICATION FairSpec
CONSTANTS
    MAXCLIENTS = 1
    PORT = 3
    LowestPort = 2
    OpenPassword = "nopassword"
    Passwords = {"nopassword", "secret"}
    Unread = ""
    Settings <- FileSettings
    NoFile = NoFile
    SendBound = 1
    AdminBound = 2
    RequestBound = 1
    EventBound = 2
INVARIANTS TypeOK PortsAgree NeverListedOpen CountBehindSeats OverlapCost
PROPERTIES NeverTakenOver MainComesBack AdminAccepted
CHECK_DEADLOCK FALSE
