SPECIFICATION FairSpec
CONSTANTS
    Server = {s1, s2, s3}
    Client = {}
    Generator = Generator
    ZeroPoint = ZeroPoint
    Modulus = 8
    Coord = Coord
    Addr = {}
    AddrOf <- OwnAddress
    Lossy = FALSE
    MaxRounds = 2
    Timeouts = FALSE
    ServerTimeouts = TRUE
    MaxCommands = 0
    Commands = {"msg", "vote"}
    TypedVotes = {0, 1}
    PatientOperator = FALSE
    LateServers = TRUE
    EarlyClients = FALSE
CHECK_DEADLOCK FALSE
INVARIANT ChainFollowsServerList
PROPERTIES AnnouncementEnds
