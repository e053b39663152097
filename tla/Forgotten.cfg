SPECIFICATION ClaimsSpec
CONSTANTS
    Server = {s1}
    Client = {c1}
    Generator = Generator
    ZeroPoint = ZeroPoint
    Modulus = 8
    Coord = Coord
    Addr = {c1}
    AddrOf <- OwnAddress
    Lossy = FALSE
    MaxRounds = 1
    Timeouts = FALSE
    ServerTimeouts = FALSE
    MaxCommands = 0
    Commands = {"msg", "vote"}
    TypedVotes = {0, 1}
    PatientOperator = TRUE
    LateServers = FALSE
    EarlyClients = FALSE
CHECK_DEADLOCK FALSE
PROPERTY ConfirmedIsEnrolled
