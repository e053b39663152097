SPECIFICATION ClaimsSpec
CONSTANTS
    Server = {s1}
    Client = {c1, c2}
    Generator = Generator
    ZeroPoint = ZeroPoint
    Modulus = 8
    Coord = Coord
    Addr = {c1, c2}
    AddrOf <- OwnAddress
    Lossy = FALSE
    MaxRounds = 3
    Timeouts = FALSE
    ServerTimeouts = FALSE
    MaxCommands = 1
    Commands = {"msg", "vote"}
    TypedVotes = {0, 1}
    PatientOperator = TRUE
    LateServers = FALSE
    EarlyClients = FALSE
CHECK_DEADLOCK FALSE
PROPERTY VoteAnswered
SYMMETRY ClientSymmetry
ACTION_CONSTRAINT PromptClients
