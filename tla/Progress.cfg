SPECIFICATION FairSpec
CONSTANTS
    Server = {s1, s2}
    Client = {c1, c2}
    Generator = Generator
    ZeroPoint = ZeroPoint
    Modulus = 8
    Coord = Coord
    Addr = {a}
    AddrOf <- OneAddress
    Lossy = FALSE
    MaxRounds = 2
    Timeouts = FALSE
    ServerTimeouts = FALSE
    MaxCommands = 1
    Commands = {"msg", "exit"}
    TypedVotes = {0, 1}
    PatientOperator = TRUE
    LateServers = FALSE
    EarlyClients = FALSE
CHECK_DEADLOCK FALSE
PROPERTIES RegistrationAnswered AnnouncementEnds RoundEnds
INVARIANT OneClientPerAddress
