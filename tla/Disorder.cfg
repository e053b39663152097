SPECIFICATION Spec
CONSTANTS
    Server = {s1, s2}
    Client = {c1}
    Generator = Generator
    ZeroPoint = ZeroPoint
    Modulus = 8
    Coord = Coord
    Addr = {c1}
    AddrOf <- OwnAddress
    Lossy = TRUE
    MaxRounds = 2
    Timeouts = TRUE
    ServerTimeouts = FALSE
    MaxCommands = 0
    Commands = {"msg", "vote"}
    TypedVotes = {0, 1}
    PatientOperator = FALSE
    LateServers = TRUE
    EarlyClients = TRUE
CHECK_DEADLOCK FALSE
INVARIANTS PhaseInv ComesHomeWhole
SYMMETRY ProcessSymmetry
PROPERTIES StatusCycle TakesTurns
