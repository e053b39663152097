SPECIFICATION Spec
CONSTANTS
    Prime = 7
    Points <- Residues
    Secrets <- Residues
    Base = 1
    Add <- AddMod
    Sub <- SubMod
    Mul <- MulMod
    SecretMul <- MulMod
    SecretSub <- SubMod
    Message = {3}
    hashElGamal <- HashMod
    Radix = 2
    NoBytes = NoBytes
    Nobody = Nobody
    Client = {1, 2, 3}
    clientKey <- Keys
    serverKey <- TwoServers
    RoundSecrets = {2, 5}
    Generators <- NotZero
    Blindings = {3}
    MaxRounds = 3
    MaxVotes = 1
CHECK_DEADLOCK FALSE
INVARIANTS ListsAccepted SignatureNamesMember
PROPERTY LedgerKept
