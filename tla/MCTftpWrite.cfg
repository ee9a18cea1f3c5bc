SPECIFICATION Spec
CONSTANTS
    ChunkSize = 2
    BlockModulus = 3
    FullChunks = 1
    TailSize = 1
    Faults = {"send", "read", "write", "slow", "loss", "dup"}
    Clients = {c1, c2}
    Ports = {p1, p2}
    NoClient = NoClient
    NoPort = NoPort
SYMMETRY Symmetry
CHECK_DEADLOCK FALSE
INVARIANTS IInv StoredIsPrefix ClientSuccess ServerSuccess LockStep
PROPERTIES ImplementsTransfer
