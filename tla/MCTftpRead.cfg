SPECIFICATION Spec
CONSTANTS
    ChunkSize = 2
    BlockModulus = 4
    FullChunks = 2
    TailSize = 1
    Faults = {"send", "read", "write", "slow", "loss", "dup", "stray", "stop"}
    Ports = {p1, p2}
    NoPort = NoPort
CHECK_DEADLOCK FALSE
INVARIANTS IInv TypeOK TargetIsPrefix ClientSuccess ServerSuccess LockStep
PROPERTIES ImplementsTransfer
