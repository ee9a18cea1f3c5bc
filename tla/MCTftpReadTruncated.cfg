SPECIFICATION Spec
CONSTANTS
    ChunkSize = 2
    BlockModulus = 4
    FullChunks = 2
    TailSize = 1
    Faults = {"read", "slow"}
    Ports = {p1, p2}
    NoPort = NoPort
CHECK_DEADLOCK FALSE
INVARIANTS LastDataReceived
