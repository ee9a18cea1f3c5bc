SPECIFICATION FairSpec
CONSTANTS
    ChunkSize = 2
    BlockModulus = 3
    FullChunks = 2
    TailSize = 0
    Faults = {"loss", "dup", "stray"}
    Ports = {p1, p2}
    NoPort = NoPort
CHECK_DEADLOCK FALSE
PROPERTIES Completion
