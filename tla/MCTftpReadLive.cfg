SPECIFICATION FairSpec
CONSTANTS
    ChunkSize = 2
    BlockModulus = 4
    FullChunks = 2
    TailSize = 0
    Faults = {"slow", "loss", "dup", "stray"}
    Ports = {p1, p2}
    NoPort = NoPort
CHECK_DEADLOCK FALSE
PROPERTIES Termination Completion
