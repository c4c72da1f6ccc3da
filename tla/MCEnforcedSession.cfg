SPECIFICATION Spec
CONSTANTS
    Byte = {"p", "q", "r", "n", "CR", "NL"}
    HostByte = {"I", "M", "T", "x", "CR", "NL"}
    NL = "NL"
    CR = "CR"
    MaxFrameBytes = 3
    MaxChunkBytes = 4
    MaxFirstFrameBytes = 3
    Capacity = 1
    PipeCapacity = 1
    Agents = {"denied", "burst", "residue", "overflow"}
    Hosts = {"initialize", "overlong", "unfinished"}
    Sources <- AgentStreams
    HostStreams <- ChosenHosts
    Parse <- Decode
    HostParse <- DecodeHost
    HostSerialize <- EncodeHost
INVARIANTS
    TypeOK
    AnswersMatchDenials
    ShutdownDeliversAll
    HostStreamFaithful
    InitializeMasked
    SuccessIsComplete
    FallbackLogged
PROPERTY
    ImplementsContract
CHECK_DEADLOCK FALSE
