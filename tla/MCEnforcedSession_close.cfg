SPECIFICATION Spec
CONSTANTS
    Byte = {"p", "q", "r", "n", "CR", "NL"}
    HostByte = {"I", "M", "T", "x", "CR", "NL"}
    NL = "NL"
    CR = "CR"
    MaxFrameBytes = 3
    MaxChunkBytes = 5
    MaxFirstFrameBytes = 3
    Capacity = 1
    PipeCapacity = 1
    Agents = {"denied"}
    Hosts = {"unfinished"}
    Sources <- AgentStreams
    HostStreams <- ChosenHosts
    Parse <- Decode
    HostParse <- DecodeHost
    HostSerialize <- EncodeHost
INVARIANT
    AnswersBeforeClose
CHECK_DEADLOCK FALSE
