SPECIFICATION Spec
CONSTANTS
    HostByte = {"I", "M", "x", "CR", "NL"}
    NL = "NL"
    CR = "CR"
    MaxFirstFrameBytes = 2
    CopyBufferBytes = 2
    Sizes = {"small", "large"}
    MaxResizes = 1
    Execs = {"mixed"}
    Hosts = {"initialize"}
    Codes = {"ok", "negative", "wide"}
    Scripts <- ChosenScripts
    HostStreams <- ChosenHosts
    ExitCodes <- ChosenCodes
    HostParse <- DecodeHost
    HostSerialize <- EncodeHost
INVARIANTS
    TypeOK
    InputFaithful
    ProtocolInputComplete
    ResizesReachExec
    StdinReleased
    StatusTellsSuccess
PROPERTIES
    ImplementsContract
CHECK_DEADLOCK FALSE
