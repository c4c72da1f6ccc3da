SPECIFICATION FairSpec
CONSTANTS
    HostByte = {"I", "M", "x", "CR", "NL"}
    NL = "NL"
    CR = "CR"
    MaxFirstFrameBytes = 2
    CopyBufferBytes = 2
    Sizes = {"small", "large"}
    MaxResizes = 1
    Execs = {"echo"}
    Hosts = {"unfinished"}
    Codes = {"ok"}
    Scripts <- ChosenScripts
    HostStreams <- ChosenHosts
    ExitCodes <- ChosenCodes
    HostParse <- DecodeHost
    HostSerialize <- EncodeHost
PROPERTIES
    ExitEndsCall
    NoTaskLeft
CHECK_DEADLOCK FALSE
