SPECIFICATION FairSpec
CONSTANTS
    HostByte = {"I", "M", "x", "CR", "NL"}
    NL = "NL"
    CR = "CR"
    MaxFirstFrameBytes = 2
    CopyBufferBytes = 2
    Sizes = {"small", "large"}
    MaxResizes = 0
    Execs = {"silent"}
    Hosts = {"unfinished"}
    Codes = {"ok"}
    Scripts <- ChosenScripts
    HostStreams <- ChosenHosts
    ExitCodes <- ChosenCodes
    HostParse <- DecodeHost
    HostSerialize <- EncodeHost
PROPERTY
    ExitEndsExec
CHECK_DEADLOCK FALSE
