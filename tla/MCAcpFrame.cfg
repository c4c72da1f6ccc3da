SPECIFICATION FrameSpec
CONSTANTS
    Byte = {"t", "f", "CR", "NL"}
    NL = "NL"
    CR = "CR"
    MaxFrameBytes = 2
    MaxChunkBytes = 4
    MaxStreamBytes = 6
    Sources <- Streams
    Parse <- Decode
INVARIANTS
    FrameTypeOK
    Verbatim
    LineDecisions
    BufferBounded
    RefusedExactly
PROPERTY
    ImplementsLines
CHECK_DEADLOCK FALSE
