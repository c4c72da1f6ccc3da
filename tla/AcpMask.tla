------------------------------- MODULE AcpMask -------------------------------
(***************************************************************************)
(* Masking of the first host frame (engine/connection/exec/acp_helpers.rs).*)
(*                                                                         *)
(* A host message is abstracted to its method and to the keys of           *)
(* params.clientCapabilities: NoCapabilities when there is no such object. *)
(***************************************************************************)
EXTENDS Framing

CONSTANTS
    HostByte,             \* the byte values of host stdin
    MaxFirstFrameBytes,   \* MAX_FIRST_FRAME_BYTES
    HostParse(_),         \* serde_json::from_slice
    HostSerialize(_)      \* serde_json::to_vec

ASSUME MaskAssumption == MaxFirstFrameBytes \in Nat \ {0}

NoCapabilities == {"no clientCapabilities object"}

MaskedCapabilities == {"terminal", "fs"}

\* remove_masked_acp_capabilities: does it change the message?
Maskable(message) ==
    /\ message.parses
    /\ message.method = "initialize"
    /\ message.capabilities # NoCapabilities
    /\ message.capabilities \cap MaskedCapabilities # {}

\* remove_masked_acp_capabilities when only one of the two families is removed.
RemoveTerminalOnly(message) ==
    LET kept == message.capabilities \ {"terminal"}
    IN  [message EXCEPT !.capabilities = IF kept = {} THEN NoCapabilities ELSE kept]

\* remove_masked_acp_capabilities: an object left empty is removed too.
RemoveMaskedCapabilities(message) ==
    LET kept == message.capabilities \ MaskedCapabilities
    IN  [message EXCEPT !.capabilities = IF kept = {} THEN NoCapabilities ELSE kept]

\* mask_acp_initialize_frame: re-serialized with its line ending when something
\* was removed, byte-identical otherwise.
MaskFrame(frame) ==
    LET message == HostParse(Payload(frame))
    IN  IF Maskable(message)
        THEN HostSerialize(RemoveMaskedCapabilities(message)) \o LineEnding(frame)
        ELSE frame

\* next_initial_frame_action, after a read that appended to the first frame.
FirstFrameComplete(frame) == frame # <<>> /\ frame[Len(frame)] = NL

\* next_initial_frame_action, with the limit one byte early.
FirstFrameNearlyFull(frame) == Len(frame) >= MaxFirstFrameBytes - 1

\* next_initial_frame_action, before a read.
FirstFrameFull(frame) == Len(frame) = MaxFirstFrameBytes

\* What host stdin becomes: its first line masked if it is within the limit.
Translated(bytes) ==
    LET ends == {i \in 1..Len(bytes) : i <= MaxFirstFrameBytes /\ FirstNewlineAt(bytes, i)}
    IN  IF ends = {} THEN bytes
        ELSE LET i == CHOOSE j \in ends : TRUE
             IN  MaskFrame(SubSeq(bytes, 1, i)) \o SubSeq(bytes, i + 1, Len(bytes))

=============================================================================
