-------------------------- MODULE StdinForwarding ---------------------------
(***************************************************************************)
(* The task that copies host stdin to container stdin in attached and in   *)
(* plain protocol sessions (forward_host_stdin_to_exec_async, in           *)
(* engine/connection/exec/attached.rs and protocol_stdin.rs, with          *)
(* acp_helpers.rs and host_io.rs).                                         *)
(*                                                                         *)
(* Host stdin is a file: tokio reads it with a blocking call on a thread   *)
(* of its own, which abort() does not reach.  So a read, once begun, goes  *)
(* on until the host sends or closes, even when the task is gone.          *)
(***************************************************************************)
EXTENDS AcpMask, SequencesExt

CONSTANTS
    CopyBufferBytes,   \* the buffer of tokio::io::copy
    HostStreams        \* the byte streams a host may send

ASSUME CopyBufferAssumption == CopyBufferBytes \in Nat \ {0}

ASSUME HostStreamsAssumption == \A h \in HostStreams : h \in Seq(HostByte)

\* Masking what a host may send as its first frame yields bytes of the host.
ASSUME MaskedBytesAssumption ==
    \A h \in HostStreams : \A i \in 1..Len(h) : MaskFrame(SubSeq(h, 1, i)) \in Seq(HostByte)

VARIABLES
    stdinPc,        \* off, first, firstWrite, copy, drain or stopped
    stdinEnd,       \* how it stopped: eof, error or cancelled
    stdinAbort,     \* abort() was called on it
    stdinDisabled,  \* HeldOpenStdin: a reader that never returns
    rewrites,       \* rewrite_acp_initialize
    host,           \* all the bytes the host will ever send
    reading,        \* a blocking read of host stdin is under way
    fetched,        \* bytes that such reads have taken from the host
    hostEnd,        \* what the last read found: open, eof or error
    hostRead,       \* bytes the task has taken out of its reader
    firstFrame,     \* first_frame
    held,           \* read and not yet written to container stdin
    input,          \* written to container stdin
    inputShut       \* container stdin was shut down in order

readerVars == <<reading, fetched, hostEnd>>
choiceVars == <<stdinDisabled, rewrites, host>>
copyVars == <<stdinPc, stdinEnd, hostRead, firstFrame, held, input, inputShut>>
stdinVars == <<copyVars, stdinAbort, readerVars, choiceVars>>

StdinInit ==
    /\ stdinPc = "off" /\ stdinEnd = "running" /\ stdinAbort = FALSE
    /\ stdinDisabled \in BOOLEAN /\ rewrites \in BOOLEAN /\ host \in HostStreams
    /\ reading = FALSE /\ fetched = 0 /\ hostEnd = "open"
    /\ hostRead = 0 /\ firstFrame = <<>> /\ held = <<>>
    /\ input = <<>> /\ inputShut = FALSE

StdinAlive == stdinPc \notin {"off", "stopped"}

\* spawn_stdin_forwarding_task.
SpawnStdin ==
    /\ stdinPc = "off"
    /\ stdinPc' = IF rewrites THEN "first" ELSE "copy"
    /\ UNCHANGED <<stdinEnd, hostRead, firstFrame, held, input, inputShut>>
    /\ UNCHANGED <<stdinAbort, readerVars, choiceVars>>

\* JoinHandle::abort, whose effect comes later.
AbortStdin ==
    /\ stdinAbort' = TRUE
    /\ UNCHANGED <<copyVars, readerVars, choiceVars>>

----------------------------------------------------------------------------
(* Reading host stdin.                                                     *)

\* The task is at a read, and has room for what it returns.
AtRead ==
    \/ stdinPc = "first" /\ ~FirstFrameFull(firstFrame)
    \/ stdinPc = "copy" /\ Len(held) < CopyBufferBytes

\* Nothing is left in the task's reader.
ReaderEmpty == hostRead = fetched

\* Only the reader of a host stdin that is forwarded starts a blocking read.
StartRead ==
    /\ AtRead /\ ReaderEmpty
    /\ ~stdinDisabled /\ ~reading /\ hostEnd = "open"
    /\ reading' = TRUE
    /\ UNCHANGED <<copyVars, stdinAbort, fetched, hostEnd, choiceVars>>

\* The host sends: the read returns, whether or not the task still waits.
HostSends(k) ==
    /\ reading
    /\ fetched + k <= Len(host)
    /\ fetched' = fetched + k /\ reading' = FALSE
    /\ UNCHANGED <<copyVars, stdinAbort, hostEnd, choiceVars>>

\* The host closes its end, or the read fails.
HostEnds(how) ==
    /\ reading
    /\ how = "eof" => fetched = Len(host)
    /\ hostEnd' = how /\ reading' = FALSE
    /\ UNCHANGED <<copyVars, stdinAbort, fetched, choiceVars>>

HostBytes(k) == SubSeq(host, hostRead + 1, hostRead + k)

----------------------------------------------------------------------------
(* The first frame: forward_initial_acp_frame_async.                       *)

\* read_next_bounded_frame_chunk takes k bytes, up to the newline or the limit.
ReadFirstFrame(k) ==
    /\ stdinPc = "first" /\ ~FirstFrameFull(firstFrame)
    /\ hostRead + k <= fetched
    /\ Len(firstFrame) + k <= MaxFirstFrameBytes
    /\ \A i \in 1..(k - 1) : HostBytes(k)[i] # NL
    /\ hostRead' = hostRead + k
    /\ firstFrame' = firstFrame \o HostBytes(k)
    /\ IF FirstFrameComplete(firstFrame')
       THEN stdinPc' = "firstWrite" /\ held' = MaskFrame(firstFrame')
       ELSE UNCHANGED <<stdinPc, held>>
    /\ UNCHANGED <<stdinEnd, input, inputShut, stdinAbort, readerVars, choiceVars>>

\* ForwardUnchanged: the limit is checked before the next read.
FirstFrameUnchanged ==
    /\ stdinPc = "first"
    /\ FirstFrameFull(firstFrame) \/ (ReaderEmpty /\ hostEnd = "eof")
    /\ stdinPc' = "firstWrite" /\ held' = firstFrame
    /\ UNCHANGED <<stdinEnd, hostRead, firstFrame, input, inputShut>>
    /\ UNCHANGED <<stdinAbort, readerVars, choiceVars>>

\* The first frame given to the copy without waiting for its write_all.
FirstFrameDropped ==
    /\ stdinPc = "firstWrite"
    /\ stdinPc' = "copy" /\ held' = <<>>
    /\ UNCHANGED <<stdinEnd, hostRead, firstFrame, input, inputShut>>
    /\ UNCHANGED <<stdinAbort, readerVars, choiceVars>>

\* write_all of the first frame is done, and the raw copy begins.
FirstFrameWritten ==
    /\ stdinPc = "firstWrite" /\ held = <<>>
    /\ stdinPc' = "copy"
    /\ UNCHANGED <<stdinEnd, hostRead, firstFrame, held, input, inputShut>>
    /\ UNCHANGED <<stdinAbort, readerVars, choiceVars>>

----------------------------------------------------------------------------
(* The copy, which reads ahead while its writes wait, and the end.         *)

\* A copy that reads on however much it holds.
CopyReadUnbounded(k) ==
    /\ stdinPc = "copy"
    /\ hostRead + k <= fetched
    /\ hostRead' = hostRead + k /\ held' = held \o HostBytes(k)
    /\ UNCHANGED <<stdinPc, stdinEnd, firstFrame, input, inputShut>>
    /\ UNCHANGED <<stdinAbort, readerVars, choiceVars>>

CopyRead(k) ==
    /\ stdinPc = "copy"
    /\ hostRead + k <= fetched
    /\ Len(held) + k <= CopyBufferBytes
    /\ hostRead' = hostRead + k /\ held' = held \o HostBytes(k)
    /\ UNCHANGED <<stdinPc, stdinEnd, firstFrame, input, inputShut>>
    /\ UNCHANGED <<stdinAbort, readerVars, choiceVars>>

\* The copy has read everything; it still has to write what it holds.
CopyEof ==
    /\ stdinPc = "copy" /\ AtRead
    /\ ReaderEmpty /\ hostEnd = "eof"
    /\ stdinPc' = "drain"
    /\ UNCHANGED <<stdinEnd, hostRead, firstFrame, held, input, inputShut>>
    /\ UNCHANGED <<stdinAbort, readerVars, choiceVars>>

\* Container stdin takes the first k bytes of what is held.
WriteHeld(k) ==
    /\ stdinPc \in {"firstWrite", "copy", "drain"}
    /\ k <= Len(held)
    /\ input' = input \o SubSeq(held, 1, k)
    /\ held' = SubSeq(held, k + 1, Len(held))
    /\ UNCHANGED <<stdinPc, stdinEnd, hostRead, firstFrame, inputShut>>
    /\ UNCHANGED <<stdinAbort, readerVars, choiceVars>>

StopStdin(how) ==
    /\ stdinPc' = "stopped" /\ stdinEnd' = how
    /\ UNCHANGED <<hostRead, firstFrame, held, input>>
    /\ UNCHANGED <<stdinAbort, readerVars, choiceVars>>

\* flush and shutdown, once everything is written.
ShutInput ==
    /\ stdinPc = "drain" /\ held = <<>>
    /\ inputShut' = TRUE
    /\ StopStdin("eof")

\* A failed read, write, flush or shutdown ends the task with its error.
StdinFails ==
    /\ \/ AtRead /\ ReaderEmpty /\ hostEnd = "error"
       \/ stdinPc = "firstWrite" /\ held # <<>>
       \/ stdinPc \in {"copy", "drain"}
    /\ StopStdin("error") /\ UNCHANGED inputShut

\* An aborted task ends at whatever await it has reached.
CancelStdin == StdinAlive /\ StopStdin("cancelled") /\ UNCHANGED inputShut

StdinCancelled == stdinAbort /\ CancelStdin

StdinTask ==
    \/ StartRead \/ FirstFrameUnchanged \/ FirstFrameWritten
    \/ \E k \in 1..Len(host) : ReadFirstFrame(k) \/ CopyRead(k)
    \/ \E k \in 1..Len(held) : WriteHeld(k)
    \/ CopyEof \/ ShutInput \/ StdinFails \/ StdinCancelled

Host ==
    \/ \E k \in 1..Len(host) : HostSends(k)
    \/ \E how \in {"eof", "error"} : HostEnds(how)

----------------------------------------------------------------------------
(* Properties.                                                             *)

StdinTypeOK ==
    /\ stdinPc \in {"off", "first", "firstWrite", "copy", "drain", "stopped"}
    /\ stdinEnd \in {"running", "eof", "error", "cancelled"}
    /\ stdinAbort \in BOOLEAN /\ stdinDisabled \in BOOLEAN /\ rewrites \in BOOLEAN
    /\ host \in Seq(HostByte) /\ reading \in BOOLEAN
    /\ fetched \in 0..Len(host) /\ hostRead \in 0..fetched
    /\ hostEnd \in {"open", "eof", "error"}
    /\ firstFrame \in Seq(HostByte) /\ Len(firstFrame) <= MaxFirstFrameBytes
    /\ held \in Seq(HostByte) /\ input \in Seq(HostByte)
    /\ stdinPc = "copy" => Len(held) <= CopyBufferBytes
    /\ inputShut \in BOOLEAN

\* What the task makes of the bytes it has read.
Forwarded == IF rewrites THEN Translated(SubSeq(host, 1, hostRead))
             ELSE SubSeq(host, 1, hostRead)

\* What it makes of all that the host will ever send.
AllForwarded == IF rewrites THEN Translated(host) ELSE host

\* Container stdin and what is on its way to it are exactly what was read, unless
\* that is an unfinished first frame.
InputIsRead ==
    \/ input \o held = Forwarded
    \/ /\ input = <<>> /\ held = <<>> /\ rewrites /\ stdinPc \in {"first", "stopped"}
       /\ firstFrame = SubSeq(host, 1, hostRead)

\* Nothing of host stdin is lost, repeated or reordered between the first frame,
\* the copy and the end: however reads and writes cut it, container stdin is at
\* all times a prefix of the host's stream with at most the first line masked, and
\* it is shut down only when it is all of that (protocol_stdin.rs:162-179).
InputFaithful ==
    /\ InputIsRead
    /\ IsPrefix(input, AllForwarded)
    /\ inputShut => input = AllForwarded

----------------------------------------------------------------------------
(* The inductive invariant.                                                *)

\* Where the first line ends is known, or that it does not end within the limit.
FirstLineKnown ==
    \/ hostRead = Len(host)
    \/ \E i \in 1..hostRead : i <= MaxFirstFrameBytes /\ FirstNewlineAt(host, i)
    \/ hostRead >= MaxFirstFrameBytes /\ \A i \in 1..MaxFirstFrameBytes : host[i] # NL

\* How the task's place and how it stopped limit what it has read and written.
PlaceInv ==
    /\ host \in HostStreams
    /\ stdinPc = "stopped" <=> stdinEnd # "running"
    /\ hostEnd = "eof" => fetched = Len(host)
    /\ stdinPc = "drain" => hostRead = Len(host)
    /\ stdinEnd = "eof" => inputShut
    /\ inputShut => stdinPc = "stopped" /\ hostRead = Len(host)

FirstFrameInv ==
    /\ stdinPc \in {"off", "first"} =>
          /\ input = <<>> /\ held = <<>> /\ firstFrame = SubSeq(host, 1, hostRead)
          /\ \A i \in 1..hostRead : host[i] # NL
    /\ stdinPc = "off" => hostRead = 0
    /\ stdinPc \in {"first", "firstWrite"} => rewrites
    /\ stdinPc \in {"firstWrite", "copy", "drain"} /\ rewrites => FirstLineKnown

CopiedInv ==
    /\ stdinPc \in {"off", "firstWrite", "copy", "drain"} => input \o held = Forwarded
    /\ inputShut => held = <<>> /\ input \o held = Forwarded
    /\ stdinPc = "stopped" /\ input # <<>> /\ rewrites => FirstLineKnown
    /\ InputIsRead

ForwardingInv == StdinTypeOK /\ PlaceInv /\ FirstFrameInv /\ CopiedInv

=============================================================================
