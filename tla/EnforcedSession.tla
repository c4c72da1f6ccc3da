--------------------------- MODULE EnforcedSession ---------------------------
(***************************************************************************)
(* A protocol exec session under CapabilityPolicy::MaskAndDeny             *)
(* (run_session_with_runtime_enforcement, engine/connection/exec/          *)
(* protocol.rs, with acp_runtime.rs, protocol_stdin.rs and                 *)
(* protocol_output.rs).  Three tasks run concurrently:                     *)
(*                                                                         *)
(*   the coordinator  polls the container output stream, feeds the frame   *)
(*                    assembler (AcpFrame), writes permitted frames to     *)
(*                    host stdout, queues error responses, then settles    *)
(*                    the other two tasks and reports the result;          *)
(*   the stdin task   reads host stdin, masks the first frame (AcpMask)    *)
(*                    and queues what it reads;                            *)
(*   the sink         owns container stdin and writes what is queued.      *)
(*                                                                         *)
(* They share one bounded channel.  Around them: the agent in the          *)
(* container, which may or may not read its stdin, the host, which may     *)
(* never close stdin, and the daemon's connection, which may fail.         *)
(***************************************************************************)
EXTENDS AcpFrame, AcpMask, SequencesExt

CONSTANTS
    Capacity,      \* SINK_CHANNEL_CAPACITY
    PipeCapacity,  \* writes the container's stdin pipe holds unread
    HostStreams    \* the byte streams a host may send

ASSUME SessionAssumption == Capacity \in Nat \ {0} /\ PipeCapacity \in Nat \ {0}

ASSUME HostStreamsAssumption == \A h \in HostStreams : h \in Seq(HostByte)

\* Masking what a host may send as its first frame yields bytes of the host.
ASSUME MaskedBytesAssumption ==
    \A h \in HostStreams : \A i \in 1..Len(h) : MaskFrame(SubSeq(h, 1, i)) \in Seq(HostByte)

\* A message has the three fields, and what masking writes is compact JSON that
\* reads back as the message it came from: serde_json escapes every newline and
\* carriage return.
ASSUME SerializeAssumption ==
    \A h \in HostStreams : \A i \in 1..Len(h) :
        LET message == HostParse(Payload(SubSeq(h, 1, i)))
            masked == RemoveMaskedCapabilities(message)
            text == HostSerialize(masked)
        IN  /\ message = [parses |-> message.parses, method |-> message.method,
                          capabilities |-> message.capabilities]
            /\ Maskable(message) =>
                  /\ HostParse(text) = masked
                  /\ text \in Seq(HostByte) /\ \A j \in 1..Len(text) : text[j] \notin {NL, CR}

VARIABLES
    \* the coordinator
    pc,             \* recv, dispatch, finish, settle, await or done
    next,           \* index of the next output to dispatch
    overflowed,     \* ingest_chunk returned BufferOverflow for this chunk
    warnings,       \* fallback warnings logged: fallback_logged as a count
    outputOk,       \* output_result
    result,         \* what the session returned
    adapterSender,  \* the adapter still holds its sender
    \* the channel
    chan,           \* commands sent and not received
    queued,         \* history: every command ever sent
    \* the stdin task
    stdinPc,        \* first, pump, send or stopped
    stdinEnd,       \* how it stopped: eof, sink gone, error or cancelled
    stdinAbort,     \* abort() was called on it
    stdinDisabled,  \* disable_stdin_forwarding: a reader that never returns
    host,           \* all the bytes the host will ever send
    hostRead,       \* how many of them have been read
    firstFrame,     \* first_frame
    pending,        \* the command being sent
    \* the sink
    sinkPc,         \* recv, write, shutdown, done, failed or aborted
    sinkAbort,      \* abort() was called on it
    sinkCommand,    \* the command being written
    inputAlive,     \* input_alive
    inputShut,      \* container stdin was shut down
    delivered,      \* history: every command written to container stdin
    \* the agent
    agentAlive,     \* the exec process is running
    unread          \* writes in the pipe that the agent has not read

coordVars == <<pc, next, overflowed, warnings, outputOk, result, adapterSender>>
chanVars == <<chan, queued>>
stdinVars == <<stdinPc, stdinEnd, stdinAbort, stdinDisabled, host, hostRead, firstFrame, pending>>
sinkVars == <<sinkPc, sinkAbort, sinkCommand, inputAlive, inputShut, delivered>>
agentVars == <<agentAlive, unread>>
vars == <<frameVars, coordVars, chanVars, stdinVars, sinkVars, agentVars>>

----------------------------------------------------------------------------
(* The channel.                                                            *)

\* WriteCmd.
HostCommand(bytes) == [kind |-> "Forward", bytes |-> bytes]
Synthesized(response) == [kind |-> "Synthesized", response |-> response]
NoCommand == [kind |-> "none"]

\* The sink's receiver is dropped when its task ends.
ReceiverAlive == sinkPc \in {"recv", "write", "shutdown", "done"}

\* An unbounded channel.
SendUnbounded(command) ==
    /\ ReceiverAlive
    /\ chan' = Append(chan, command)
    /\ queued' = Append(queued, command)

\* A tokio mpsc send that completes at once.
Send(command) ==
    /\ ReceiverAlive
    /\ Len(chan) < Capacity
    /\ chan' = Append(chan, command)
    /\ queued' = Append(queued, command)

\* The sink stopping with the adapter, as if stdin held no clone of the sender.
NoAdapter == ~adapterSender

\* recv() returns None only when no sender is left.
NoSenders == ~adapterSender /\ stdinPc = "stopped"

----------------------------------------------------------------------------
Init ==
    /\ FrameInit
    /\ pc = "recv" /\ next = 1 /\ overflowed = FALSE /\ warnings = 0
    /\ outputOk = TRUE /\ result = "none" /\ adapterSender = TRUE
    /\ chan = <<>> /\ queued = <<>>
    /\ stdinPc = "first" /\ stdinEnd = "running" /\ stdinAbort = FALSE
    /\ stdinDisabled \in BOOLEAN
    /\ host \in HostStreams
    /\ hostRead = 0 /\ firstFrame = <<>> /\ pending = NoCommand
    /\ sinkPc = "recv" /\ sinkAbort = FALSE /\ sinkCommand = NoCommand
    /\ inputAlive = TRUE /\ inputShut = FALSE /\ delivered = <<>>
    /\ agentAlive = TRUE /\ unread = 0

----------------------------------------------------------------------------
(* The coordinator: run_output_loop_with_adapter.                          *)

\* A StdOut or Console chunk arrives and ingest_chunk starts on it.
RecvChunk(k) ==
    /\ pc = "recv"
    /\ Ingest(k) \/ IngestRaw(k)
    /\ pc' = "dispatch"
    /\ UNCHANGED <<next, overflowed, warnings, outputOk, result, adapterSender>>
    /\ UNCHANGED <<chanVars, stdinVars, sinkVars, agentVars>>

\* An iteration of ingest_chunk. No await, so nothing can come in between.
ScanChunk ==
    /\ Scan
    /\ overflowed' = (rawFallback' /\ ~rawFallback)
    /\ UNCHANGED <<pc, next, warnings, outputOk, result, adapterSender>>
    /\ UNCHANGED <<chanVars, stdinVars, sinkVars, agentVars>>

\* The adapter has outputs to dispatch, and this is the first.
Dispatching(kind) ==
    /\ pc = "dispatch" /\ chunk = <<>>
    /\ next <= Len(outputs)
    /\ outputs[next].kind = kind

\* A permitted frame is written to host stdout.
DispatchForward ==
    /\ Dispatching("Forward")
    /\ next' = next + 1
    /\ UNCHANGED <<pc, overflowed, warnings, outputOk, result, adapterSender>>
    /\ UNCHANGED <<frameVars, chanVars, stdinVars, sinkVars, agentVars>>

\* Host stdout fails: the rest of the outputs are dropped and the loop ends.
HostStdoutFails ==
    /\ Dispatching("Forward")
    /\ outputOk' = FALSE
    /\ pc' = "finish"
    /\ UNCHANGED <<next, overflowed, warnings, result, adapterSender>>
    /\ UNCHANGED <<frameVars, chanVars, stdinVars, sinkVars, agentVars>>

\* A blocked notification is only logged.
DispatchNotification ==
    /\ Dispatching("BlockNotification")
    /\ next' = next + 1
    /\ UNCHANGED <<pc, overflowed, warnings, outputOk, result, adapterSender>>
    /\ UNCHANGED <<frameVars, chanVars, stdinVars, sinkVars, agentVars>>

\* A request answered with try_send: a full channel is only logged.
DispatchRequestOrDrop ==
    /\ Dispatching("BlockRequest")
    /\ Send(Synthesized(Response(outputs[next]))) \/ (Len(chan) >= Capacity /\ UNCHANGED chanVars)
    /\ next' = next + 1
    /\ UNCHANGED <<pc, overflowed, warnings, outputOk, result, adapterSender>>
    /\ UNCHANGED <<frameVars, stdinVars, sinkVars, agentVars>>

\* A blocked request is answered through the channel; when the channel is full
\* the coordinator waits here and reads no more output.
DispatchRequest ==
    /\ Dispatching("BlockRequest")
    /\ Send(Synthesized(Response(outputs[next])))
    /\ next' = next + 1
    /\ UNCHANGED <<pc, overflowed, warnings, outputOk, result, adapterSender>>
    /\ UNCHANGED <<frameVars, stdinVars, sinkVars, agentVars>>

\* send_synthesized_or_log when the sink is gone: logged, and the loop goes on.
DispatchRequestSinkGone ==
    /\ Dispatching("BlockRequest")
    /\ ~ReceiverAlive
    /\ next' = next + 1
    /\ UNCHANGED <<pc, overflowed, warnings, outputOk, result, adapterSender>>
    /\ UNCHANGED <<frameVars, chanVars, stdinVars, sinkVars, agentVars>>

\* Logging on every chunk from the overflow on: fallback_logged never consulted.
EndChunkLoggingAgain ==
    /\ pc = "dispatch" /\ chunk = <<>>
    /\ next > Len(outputs)
    /\ warnings' = IF overflowed THEN warnings + 1 ELSE warnings
    /\ pc' = "recv"
    /\ UNCHANGED <<next, overflowed, outputOk, result, adapterSender>>
    /\ UNCHANGED <<frameVars, chanVars, stdinVars, sinkVars, agentVars>>

\* handle_chunk is over: log a fallback, go back to the stream.
EndChunk ==
    /\ pc = "dispatch" /\ chunk = <<>>
    /\ next > Len(outputs)
    /\ warnings' = IF overflowed THEN warnings + 1 ELSE warnings
    /\ overflowed' = FALSE
    /\ pc' = "recv"
    /\ UNCHANGED <<next, outputOk, result, adapterSender>>
    /\ UNCHANGED <<frameVars, chanVars, stdinVars, sinkVars, agentVars>>

\* A StdErr chunk that host stderr refuses, or an error of the stream.
OutputFails ==
    /\ pc = "recv"
    /\ outputOk' = FALSE
    /\ pc' = "finish"
    /\ UNCHANGED <<next, overflowed, warnings, result, adapterSender>>
    /\ UNCHANGED <<frameVars, chanVars, stdinVars, sinkVars, agentVars>>

\* The stream ends, wherever the agent was in what it had to say.
OutputEnds ==
    /\ pc = "recv"
    /\ pc' = "finish"
    /\ UNCHANGED <<next, overflowed, warnings, outputOk, result, adapterSender>>
    /\ UNCHANGED <<frameVars, chanVars, stdinVars, sinkVars, agentVars>>

\* The adapter is finished but not dropped.
CloseAdapterLate ==
    /\ pc = "finish"
    /\ Finish
    /\ warnings' = IF buffer # <<>> /\ ~rawFallback /\ warnings = 0 THEN 1 ELSE warnings
    /\ pc' = "settle"
    /\ UNCHANGED <<next, overflowed, outputOk, result, adapterSender>>
    /\ UNCHANGED <<chanVars, stdinVars, sinkVars, agentVars>>

\* adapter.finish() and drop(adapter): log_fallback_once, then one sender less.
CloseAdapter ==
    /\ pc = "finish"
    /\ Finish
    /\ warnings' = IF buffer # <<>> /\ ~rawFallback /\ warnings = 0 THEN 1 ELSE warnings
    /\ adapterSender' = FALSE
    /\ pc' = "settle"
    /\ UNCHANGED <<next, overflowed, outputOk, result>>
    /\ UNCHANGED <<chanVars, stdinVars, sinkVars, agentVars>>

----------------------------------------------------------------------------
(* The coordinator: settle_stdin_forwarding_task and the end of the        *)
(* session. Nothing is awaited between settling and the decision.          *)

\* The error of the output loop first, then that of stdin; both abort the sink.
Conclude(stdinOk) ==
    \/ /\ ~outputOk
       /\ result' = "output failed" /\ sinkAbort' = TRUE /\ pc' = "done"
    \/ /\ outputOk /\ ~stdinOk
       /\ result' = "stdin failed" /\ sinkAbort' = TRUE /\ pc' = "done"
    \/ /\ outputOk /\ stdinOk
       /\ pc' = "await" /\ UNCHANGED <<result, sinkAbort>>

\* An error of the stdin task is reported even when the output loop succeeded.
SettleJoin ==
    /\ pc = "settle"
    /\ stdinPc = "stopped"
    /\ Conclude(stdinEnd # "error")
    /\ UNCHANGED <<next, overflowed, warnings, outputOk, adapterSender>>
    /\ UNCHANGED <<sinkPc, sinkCommand, inputAlive, inputShut, delivered>>
    /\ UNCHANGED <<frameVars, chanVars, stdinVars, agentVars>>

\* A timeout that reports success even though host stdin was cut.
SettleTimeoutForgiving ==
    /\ pc = "settle"
    /\ stdinPc # "stopped"
    /\ stdinAbort' = TRUE
    /\ Conclude(TRUE)
    /\ UNCHANGED <<next, overflowed, warnings, outputOk, adapterSender>>
    /\ UNCHANGED <<stdinPc, stdinEnd, stdinDisabled, host, hostRead, firstFrame, pending>>
    /\ UNCHANGED <<sinkPc, sinkCommand, inputAlive, inputShut, delivered>>
    /\ UNCHANGED <<frameVars, chanVars, agentVars>>

\* A timeout that drops the handle of the task without aborting it.
SettleTimeoutDetaching ==
    /\ pc = "settle"
    /\ stdinPc # "stopped"
    /\ Conclude(stdinDisabled)
    /\ UNCHANGED <<next, overflowed, warnings, outputOk, adapterSender>>
    /\ UNCHANGED <<sinkPc, sinkCommand, inputAlive, inputShut, delivered>>
    /\ UNCHANGED <<frameVars, chanVars, stdinVars, agentVars>>

\* STDIN_SETTLE_TIMEOUT: the task is aborted and not awaited.
SettleTimeout ==
    /\ pc = "settle"
    /\ stdinPc # "stopped"
    /\ stdinAbort' = TRUE
    /\ Conclude(stdinDisabled)
    /\ UNCHANGED <<next, overflowed, warnings, outputOk, adapterSender>>
    /\ UNCHANGED <<stdinPc, stdinEnd, stdinDisabled, host, hostRead, firstFrame, pending>>
    /\ UNCHANGED <<sinkPc, sinkCommand, inputAlive, inputShut, delivered>>
    /\ UNCHANGED <<frameVars, chanVars, agentVars>>

\* sink_task.await.
AwaitSink ==
    /\ pc = "await"
    /\ sinkPc \in {"done", "failed"}
    /\ result' = IF sinkPc = "done" THEN "ok" ELSE "sink failed"
    /\ pc' = "done"
    /\ UNCHANGED <<next, overflowed, warnings, outputOk, adapterSender>>
    /\ UNCHANGED <<frameVars, chanVars, stdinVars, sinkVars, agentVars>>

----------------------------------------------------------------------------
(* The stdin task: forward_host_stdin_to_channel. A disabled host stdin is *)
(* a reader on which every read waits for ever (HeldOpenStdin).            *)

Reading(at) == stdinPc = at /\ ~stdinDisabled

HostBytes(k) == SubSeq(host, hostRead + 1, hostRead + k)

\* read_next_bounded_frame_chunk takes k bytes, up to the newline or the limit;
\* the first complete frame is masked.
ReadFirstFrame(k) ==
    /\ Reading("first") /\ ~FirstFrameFull(firstFrame)
    /\ hostRead + k <= Len(host)
    /\ Len(firstFrame) + k <= MaxFirstFrameBytes
    /\ \A i \in 1..(k - 1) : HostBytes(k)[i] # NL
    /\ hostRead' = hostRead + k
    /\ firstFrame' = firstFrame \o HostBytes(k)
    /\ IF FirstFrameComplete(firstFrame')
       THEN stdinPc' = "send" /\ pending' = HostCommand(MaskFrame(firstFrame'))
       ELSE UNCHANGED <<stdinPc, pending>>
    /\ UNCHANGED <<stdinEnd, stdinAbort, stdinDisabled, host>>
    /\ UNCHANGED <<frameVars, coordVars, chanVars, sinkVars, agentVars>>

\* ForwardUnchanged, ExceededMaximumSize: checked before the next read.
FirstFrameTooLong ==
    /\ stdinPc = "first" /\ FirstFrameFull(firstFrame)
    /\ stdinPc' = "send" /\ pending' = HostCommand(firstFrame)
    /\ UNCHANGED <<stdinEnd, stdinAbort, stdinDisabled, host, hostRead, firstFrame>>
    /\ UNCHANGED <<frameVars, coordVars, chanVars, sinkVars, agentVars>>

\* An unfinished first frame dropped at end of file.
FirstFrameEofDropping ==
    /\ Reading("first") /\ ~FirstFrameFull(firstFrame)
    /\ hostRead = Len(host)
    /\ stdinPc' = "pump"
    /\ UNCHANGED <<stdinEnd, stdinAbort, stdinDisabled, host, hostRead, firstFrame, pending>>
    /\ UNCHANGED <<frameVars, coordVars, chanVars, sinkVars, agentVars>>

\* ForwardUnchanged, EofBeforeNewline: nothing is sent when nothing was read.
FirstFrameEof ==
    /\ Reading("first") /\ ~FirstFrameFull(firstFrame)
    /\ hostRead = Len(host)
    /\ IF firstFrame = <<>>
       THEN stdinPc' = "pump" /\ UNCHANGED pending
       ELSE stdinPc' = "send" /\ pending' = HostCommand(firstFrame)
    /\ UNCHANGED <<stdinEnd, stdinAbort, stdinDisabled, host, hostRead, firstFrame>>
    /\ UNCHANGED <<frameVars, coordVars, chanVars, sinkVars, agentVars>>

\* pump_raw_frames reads the next k bytes, at most STDIN_BUFFER_CAPACITY, which
\* is also MAX_FIRST_FRAME_BYTES.
PumpRead(k) ==
    /\ Reading("pump")
    /\ hostRead + k <= Len(host)
    /\ hostRead' = hostRead + k
    /\ stdinPc' = "send" /\ pending' = HostCommand(HostBytes(k))
    /\ UNCHANGED <<stdinEnd, stdinAbort, stdinDisabled, host, firstFrame>>
    /\ UNCHANGED <<frameVars, coordVars, chanVars, sinkVars, agentVars>>

StopStdin(how) ==
    /\ stdinPc' = "stopped" /\ stdinEnd' = how
    /\ UNCHANGED <<stdinAbort, stdinDisabled, host, hostRead, firstFrame, pending>>
    /\ UNCHANGED <<frameVars, coordVars, chanVars, sinkVars, agentVars>>

\* Host stdin is closed: the task ends and drops its sender.
PumpEof == Reading("pump") /\ hostRead = Len(host) /\ StopStdin("eof")

StdinReadFails == (Reading("first") \/ Reading("pump")) /\ StopStdin("error")

\* send() waits for room in the channel, then the pump goes on.
StdinSend ==
    /\ stdinPc = "send"
    /\ Send(pending)
    /\ stdinPc' = "pump" /\ pending' = NoCommand
    /\ UNCHANGED <<stdinEnd, stdinAbort, stdinDisabled, host, hostRead, firstFrame>>
    /\ UNCHANGED <<frameVars, coordVars, sinkVars, agentVars>>

StdinSinkGone == stdinPc = "send" /\ ~ReceiverAlive /\ StopStdin("sink gone")

\* abort() takes effect at whatever await the task has reached.
StdinCancelled == stdinAbort /\ stdinPc # "stopped" /\ StopStdin("cancelled")

----------------------------------------------------------------------------
(* The sink: run_container_stdin_sink.                                     *)

\* A sink that leaves the channel alone once container stdin is broken.
SinkRecvWhileAlive ==
    /\ sinkPc = "recv" /\ inputAlive
    /\ chan # <<>>
    /\ chan' = Tail(chan)
    /\ sinkPc' = "write" /\ sinkCommand' = Head(chan)
    /\ UNCHANGED <<sinkAbort, inputAlive, inputShut, delivered, queued>>
    /\ UNCHANGED <<frameVars, coordVars, stdinVars, agentVars>>

\* recv() returns a command; once container stdin is broken it is dropped.
SinkRecv ==
    /\ sinkPc = "recv"
    /\ chan # <<>>
    /\ chan' = Tail(chan)
    /\ IF inputAlive
       THEN sinkPc' = "write" /\ sinkCommand' = Head(chan)
       ELSE UNCHANGED <<sinkPc, sinkCommand>>
    /\ UNCHANGED <<sinkAbort, inputAlive, inputShut, delivered, queued>>
    /\ UNCHANGED <<frameVars, coordVars, stdinVars, agentVars>>

\* write_all and flush succeed, which needs room in the pipe of a live agent.
SinkWriteOk ==
    /\ sinkPc = "write"
    /\ agentAlive => unread < PipeCapacity
    /\ delivered' = Append(delivered, sinkCommand)
    /\ unread' = IF agentAlive THEN unread + 1 ELSE unread
    /\ sinkPc' = "recv" /\ sinkCommand' = NoCommand
    /\ UNCHANGED <<sinkAbort, inputAlive, inputShut, agentAlive>>
    /\ UNCHANGED <<frameVars, coordVars, chanVars, stdinVars>>

\* A broken pipe forgotten at once: later commands are written.
SinkBrokenPipeForgotten ==
    /\ sinkPc = "write"
    /\ sinkPc' = "recv" /\ sinkCommand' = NoCommand
    /\ UNCHANGED <<sinkAbort, inputAlive, inputShut, delivered>>
    /\ UNCHANGED <<frameVars, coordVars, chanVars, stdinVars, agentVars>>

\* BrokenPipe: the sink keeps draining, without writing.
SinkBrokenPipe ==
    /\ sinkPc = "write"
    /\ inputAlive' = FALSE
    /\ sinkPc' = "recv" /\ sinkCommand' = NoCommand
    /\ UNCHANGED <<sinkAbort, inputShut, delivered>>
    /\ UNCHANGED <<frameVars, coordVars, chanVars, stdinVars, agentVars>>

\* Any other error ends the task; the receiver goes, and what it held with it.
SinkWriteFails ==
    /\ sinkPc = "write"
    /\ sinkPc' = "failed" /\ sinkCommand' = NoCommand /\ chan' = <<>>
    /\ UNCHANGED <<sinkAbort, inputAlive, inputShut, delivered, queued>>
    /\ UNCHANGED <<frameVars, coordVars, stdinVars, agentVars>>

\* recv() returns None: finalize_sink_writer has something to do while container
\* stdin works.
SinkFinish ==
    /\ sinkPc = "recv"
    /\ chan = <<>> /\ NoSenders
    /\ sinkPc' = IF inputAlive THEN "shutdown" ELSE "done"
    /\ UNCHANGED <<sinkAbort, sinkCommand, inputAlive, inputShut, delivered>>
    /\ UNCHANGED <<frameVars, coordVars, chanVars, stdinVars, agentVars>>

\* The shutdown takes effect while the sink awaits it.
InputShuts ==
    /\ sinkPc = "shutdown" /\ ~inputShut
    /\ inputShut' = TRUE
    /\ UNCHANGED <<sinkPc, sinkAbort, sinkCommand, inputAlive, delivered>>
    /\ UNCHANGED <<frameVars, coordVars, chanVars, stdinVars, agentVars>>

\* The shutdown returns, after its effect or without it: an error is only logged, and
\* the sink returns Ok.
SinkReturns ==
    /\ sinkPc = "shutdown"
    /\ sinkPc' = "done"
    /\ UNCHANGED <<sinkAbort, sinkCommand, inputAlive, inputShut, delivered>>
    /\ UNCHANGED <<frameVars, coordVars, chanVars, stdinVars, agentVars>>

\* abort() takes effect at the await that the sink has reached.
SinkCancelled ==
    /\ sinkAbort
    /\ sinkPc \in {"recv", "write", "shutdown"}
    /\ sinkPc' = "aborted" /\ sinkCommand' = NoCommand /\ chan' = <<>>
    /\ UNCHANGED <<sinkAbort, inputAlive, inputShut, delivered, queued>>
    /\ UNCHANGED <<frameVars, coordVars, stdinVars, agentVars>>

----------------------------------------------------------------------------
(* The agent and the specification.                                        *)

AgentRead ==
    /\ agentAlive /\ unread > 0
    /\ unread' = unread - 1
    /\ UNCHANGED <<frameVars, coordVars, chanVars, stdinVars, sinkVars, agentAlive>>

AgentExit ==
    /\ agentAlive
    /\ agentAlive' = FALSE
    /\ UNCHANGED <<frameVars, coordVars, chanVars, stdinVars, sinkVars, unread>>

Dispatch ==
    \/ DispatchForward \/ DispatchNotification
    \/ DispatchRequest \/ DispatchRequestSinkGone

Coordinator ==
    \/ \E k \in 1..MaxChunkBytes : RecvChunk(k)
    \/ ScanChunk \/ Dispatch \/ HostStdoutFails \/ EndChunk
    \/ OutputFails \/ OutputEnds \/ CloseAdapter
    \/ SettleJoin \/ SettleTimeout \/ AwaitSink

StdinTask ==
    \/ \E k \in 1..MaxFirstFrameBytes : ReadFirstFrame(k) \/ PumpRead(k)
    \/ FirstFrameTooLong \/ FirstFrameEof \/ PumpEof \/ StdinReadFails
    \/ StdinSend \/ StdinSinkGone \/ StdinCancelled

Sink ==
    \/ SinkRecv \/ SinkWriteOk \/ SinkBrokenPipe \/ SinkWriteFails
    \/ SinkFinish \/ InputShuts \/ SinkReturns \/ SinkCancelled

Next == Coordinator \/ StdinTask \/ Sink \/ AgentRead \/ AgentExit

Spec == Init /\ [][Next]_vars

\* The runtime polls every task that can go on, the host takes what is written
\* to its stdout, the daemon ends the stream of an exec that has exited, and a
\* shutdown of container stdin returns.
\* Nothing makes the host send or close, the agent read or exit, a call fail.
Fairness ==
    /\ WF_vars(ScanChunk \/ Dispatch \/ EndChunk \/ CloseAdapter)
    /\ WF_vars(SettleJoin \/ SettleTimeout \/ AwaitSink)
    /\ WF_vars(~agentAlive /\ OutputEnds)
    /\ WF_vars(FirstFrameTooLong \/ StdinSend \/ StdinSinkGone \/ StdinCancelled)
    /\ WF_vars(SinkRecv \/ SinkWriteOk \/ SinkFinish \/ SinkReturns \/ SinkCancelled)

FairSpec == Spec /\ Fairness

----------------------------------------------------------------------------
(* Properties.                                                             *)

Responses == {Response(outputs[k]) : k \in 1..Len(outputs)}

WriteCmd ==
    [kind : {"Forward"}, bytes : Seq(HostByte)]
        \cup [kind : {"Synthesized"}, response : Responses]

CoordinatorTypeOK ==
    /\ pc \in {"recv", "dispatch", "finish", "settle", "await", "done"}
    /\ next \in 1..(Len(outputs) + 1)
    /\ overflowed \in BOOLEAN /\ warnings \in Nat /\ outputOk \in BOOLEAN
    /\ result \in {"none", "ok", "output failed", "stdin failed", "sink failed"}
    /\ adapterSender \in BOOLEAN

ChannelTypeOK ==
    /\ chan \in Seq(WriteCmd) /\ Len(chan) <= Capacity
    /\ queued \in Seq(WriteCmd)

StdinTypeOK ==
    /\ stdinPc \in {"first", "pump", "send", "stopped"}
    /\ stdinEnd \in {"running", "eof", "sink gone", "error", "cancelled"}
    /\ stdinAbort \in BOOLEAN /\ stdinDisabled \in BOOLEAN
    /\ host \in Seq(HostByte) /\ hostRead \in 0..Len(host)
    /\ firstFrame \in Seq(HostByte) /\ Len(firstFrame) <= MaxFirstFrameBytes
    /\ pending \in WriteCmd \cup {NoCommand}
    /\ stdinPc = "send" => pending \in WriteCmd

SinkTypeOK ==
    /\ sinkPc \in {"recv", "write", "shutdown", "done", "failed", "aborted"}
    /\ sinkAbort \in BOOLEAN
    /\ sinkCommand \in WriteCmd \cup {NoCommand}
    /\ sinkPc = "write" => sinkCommand \in WriteCmd
    /\ inputAlive \in BOOLEAN /\ inputShut \in BOOLEAN
    /\ delivered \in Seq(WriteCmd)

\* Type correctness of the session, with what each program point implies.
TypeOK ==
    /\ FrameTypeOK
    /\ CoordinatorTypeOK /\ ChannelTypeOK /\ StdinTypeOK /\ SinkTypeOK
    /\ agentAlive \in BOOLEAN /\ unread \in 0..PipeCapacity

\* The outputs, or the commands, of one kind, in their order.
OfKind(kind, s) == FlattenSeq([k \in 1..Len(s) |-> IF s[k].kind = kind THEN <<s[k]>> ELSE <<>>])

\* The requests dispatched so far, the answers and the host's pieces among some commands.
Denied == OfKind("BlockRequest", SubSeq(outputs, 1, next - 1))
Answers(commands) == OfKind("Synthesized", commands)
Forwards(commands) == OfKind("Forward", commands)

\* One answer per denied request, with its id and line ending, in the order of
\* the requests, and none for anything else, whatever the host interleaves; only
\* a sink that is gone loses answers (acp_runtime.rs:211-237).
AnswersMatchDenials ==
    LET answers == Answers(queued) IN
    /\ Len(answers) <= Len(Denied)
    /\ ReceiverAlive => Len(answers) = Len(Denied)
    /\ \A k \in 1..Len(answers) : answers[k] = Synthesized(Response(Denied[k]))

\* The command that the sink has received and not written.
InFlight == IF sinkPc = "write" THEN <<sinkCommand>> ELSE <<>>

\* Container stdin takes nothing any more, without having been shut in order: broken,
\* or without the sink's receiver.
InputBroken == ~inputShut /\ ~(inputAlive /\ ReceiverAlive)

\* The agent reads what was queued, in the order it was queued, with no gap: a
\* prefix of it at all times, and all but what the sink still holds unless
\* container stdin broke (acp_runtime.rs:23-27).
InputInOrder ==
    /\ IsPrefix(delivered, queued)
    /\ ~InputBroken => queued = delivered \o InFlight \o chan

\* Container stdin is shut down only after every sender is gone, every dispatched
\* denial was queued and everything queued was written (acp_runtime.rs:21-27).
ShutdownDeliversAll ==
    inputShut =>
        /\ NoSenders
        /\ chan = <<>> /\ delivered = queued
        /\ outputOk => next > Len(outputs)

\* The bytes of the host's pieces among some commands, joined.
HostForwards(commands) ==
    FlattenSeq([k \in 1..Len(commands) |->
                   IF commands[k].kind = "Forward" THEN commands[k].bytes ELSE <<>>])

\* What the stdin task has queued or holds.
Sent == HostForwards(queued) \o (IF pending = NoCommand THEN <<>> ELSE pending.bytes)

\* What the stdin task has queued or holds is the translation of exactly the
\* bytes it has read, unless these are an unfinished first frame.
SentIsRead ==
    \/ Sent = Translated(SubSeq(host, 1, hostRead))
    \/ /\ Sent = <<>> /\ stdinPc \in {"first", "stopped"}
       /\ firstFrame = SubSeq(host, 1, hostRead)

\* Nothing of the host's stream is lost, repeated or reordered, neither at the
\* switch from the first frame to the pump nor after it: whatever the pieces that
\* the reads cut it into and the answers between them, what the agent has been
\* given of it is at all times a prefix of the translation of all that the host
\* will ever send (protocol_stdin.rs:40-102, acp_runtime.rs:76-110).
HostStreamFaithful ==
    /\ SentIsRead
    /\ IsPrefix(HostForwards(delivered), Translated(host))

\* An initialize line within the limit is the agent's first host input, in one
\* piece that no answer can split, with its line ending and without terminal and
\* fs capabilities (acp_helpers.rs:198-280).
InitializeMasked ==
    Forwards(queued) # <<>> =>
        \A i \in 1..Len(host) :
            i <= MaxFirstFrameBytes /\ FirstNewlineAt(host, i) =>
                LET line == SubSeq(host, 1, i)
                    sent == Forwards(queued)[1].bytes
                    message == HostParse(Payload(sent))
                IN  /\ IsLine(sent) /\ LineEnding(sent) = LineEnding(line)
                    /\ message.method = HostParse(Payload(line)).method
                    /\ ~Maskable(message)

\* A session that reports success has lost nothing: every output was dispatched,
\* host stdin was read to its end (unless disabled), and unless the agent closed
\* its stdin, it has been given the answers to all of its denied requests, in
\* their order, and the translation of all that the host sent.  Whether container
\* stdin was shut after it, success does not tell: a failed shutdown is only logged
\* (protocol.rs:312-338, acp_runtime.rs:99-111).
SuccessIsComplete ==
    result = "ok" =>
        /\ outputOk /\ next > Len(outputs)
        /\ ~stdinDisabled => stdinEnd = "eof" /\ hostRead = Len(host)
        /\ inputAlive =>
              LET requests == OfKind("BlockRequest", outputs) IN
              /\ delivered = queued
              /\ Answers(delivered) = [k \in 1..Len(requests) |-> Synthesized(Response(requests[k]))]
              /\ ~stdinDisabled => HostForwards(delivered) = Translated(host)

\* The fallback is logged at most once, and a session whose output loop succeeded
\* logs it exactly when bytes were passed undecided or a residue was dropped
\* (acp_runtime.rs:178-189, 268-274).
FallbackLogged ==
    /\ warnings <= 1
    /\ outputOk /\ pc \in {"settle", "await", "done"} =>
          (warnings = 1 <=> rawFallback \/ cursor > LastCut)

\* The command that answers a denied request.
AnswerTo(output) == Synthesized(Response(output))

\* What the agent has yet to be given: what the sink is writing and what is in the
\* channel, lost when container stdin breaks.
Mailbox == IF InputBroken THEN <<>> ELSE InFlight \o chan

\* The caller's view of the result.
Report == IF result \in {"none", "ok"} THEN result ELSE "failed"

\* The session implements the contract of SessionContract: whatever the three tasks
\* do, it is one mailbox in front of the agent (acp_runtime.rs:21-110,
\* protocol.rs:286-338).
Contract == INSTANCE SessionContract
    WITH Answer <- AnswerTo, Room <- Capacity + 1,
         judged <- outputs, acted <- next - 1, waiting <- Mailbox, given <- delivered,
         listening <- pc \in {"recv", "dispatch"}, broken <- InputBroken,
         shut <- inputShut, report <- Report

ImplementsContract == Contract!Spec

\* What the documentation promises of every way a session whose output loop
\* succeeded closes container stdin, an abort included: no answer that was queued
\* is left out (acp_runtime.rs:23-27 and docs/execplans/2-6-2:144-152).
AnswersBeforeClose ==
    sinkPc \in {"done", "aborted"} /\ outputOk /\ inputAlive =>
        Answers(delivered) = Answers(queued)

\* What the denylist plan promises of the channel, that host input "is interleaved
\* correctly" with the answers (docs/execplans/2-6-2:481-482), at the granularity
\* that the agent parses: no answer lies inside a host line.
HostLinesWhole ==
    \A k \in 1..Len(delivered) :
        LET before == HostForwards(SubSeq(delivered, 1, k))
            after == HostForwards(SubSeq(delivered, k + 1, Len(delivered)))
        IN  delivered[k].kind = "Synthesized" /\ before # <<>> /\ after # <<>> => Last(before) = NL

\* Once the exec process has exited the session returns, even when the host
\* never closes stdin (docs/podbot-design.md:172-177).
ExitEndsSession == ~agentAlive ~> pc = "done"

\* A returned session leaves no task of its own behind, waiting for the host or
\* the container (protocol_stdin.rs:150-158, protocol.rs:315-322).
NoTaskLeft == pc = "done" ~> stdinPc = "stopped" /\ sinkPc \notin {"recv", "write", "shutdown"}

AgentReads == WF_vars(AgentRead)

\* While the agent reads its stdin, neither a full channel nor a full pipe stops
\* the output loop for good (acp_runtime.rs:50-56).
OutputResumes == AgentReads => (pc = "dispatch" ~> pc # "dispatch")

\* While the agent reads its stdin, what is queued reaches it, unless container
\* stdin breaks or the session is cut short.
QueueDrains ==
    AgentReads =>
        (queued # delivered ~>
            queued = delivered \/ ~inputAlive \/ sinkPc \in {"failed", "aborted"})

----------------------------------------------------------------------------
(* The inductive invariant: how the tasks' positions constrain each other. *)

\* The stdin task may be left behind without spoiling a success.
SettledOk == stdinDisabled \/ (stdinPc = "stopped" /\ stdinEnd # "error")

CoordinatorInv ==
    /\ chunk # <<>> => pc = "dispatch"
    /\ finished <=> pc \in {"settle", "await", "done"}
    /\ adapterSender = ~finished
    /\ pc # "dispatch" /\ outputOk => next > Len(outputs)
    /\ pc \in {"recv", "dispatch", "await"} => outputOk
    /\ pc = "await" => SettledOk
    /\ result # "none" <=> pc = "done"
    /\ result = "ok" => outputOk /\ sinkPc = "done" /\ SettledOk

StdinInv ==
    /\ stdinPc = "stopped" <=> stdinEnd # "running"
    /\ stdinEnd = "eof" => hostRead = Len(host)
    /\ stdinEnd = "sink gone" => ~ReceiverAlive
    /\ stdinEnd = "cancelled" => stdinAbort
    /\ stdinAbort => /\ pc \in {"await", "done"}
                     /\ pc = "await" \/ result = "ok" => stdinDisabled

\* What has been read is the first frame until the frame is handed over.
FirstFrameInv ==
    /\ host \in HostStreams
    /\ stdinPc = "first" => firstFrame = SubSeq(host, 1, hostRead)

SinkInv ==
    /\ sinkPc \in {"write", "shutdown"} => inputAlive
    /\ sinkPc \in {"shutdown", "done"} => NoSenders /\ chan = <<>>
    /\ inputShut => /\ sinkPc \in {"shutdown", "done", "aborted"} /\ inputAlive
                    /\ NoSenders /\ chan = <<>>

WarningInv ==
    /\ warnings \in {0, 1}
    /\ overflowed => rawFallback /\ warnings = 0
    /\ overflowed /\ outputOk => pc = "dispatch"
    /\ warnings = 1 /\ ~finished => rawFallback
    /\ rawFallback /\ outputOk => overflowed \/ warnings = 1
    /\ finished /\ outputOk => (warnings = 1 <=> rawFallback \/ cursor > LastCut)

SessionInv ==
    /\ FrameInv /\ TypeOK
    /\ CoordinatorInv /\ StdinInv /\ FirstFrameInv /\ SinkInv /\ WarningInv
    /\ InputInOrder

\* Masking concerns nothing after this point: the first line is complete, too long
\* or all there is.
PastFirstFrame ==
    \/ hostRead >= MaxFirstFrameBytes
    \/ hostRead = Len(host)
    \/ \E i \in 1..hostRead : i <= MaxFirstFrameBytes /\ FirstNewlineAt(host, i)

\* What the stdin task holds and has queued, at each of its positions.
StreamInv ==
    /\ pending = NoCommand \/ pending \in [kind : {"Forward"}, bytes : Seq(HostByte)]
    /\ stdinPc \in {"first", "pump"} => pending = NoCommand
    /\ stdinPc = "first" => NoNewline(firstFrame) /\ Forwards(queued) = <<>> /\ Sent = <<>>
    /\ stdinPc \in {"pump", "send"} => PastFirstFrame /\ Sent = Translated(SubSeq(host, 1, hostRead))
    /\ stdinPc = "stopped" /\ Sent # <<>> => PastFirstFrame /\ Sent = Translated(SubSeq(host, 1, hostRead))
    /\ stdinEnd = "eof" => pending = NoCommand /\ Sent = Translated(SubSeq(host, 1, hostRead))
    /\ SentIsRead

\* A first line within the limit is queued in one piece, masked.
FirstForwardInv ==
    \A i \in 1..Len(host) :
        i <= MaxFirstFrameBytes /\ FirstNewlineAt(host, i) =>
            LET masked == MaskFrame(SubSeq(host, 1, i)) IN
            IF Forwards(queued) # <<>> THEN Forwards(queued)[1].bytes = masked
            ELSE /\ stdinPc = "send" => pending.bytes = masked
                 /\ stdinPc = "pump" => hostRead = Len(host)

ContentInv == StreamInv /\ FirstForwardInv /\ AnswersMatchDenials

=============================================================================
