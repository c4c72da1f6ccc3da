----------------------- MODULE EnforcedSession_proofs -----------------------
(***************************************************************************)
(* The safety of an enforced session, for every channel and pipe capacity, *)
(* every limit, every agent and every host.                                *)
(***************************************************************************)
EXTENDS EnforcedSession, AcpFrame_proofs, WellFoundedInduction, NaturalsInduction

----------------------------------------------------------------------------
(* The session drives the assembler as its specification allows.           *)

\* The steps that leave the assembler alone.
NotFrame ==
    \/ Dispatch \/ HostStdoutFails \/ EndChunk \/ OutputFails \/ OutputEnds
    \/ SettleJoin \/ SettleTimeout \/ AwaitSink
    \/ StdinTask \/ Sink \/ AgentRead \/ AgentExit

LEMMA NotFrameStutters == NotFrame => UNCHANGED frameVars
  <1> SUFFICES ASSUME NotFrame PROVE UNCHANGED frameVars
    OBVIOUS
  <1>1. CASE Dispatch
    BY <1>1 DEF Dispatch, DispatchForward, DispatchNotification, DispatchRequest,
                DispatchRequestSinkGone
  <1>2. CASE HostStdoutFails \/ EndChunk \/ OutputFails \/ OutputEnds
    BY <1>2 DEF HostStdoutFails, EndChunk, OutputFails, OutputEnds
  <1>3. CASE SettleJoin \/ SettleTimeout \/ AwaitSink
    BY <1>3 DEF SettleJoin, SettleTimeout, AwaitSink
  <1>4. CASE StdinTask
    BY <1>4 DEF StdinTask, ReadFirstFrame, PumpRead, FirstFrameTooLong, FirstFrameEof, PumpEof,
                StdinReadFails, StdinSend, StdinSinkGone, StdinCancelled, StopStdin
  <1>5. CASE Sink
    BY <1>5 DEF Sink, SinkRecv, SinkWriteOk, SinkBrokenPipe, SinkWriteFails, SinkFinish,
                InputShuts, SinkReturns, SinkCancelled
  <1>6. CASE AgentRead \/ AgentExit
    BY <1>6 DEF AgentRead, AgentExit
  <1> QED
    BY <1>1, <1>2, <1>3, <1>4, <1>5, <1>6 DEF NotFrame

\* Every step of the session is a step of the assembler or leaves it alone.
LEMMA FrameStep == [Next]_vars => [FrameNext]_frameVars
  <1> SUFFICES ASSUME [Next]_vars PROVE [FrameNext]_frameVars
    OBVIOUS
  <1>1. CASE UNCHANGED vars
    BY <1>1 DEF vars
  <1>2. ASSUME NEW k \in 1..MaxChunkBytes, RecvChunk(k) PROVE FrameNext
    BY <1>2 DEF RecvChunk, FrameNext
  <1>3. CASE ScanChunk
    BY <1>3 DEF ScanChunk, FrameNext
  <1>4. CASE CloseAdapter
    BY <1>4 DEF CloseAdapter, FrameNext
  <1>5. CASE NotFrame
    BY <1>5, NotFrameStutters
  <1> QED
    BY <1>1, <1>2, <1>3, <1>4, <1>5 DEF Next, Coordinator, NotFrame

\* Within a session the assembler does nothing that its own specification does
\* not: its theorems hold of every enforced session (acp_runtime.rs:165-189).
THEOREM SessionRunsAssembler == Spec => FrameSpec
  <1>1. Init => FrameInit
    BY DEF Init
  <1> QED
    BY <1>1, FrameStep, PTL DEF Spec, FrameSpec

\* So chunks, tasks and failures together lose no byte of the agent's output
\* before it is decided (acp_frame.rs:14-21, acp_runtime.rs:165-181).
THEOREM SessionIsVerbatim == Spec => []Verbatim
  BY SessionRunsAssembler, FrameIsVerbatim, PTL

\* And no chunk boundary decides what reaches the host or is answered.
THEOREM SessionDecidesLines == Spec => []LineDecisions
  BY SessionRunsAssembler, DecisionsAreOfLines, PTL

\* And the assembler within a session is still the splitter of lines that
\* AcpLines specifies, with no buffer and no chunks: the two refinements compose
\* (acp_frame.rs:14-21, acp_runtime.rs:165-189).
THEOREM SessionImplementsLines == Spec => ImplementsLines
  BY SessionRunsAssembler, FrameImplementsLines, PTL

----------------------------------------------------------------------------
(* The positions of the tasks.                                             *)

\* What the tasks leave to each other, variable by variable.
LEMMA CoordinatorFrame ==
    ASSUME Coordinator
    PROVE  /\ stdinPc' = stdinPc /\ stdinEnd' = stdinEnd /\ stdinDisabled' = stdinDisabled /\ host' = host
           /\ hostRead' = hostRead /\ firstFrame' = firstFrame /\ pending' = pending
           /\ sinkPc' = sinkPc /\ sinkCommand' = sinkCommand /\ inputAlive' = inputAlive /\ inputShut' = inputShut
           /\ delivered' = delivered /\ agentAlive' = agentAlive /\ unread' = unread
  <1> USE DEF stdinVars, sinkVars, agentVars
  <1>1. CASE \E k \in 1..MaxChunkBytes : RecvChunk(k)
    BY <1>1 DEF RecvChunk
  <1>2. CASE ScanChunk \/ HostStdoutFails \/ EndChunk \/ OutputFails \/ OutputEnds \/ CloseAdapter
    BY <1>2 DEF ScanChunk, HostStdoutFails, EndChunk, OutputFails, OutputEnds, CloseAdapter
  <1>3. CASE Dispatch
    BY <1>3 DEF Dispatch, DispatchForward, DispatchNotification, DispatchRequest,
                DispatchRequestSinkGone
  <1>4. CASE SettleJoin \/ SettleTimeout \/ AwaitSink
    BY <1>4 DEF SettleJoin, SettleTimeout, AwaitSink
  <1> QED
    BY <1>1, <1>2, <1>3, <1>4 DEF Coordinator

LEMMA StdinTaskFrame ==
    ASSUME StdinTask
    PROVE  /\ stdinPc # "stopped"
           /\ pc' = pc /\ next' = next /\ overflowed' = overflowed /\ warnings' = warnings
           /\ outputOk' = outputOk /\ result' = result /\ adapterSender' = adapterSender
           /\ source' = source /\ cursor' = cursor /\ chunk' = chunk /\ buffer' = buffer
           /\ rawFallback' = rawFallback /\ outputs' = outputs /\ cuts' = cuts /\ finished' = finished
           /\ sinkPc' = sinkPc /\ sinkAbort' = sinkAbort /\ sinkCommand' = sinkCommand
           /\ inputAlive' = inputAlive /\ inputShut' = inputShut /\ delivered' = delivered
           /\ agentAlive' = agentAlive /\ unread' = unread
           /\ stdinAbort' = stdinAbort /\ stdinDisabled' = stdinDisabled /\ host' = host
  BY DEF StdinTask, ReadFirstFrame, PumpRead, FirstFrameTooLong, FirstFrameEof, PumpEof,
         StdinReadFails, StdinSend, StdinSinkGone, StdinCancelled, StopStdin, Reading,
         frameVars, coordVars, sinkVars, agentVars

LEMMA SinkFrame ==
    ASSUME Sink
    PROVE  /\ sinkPc \in {"recv", "write", "shutdown"}
           /\ pc' = pc /\ next' = next /\ overflowed' = overflowed /\ warnings' = warnings
           /\ outputOk' = outputOk /\ result' = result /\ adapterSender' = adapterSender
           /\ source' = source /\ cursor' = cursor /\ chunk' = chunk /\ buffer' = buffer
           /\ rawFallback' = rawFallback /\ outputs' = outputs /\ cuts' = cuts /\ finished' = finished
           /\ stdinPc' = stdinPc /\ stdinEnd' = stdinEnd /\ stdinAbort' = stdinAbort /\ stdinDisabled' = stdinDisabled
           /\ host' = host /\ hostRead' = hostRead /\ firstFrame' = firstFrame /\ pending' = pending
           /\ sinkAbort' = sinkAbort /\ queued' = queued /\ agentAlive' = agentAlive
  BY DEF Sink, SinkRecv, SinkWriteOk, SinkBrokenPipe, SinkWriteFails, SinkFinish, InputShuts,
         SinkReturns, SinkCancelled,
         frameVars, coordVars, chanVars, stdinVars, agentVars

LEMMA AgentFrame ==
    ASSUME AgentRead \/ AgentExit
    PROVE  /\ pc' = pc /\ next' = next /\ overflowed' = overflowed /\ warnings' = warnings
           /\ outputOk' = outputOk /\ result' = result /\ adapterSender' = adapterSender
           /\ source' = source /\ cursor' = cursor /\ chunk' = chunk /\ buffer' = buffer
           /\ rawFallback' = rawFallback /\ outputs' = outputs /\ cuts' = cuts /\ finished' = finished
           /\ stdinPc' = stdinPc /\ stdinEnd' = stdinEnd /\ stdinAbort' = stdinAbort /\ stdinDisabled' = stdinDisabled
           /\ host' = host /\ hostRead' = hostRead /\ firstFrame' = firstFrame /\ pending' = pending
           /\ sinkPc' = sinkPc /\ sinkAbort' = sinkAbort /\ sinkCommand' = sinkCommand
           /\ inputAlive' = inputAlive /\ inputShut' = inputShut /\ delivered' = delivered
           /\ chan' = chan /\ queued' = queued
  BY DEF AgentRead, AgentExit, frameVars, coordVars, chanVars, stdinVars, sinkVars

\* The scanning loop runs while there is something to scan.
LEMMA ScanningChunk == ScanChunk => chunk # <<>>
  <1>1. ASSUME NEW i \in 1..Len(chunk), chunk = <<>> PROVE FALSE
    <2>1. Len(<<>>) = 0
      BY EmptySeq
    <2> QED
      BY <1>1, <2>1
  <1> QED
    BY <1>1 DEF ScanChunk, Scan, BufferTail, OverflowTail

LEMMA CoordinatorStep ==
    ASSUME FrameInv, TypeOK, CoordinatorInv, StdinInv, SinkInv, Next
    PROVE  CoordinatorInv'
  <1> USE DEF CoordinatorInv, SettledOk, frameVars, coordVars, chanVars, stdinVars, sinkVars, agentVars
  <1>1. ASSUME NEW k \in 1..MaxChunkBytes, RecvChunk(k) PROVE CoordinatorInv'
    BY <1>1 DEF RecvChunk, Ingest, IngestRaw, Emit
  <1>2. CASE ScanChunk
    BY <1>2 DEF ScanChunk, Scan, CompleteFrame, BufferTail, OverflowTail, Emit
  <1>3. CASE Dispatch
    BY <1>3 DEF Dispatch, DispatchForward, DispatchNotification, DispatchRequest,
                DispatchRequestSinkGone, Dispatching
  <1>4. CASE HostStdoutFails \/ OutputFails \/ OutputEnds
    BY <1>4 DEF HostStdoutFails, OutputFails, OutputEnds, Dispatching
  <1>5. CASE EndChunk
    BY <1>5 DEF EndChunk
  <1>6. CASE CloseAdapter
    BY <1>6 DEF CloseAdapter, Finish
  <1>7. CASE SettleJoin
    BY <1>7 DEF SettleJoin, Conclude
  <1>8. CASE SettleTimeout
    BY <1>8 DEF SettleTimeout, Conclude
  <1>9. CASE AwaitSink
    BY <1>9 DEF AwaitSink
  <1>10. CASE StdinTask
    BY <1>10, StdinTaskFrame
  <1>11. CASE Sink
    BY <1>11, SinkFrame
  <1>12. CASE AgentRead \/ AgentExit
    BY <1>12 DEF AgentRead, AgentExit
  <1> QED
    BY <1>1, <1>2, <1>3, <1>4, <1>5, <1>6, <1>7, <1>8, <1>9, <1>10, <1>11, <1>12
    DEF Next, Coordinator

LEMMA StdinStep ==
    ASSUME FrameInv, TypeOK, CoordinatorInv, StdinInv, SinkInv, Next
    PROVE  StdinInv'
  <1> USE DEF StdinInv, ReceiverAlive
  <1>1. CASE \/ \E k \in 1..MaxChunkBytes : RecvChunk(k)
             \/ ScanChunk \/ Dispatch \/ HostStdoutFails \/ EndChunk
             \/ OutputFails \/ OutputEnds \/ CloseAdapter
    <2>1. pc \in {"recv", "dispatch", "finish"} /\ stdinAbort' = stdinAbort
      <3>1. chunk # <<>> => pc = "dispatch"
        BY DEF CoordinatorInv
      <3> QED
        BY <1>1, <3>1, ScanningChunk
        DEF RecvChunk, ScanChunk, Dispatch, DispatchForward, DispatchNotification,
            DispatchRequest, DispatchRequestSinkGone, Dispatching, HostStdoutFails, EndChunk,
            OutputFails, OutputEnds, CloseAdapter, stdinVars
    <2>2. Coordinator
      BY <1>1 DEF Coordinator
    <2> QED
      BY <2>1, <2>2, CoordinatorFrame
  <1>2. CASE SettleJoin
    <2>1. pc = "settle" /\ stdinAbort' = stdinAbort
      BY <1>2 DEF SettleJoin, stdinVars
    <2>2. Coordinator
      BY <1>2 DEF Coordinator
    <2> QED
      BY <2>1, <2>2, CoordinatorFrame
  <1>3. CASE SettleTimeout
    <2>1. /\ stdinAbort' /\ pc' \in {"await", "done"}
          /\ pc' = "await" \/ result' = "ok" => stdinDisabled
      BY <1>3 DEF SettleTimeout, Conclude, CoordinatorInv
    <2>2. Coordinator
      BY <1>3 DEF Coordinator
    <2> QED
      BY <2>1, <2>2, CoordinatorFrame
  <1>4. CASE AwaitSink
    <2>1. pc = "await" /\ pc' = "done" /\ stdinAbort' = stdinAbort
      BY <1>4 DEF AwaitSink, stdinVars
    <2>2. Coordinator
      BY <1>4 DEF Coordinator
    <2> QED
      BY <2>1, <2>2, CoordinatorFrame
  <1>5. CASE StdinTask
    <2>1. \/ stdinPc' # "stopped" /\ stdinEnd' = stdinEnd
          \/ /\ stdinPc' = "stopped"
             /\ \/ stdinEnd' = "eof" /\ hostRead' = Len(host)
                \/ stdinEnd' = "error"
                \/ stdinEnd' = "sink gone" /\ ~ReceiverAlive
                \/ stdinEnd' = "cancelled" /\ stdinAbort
      BY <1>5 DEF StdinTask, ReadFirstFrame, PumpRead, FirstFrameTooLong, FirstFrameEof, PumpEof,
                  StdinReadFails, StdinSend, StdinSinkGone, StdinCancelled, StopStdin, Reading
    <2>2. /\ stdinPc # "stopped" /\ pc' = pc /\ result' = result /\ sinkPc' = sinkPc
          /\ stdinAbort' = stdinAbort /\ stdinDisabled' = stdinDisabled /\ host' = host
      BY <1>5, StdinTaskFrame
    <2> QED
      BY <2>1, <2>2
  <1>6. CASE Sink
    <2>1. /\ sinkPc \in {"recv", "write", "shutdown"} /\ pc' = pc /\ result' = result
          /\ stdinPc' = stdinPc /\ stdinEnd' = stdinEnd /\ stdinAbort' = stdinAbort
          /\ stdinDisabled' = stdinDisabled /\ host' = host /\ hostRead' = hostRead
      BY <1>6, SinkFrame
    <2> QED
      BY <2>1
  <1>7. CASE AgentRead \/ AgentExit
    <2>1. /\ sinkPc' = sinkPc /\ pc' = pc /\ result' = result
          /\ stdinPc' = stdinPc /\ stdinEnd' = stdinEnd /\ stdinAbort' = stdinAbort
          /\ stdinDisabled' = stdinDisabled /\ host' = host /\ hostRead' = hostRead
      BY <1>7, AgentFrame
    <2> QED
      BY <2>1
  <1> QED
    BY <1>1, <1>2, <1>3, <1>4, <1>5, <1>6, <1>7 DEF Next, Coordinator

LEMMA SinkStep ==
    ASSUME FrameInv, TypeOK, CoordinatorInv, StdinInv, SinkInv, Next
    PROVE  SinkInv'
  <1> USE DEF SinkInv, NoSenders
  <1>1. CASE Coordinator
    <2>1. adapterSender' => adapterSender
      BY <1>1 DEF Coordinator, RecvChunk, ScanChunk, Dispatch, DispatchForward, HostStdoutFails,
                  DispatchNotification, DispatchRequest, DispatchRequestSinkGone, EndChunk,
                  OutputFails, OutputEnds, CloseAdapter, SettleJoin, SettleTimeout, AwaitSink
    <2>2. chan' = chan \/ adapterSender
      <3>1. CASE Dispatch
        BY <3>1 DEF Dispatch, DispatchForward, DispatchNotification, DispatchRequest,
                    DispatchRequestSinkGone, Dispatching, CoordinatorInv
      <3>2. CASE ~Dispatch
        BY <1>1, <3>2 DEF Coordinator, RecvChunk, ScanChunk, HostStdoutFails, EndChunk,
                    OutputFails, OutputEnds, CloseAdapter, SettleJoin, SettleTimeout, AwaitSink,
                    chanVars
      <3> QED
        BY <3>1, <3>2
    <2> QED
      BY <1>1, <2>1, <2>2, CoordinatorFrame
  <1>2. CASE StdinTask
    BY <1>2, StdinTaskFrame
  <1>3. CASE Sink
    <2>1. CASE SinkRecv
      BY <2>1 DEF SinkRecv
    <2>2. CASE SinkWriteOk
      BY <2>2 DEF SinkWriteOk
    <2>3. CASE SinkBrokenPipe
      BY <2>3 DEF SinkBrokenPipe
    <2>4. CASE SinkFinish \/ InputShuts \/ SinkReturns
      BY <1>3, <2>4, SinkFrame DEF SinkFinish, InputShuts, SinkReturns, chanVars
    <2>5. CASE SinkWriteFails \/ SinkCancelled
      BY <1>3, <2>5, SinkFrame DEF SinkWriteFails, SinkCancelled
    <2> QED
      BY <1>3, <2>1, <2>2, <2>3, <2>4, <2>5 DEF Sink
  <1>4. CASE AgentRead \/ AgentExit
    BY <1>4, AgentFrame
  <1> QED
    BY <1>1, <1>2, <1>3, <1>4 DEF Next

\* The fallback is counted once, and at the end exactly when it happened.
LEMMA WarningStep ==
    ASSUME FrameInv, TypeOK, CoordinatorInv, WarningInv, Next
    PROVE  WarningInv'
  <1> USE DEF WarningInv
  <1>1. ASSUME NEW k \in 1..MaxChunkBytes, RecvChunk(k) PROVE WarningInv'
    <2>1. /\ overflowed' = overflowed /\ warnings' = warnings /\ outputOk' = outputOk
          /\ finished' = finished /\ rawFallback' = rawFallback /\ pc' = "dispatch" /\ ~finished
      BY <1>1 DEF RecvChunk, Ingest, IngestRaw
    <2> QED
      BY <2>1
  <1>2. CASE ScanChunk
    <2>1. ~finished /\ ~rawFallback /\ pc = "dispatch"
      BY <1>2, ScanningChunk DEF CoordinatorInv, FrameInv, Position
    <2>2. /\ finished' <=> finished
          /\ overflowed' <=> (rawFallback' /\ ~rawFallback)
          /\ warnings' = warnings /\ pc' = pc
      <3>1. finished' = finished
        BY <1>2 DEF ScanChunk, Scan, CompleteFrame, BufferTail, OverflowTail
      <3>2. /\ overflowed' = (rawFallback' /\ ~rawFallback)
            /\ warnings' = warnings /\ pc' = pc
        BY <1>2 DEF ScanChunk
      <3> QED
        BY <3>1, <3>2
    <2>3. warnings = 0
      BY <2>1
    <2> QED
      BY <2>1, <2>2, <2>3
  <1>3. CASE CloseAdapter
    <2>1. buffer # <<>> <=> cursor > LastCut
      <3>1. /\ source \in Seq(Byte) /\ LastCut \in Nat /\ cursor \in Nat
            /\ LastCut <= cursor /\ cursor <= Len(source)
            /\ buffer = SubSeq(source, LastCut + 1, cursor) /\ ~finished
        BY <1>3, LastCutType DEF FrameInv, FrameTypeOK, Position, Verbatim, CloseAdapter, Finish
      <3>2. buffer \in Seq(Byte) /\ Len(buffer) = cursor - LastCut
        BY <3>1, PieceIs
      <3> QED
        BY <3>1, <3>2, EmptySeq
    <2>2. /\ rawFallback' = rawFallback /\ cursor' = cursor /\ LastCut' = LastCut
          /\ finished' /\ ~finished /\ pc = "finish" /\ outputOk' = outputOk
          /\ overflowed' = overflowed
          /\ warnings' = IF buffer # <<>> /\ ~rawFallback /\ warnings = 0 THEN 1 ELSE warnings
      BY <1>3 DEF CloseAdapter, Finish, LastCut
    <2>3. rawFallback => cursor = LastCut
      BY DEF FrameInv, Position
    <2> QED
      BY <2>1, <2>2, <2>3
  <1>4. CASE NotFrame
    <2>1. rawFallback' = rawFallback /\ cursor' = cursor /\ LastCut' = LastCut /\ finished' = finished
      BY <1>4, NotFrameStutters DEF frameVars, LastCut
    <2>2. CASE EndChunk
      BY <2>1, <2>2 DEF EndChunk, CoordinatorInv
    <2>3. CASE /\ overflowed' = overflowed /\ warnings' = warnings
               /\ outputOk' = outputOk /\ pc' = pc
      BY <2>1, <2>3
    <2>4. CASE Dispatch \/ HostStdoutFails \/ OutputFails \/ OutputEnds \/ SettleJoin \/ SettleTimeout \/ AwaitSink
      <3>1. /\ overflowed' = overflowed /\ warnings' = warnings
            /\ outputOk' => outputOk
            /\ pc = "dispatch" => pc' = "dispatch" \/ ~outputOk'
        <4>1. CASE Dispatch
          BY <4>1 DEF Dispatch, DispatchForward, DispatchNotification, DispatchRequest,
                      DispatchRequestSinkGone
        <4>2. CASE HostStdoutFails \/ OutputFails \/ OutputEnds
          BY <4>2 DEF HostStdoutFails, OutputFails, OutputEnds
        <4>3. CASE SettleJoin \/ SettleTimeout \/ AwaitSink
          <5>1. pc \in {"settle", "await"}
            BY <4>3 DEF SettleJoin, SettleTimeout, AwaitSink
          <5>2. /\ overflowed' = overflowed /\ warnings' = warnings
                /\ outputOk' = outputOk
            BY <4>3 DEF SettleJoin, SettleTimeout, AwaitSink
          <5> QED
            BY <5>1, <5>2
        <4> QED
          BY <2>4, <4>1, <4>2, <4>3
      <3> QED
        BY <2>1, <3>1
    <2>5. CASE StdinTask
      BY <2>3, <2>5, StdinTaskFrame
    <2>6. CASE Sink
      BY <2>3, <2>6, SinkFrame
    <2>7. CASE AgentRead \/ AgentExit
      BY <2>3, <2>7, AgentFrame
    <2> QED
      BY <1>4, <2>2, <2>4, <2>5, <2>6, <2>7 DEF NotFrame
  <1> QED
    BY <1>1, <1>2, <1>3, <1>4 DEF Next, Coordinator, NotFrame

----------------------------------------------------------------------------
(* The order of container stdin.                                           *)

\* What happens to the queue, on sequences of any commands.
LEMMA PrefixOfJoin ==
    ASSUME NEW S, NEW d \in Seq(S), NEW r \in Seq(S)
    PROVE  IsPrefix(d, d \o r)
  <1>1. /\ d \o r \in Seq(S) /\ Len(d \o r) = Len(d) + Len(r) /\ Len(d) \in Nat /\ Len(r) \in Nat
        /\ \A i \in 1..Len(d) : (d \o r)[i] = d[i]
    BY ConcatProperties
  <1>2. SubSeq(d, 1, Len(d)) = SubSeq(d \o r, 1, Len(d))
    BY <1>1
  <1> QED
    BY <1>1, <1>2 DEF IsPrefix

LEMMA PrefixOfAppend ==
    ASSUME NEW S, NEW d \in Seq(S), NEW q \in Seq(S), NEW c \in S, IsPrefix(d, q)
    PROVE  IsPrefix(d, Append(q, c))
  <1>1. /\ Len(d) \in Nat /\ Len(q) \in Nat /\ Len(d) <= Len(q)
        /\ Append(q, c) \in Seq(S) /\ Len(Append(q, c)) = Len(q) + 1
        /\ \A i \in 1..Len(q) : Append(q, c)[i] = q[i]
    BY DEF IsPrefix
  <1>2. SubSeq(Append(q, c), 1, Len(d)) = SubSeq(q, 1, Len(d))
    BY <1>1
  <1> QED
    BY <1>1, <1>2 DEF IsPrefix

LEMMA RecvInOrder ==
    ASSUME NEW S, NEW d \in Seq(S), NEW q \in Seq(S), q # <<>>
    PROVE  d \o <<>> \o q = d \o <<Head(q)>> \o Tail(q)
  <1>1. Head(q) \in S /\ Tail(q) \in Seq(S) /\ <<Head(q)>> \in Seq(S) /\ d \o <<>> = d
    BY HeadTailProperties, ConcatEmptySeq
  <1>2. <<Head(q)>> \o Tail(q) = q
    OBVIOUS
  <1> QED
    BY <1>1, <1>2, ConcatAssociative

LEMMA WriteInOrder ==
    ASSUME NEW S, NEW d \in Seq(S), NEW q \in Seq(S), NEW c \in S
    PROVE  d \o <<c>> \o q = Append(d, c) \o <<>> \o q
  <1>1. Append(d, c) = d \o <<c>> /\ Append(d, c) \in Seq(S)
    OBVIOUS
  <1> QED
    BY <1>1, ConcatEmptySeq

----------------------------------------------------------------------------
(* Types.                                                                  *)

\* An output once returned stays.
LEMMA OutputsGrow ==
    ASSUME FrameInv, Next
    PROVE  /\ outputs \in Seq([kind : OutputKinds, bytes : Seq(Byte)])
           /\ outputs' \in Seq([kind : OutputKinds, bytes : Seq(Byte)])
           /\ Len(outputs) \in Nat /\ Len(outputs') \in Nat /\ Len(outputs) <= Len(outputs')
           /\ \A k \in 1..Len(outputs) : outputs'[k] = outputs[k]
  <1>1. outputs' = outputs \/ \E o : outputs' = Append(outputs, o)
    <2>1. ASSUME NEW k \in 1..MaxChunkBytes, RecvChunk(k)
          PROVE  outputs' = outputs \/ \E o : outputs' = Append(outputs, o)
      BY <2>1 DEF RecvChunk, Ingest, IngestRaw, Emit
    <2>2. CASE ScanChunk
      BY <2>2 DEF ScanChunk, Scan, CompleteFrame, BufferTail, OverflowTail, Emit
    <2>3. CASE CloseAdapter
      BY <2>3 DEF CloseAdapter, Finish
    <2>4. CASE NotFrame
      BY <2>4, NotFrameStutters DEF frameVars
    <2> QED
      BY <2>1, <2>2, <2>3, <2>4 DEF Next, Coordinator, NotFrame
  <1>2. /\ outputs \in Seq([kind : OutputKinds, bytes : Seq(Byte)])
        /\ outputs' \in Seq([kind : OutputKinds, bytes : Seq(Byte)])
    <2>1. FrameInv'
      BY FrameStep, NextInv
    <2> QED
      BY <2>1 DEF FrameInv, FrameTypeOK
  <1>3. /\ Len(outputs) \in Nat /\ Len(outputs') \in Nat /\ Len(outputs) <= Len(outputs')
        /\ \A k \in 1..Len(outputs) : outputs'[k] = outputs[k]
    <2> DEFINE S == [kind : OutputKinds, bytes : Seq(Byte)]
    <2>1. CASE outputs' = outputs
      BY <1>2, <2>1
    <2>2. ASSUME NEW o, outputs' = Append(outputs, o)
          PROVE  /\ Len(outputs) \in Nat /\ Len(outputs') = Len(outputs) + 1
                 /\ \A k \in 1..Len(outputs) : outputs'[k] = outputs[k]
      <3>1. outputs \in Seq(S \cup {o}) /\ o \in S \cup {o}
        BY <1>2, SeqMonotonic
      <3> HIDE DEF S
      <3> QED
        BY <2>2, <3>1
    <2> QED
      BY <1>1, <2>1, <2>2
  <1> QED
    BY <1>2, <1>3

\* So what was a command stays one.
LEMMA CommandsGrow ==
    ASSUME FrameInv, Next
    PROVE  /\ Len(outputs) \in Nat /\ Len(outputs') \in Nat /\ Len(outputs) <= Len(outputs')
           /\ WriteCmd \subseteq WriteCmd'
  <1>1. Responses \subseteq Responses'
    BY OutputsGrow DEF Responses
  <1> QED
    BY <1>1, OutputsGrow DEF WriteCmd

\* The index of the next output, when there are more of them.
LEMMA IndexStays ==
    ASSUME NEW n \in Nat, NEW m \in Nat, n <= m, NEW k \in 1..(n + 1)
    PROVE  k \in 1..(m + 1) /\ (k <= n => k \in 1..n /\ k + 1 \in 1..(m + 1))
  OBVIOUS

LEMMA CoordinatorTypeStep ==
    ASSUME FrameInv, CoordinatorTypeOK, Next
    PROVE  CoordinatorTypeOK'
  <1> DEFINE n == Len(outputs)
  <1> DEFINE m == Len(outputs')
  <1>a. n \in Nat /\ m \in Nat /\ n <= m
    BY CommandsGrow
  <1>b. /\ next \in 1..(n + 1)
        /\ pc \in {"recv", "dispatch", "finish", "settle", "await", "done"}
        /\ overflowed \in BOOLEAN /\ warnings \in Nat /\ outputOk \in BOOLEAN
        /\ result \in {"none", "ok", "output failed", "stdin failed", "sink failed"}
        /\ adapterSender \in BOOLEAN
    BY DEF CoordinatorTypeOK
  <1>c. CoordinatorTypeOK' <=>
          /\ pc' \in {"recv", "dispatch", "finish", "settle", "await", "done"}
          /\ next' \in 1..(m + 1)
          /\ overflowed' \in BOOLEAN /\ warnings' \in Nat /\ outputOk' \in BOOLEAN
          /\ result' \in {"none", "ok", "output failed", "stdin failed", "sink failed"}
          /\ adapterSender' \in BOOLEAN
    BY DEF CoordinatorTypeOK
  <1> HIDE DEF n, m
  <1>0. next \in 1..(m + 1)
    BY <1>a, <1>b, IndexStays
  <1>1. ASSUME NEW k \in 1..MaxChunkBytes, RecvChunk(k) PROVE CoordinatorTypeOK'
    BY <1>b, <1>c, <1>0, <1>1 DEF RecvChunk
  <1>2. CASE ScanChunk
    BY <1>b, <1>c, <1>0, <1>2 DEF ScanChunk
  <1>3. CASE Dispatch
    <2>1. /\ next' = next + 1 /\ next <= n
          /\ pc' = pc /\ overflowed' = overflowed /\ warnings' = warnings /\ outputOk' = outputOk
          /\ result' = result /\ adapterSender' = adapterSender
      BY <1>3 DEF Dispatch, DispatchForward, DispatchNotification, DispatchRequest,
                  DispatchRequestSinkGone, Dispatching, n
    <2>2. next' \in 1..(m + 1)
      BY <1>a, <1>b, <2>1, IndexStays
    <2> QED
      BY <1>b, <1>c, <2>1, <2>2
  <1>4. CASE HostStdoutFails
    BY <1>b, <1>c, <1>0, <1>4 DEF HostStdoutFails
  <1>5. CASE EndChunk \/ OutputFails \/ OutputEnds \/ CloseAdapter
    <2>1. /\ next' = next /\ pc' \in {"recv", "finish", "settle"} /\ result' = result
          /\ outputOk' \in BOOLEAN /\ overflowed' \in BOOLEAN /\ adapterSender' \in BOOLEAN
      BY <1>b, <1>5 DEF EndChunk, OutputFails, OutputEnds, CloseAdapter
    <2>2. warnings' = warnings \/ warnings' = warnings + 1 \/ warnings' = 1
      BY <1>5 DEF EndChunk, OutputFails, OutputEnds, CloseAdapter
    <2>3. warnings \in Nat
      BY <1>b
    <2>4. warnings' \in Nat
      BY <2>2, <2>3
    <2> QED
      BY <1>c, <1>0, <1>b, <2>1, <2>4
  <1>6. CASE SettleJoin \/ SettleTimeout
    <2>1. /\ next' = next /\ overflowed' = overflowed /\ warnings' = warnings
          /\ outputOk' = outputOk /\ adapterSender' = adapterSender
      BY <1>6 DEF SettleJoin, SettleTimeout
    <2>2. \A stdinOk : Conclude(stdinOk) =>
              /\ pc' \in {"await", "done"}
              /\ result' \in {"output failed", "stdin failed", result}
      BY DEF Conclude
    <2>3. /\ pc' \in {"await", "done"}
          /\ result' \in {"output failed", "stdin failed", result}
      BY <1>6, <2>2 DEF SettleJoin, SettleTimeout
    <2> QED
      BY <1>b, <1>c, <1>0, <2>1, <2>3
  <1>8. CASE AwaitSink
    BY <1>b, <1>c, <1>0, <1>8 DEF AwaitSink
  <1>9. CASE StdinTask
    BY <1>b, <1>c, <1>0, <1>9, StdinTaskFrame
  <1>10. CASE Sink
    BY <1>b, <1>c, <1>0, <1>10, SinkFrame
  <1>11. CASE AgentRead \/ AgentExit
    BY <1>b, <1>c, <1>0, <1>11, AgentFrame
  <1> QED
    BY <1>1, <1>2, <1>3, <1>4, <1>5, <1>6, <1>8, <1>9, <1>10, <1>11 DEF Next, Coordinator

\* All that can happen to the channel in a step.
Queues(command) ==
    /\ Send(command)
    /\ UNCHANGED <<sinkPc, sinkCommand, inputAlive, inputShut, delivered>>

LEMMA ChannelMoves ==
    ASSUME FrameInv, CoordinatorTypeOK, StdinTypeOK, Next
    PROVE  \/ chan' = chan /\ queued' = queued
           \/ \E command \in WriteCmd : Queues(command)
           \/ SinkRecv
           \/ chan' = <<>> /\ queued' = queued /\ (SinkWriteFails \/ SinkCancelled)
  <1>1. CASE DispatchRequest
    <2>1. Response(outputs[next]) \in Responses
      <3>1. next \in 1..(Len(outputs) + 1) /\ next <= Len(outputs)
        BY <1>1 DEF DispatchRequest, Dispatching, CoordinatorTypeOK
      <3>2. next \in 1..Len(outputs)
        BY <3>1, IndexStays, CommandsGrow
      <3> QED
        BY <3>2 DEF Responses
    <2>2. Synthesized(Response(outputs[next])) \in WriteCmd
      BY <2>1 DEF Synthesized, WriteCmd
    <2>3. Queues(Synthesized(Response(outputs[next])))
      BY <1>1 DEF DispatchRequest, Queues, sinkVars
    <2> QED
      BY <2>2, <2>3
  <1>2. CASE StdinSend
    BY <1>2 DEF StdinSend, Queues, sinkVars, StdinTypeOK
  <1>3. CASE Coordinator /\ ~DispatchRequest
    <2>1. UNCHANGED chanVars
      BY <1>3 DEF Coordinator, RecvChunk, ScanChunk, Dispatch, DispatchForward,
                  DispatchNotification, DispatchRequestSinkGone, HostStdoutFails, EndChunk,
                  OutputFails, OutputEnds, CloseAdapter, SettleJoin, SettleTimeout, AwaitSink
    <2> QED
      BY <2>1 DEF chanVars
  <1>4. CASE StdinTask /\ ~StdinSend
    <2>1. UNCHANGED chanVars
      BY <1>4 DEF StdinTask, ReadFirstFrame, PumpRead, FirstFrameTooLong, FirstFrameEof, PumpEof,
                  StdinReadFails, StdinSinkGone, StdinCancelled, StopStdin
    <2> QED
      BY <2>1 DEF chanVars
  <1>5. CASE Sink
    BY <1>5 DEF Sink, SinkWriteOk, SinkBrokenPipe, SinkWriteFails, SinkFinish, InputShuts,
                SinkReturns, SinkCancelled, chanVars
  <1>6. CASE AgentRead \/ AgentExit
    BY <1>6, AgentFrame
  <1> QED
    BY <1>1, <1>2, <1>3, <1>4, <1>5, <1>6 DEF Next

LEMMA ChannelTypeStep ==
    ASSUME FrameInv, TypeOK, Next
    PROVE  ChannelTypeOK'
  <1>1. /\ chan \in Seq(WriteCmd) /\ Len(chan) <= Capacity /\ queued \in Seq(WriteCmd)
        /\ Capacity \in Nat \ {0}
    BY SessionAssumption DEF TypeOK, ChannelTypeOK
  <1>2. chan' \in Seq(WriteCmd) /\ queued' \in Seq(WriteCmd) /\ Len(chan') <= Capacity
    <2>1. CASE chan' = chan /\ queued' = queued
      BY <1>1, <2>1
    <2>2. ASSUME NEW command \in WriteCmd, Queues(command)
          PROVE  chan' \in Seq(WriteCmd) /\ queued' \in Seq(WriteCmd) /\ Len(chan') <= Capacity
      <3>1. /\ Len(chan) < Capacity /\ chan' = Append(chan, command)
            /\ queued' = Append(queued, command)
        BY <2>2 DEF Queues, Send
      <3> QED
        BY <1>1, <3>1
    <2>3. CASE SinkRecv
      <3>1. chan # <<>> /\ chan' = Tail(chan) /\ queued' = queued
        BY <2>3 DEF SinkRecv
      <3>2. Tail(chan) \in Seq(WriteCmd) /\ Len(Tail(chan)) = Len(chan) - 1 /\ Len(chan) \in Nat
        BY <1>1, <3>1, HeadTailProperties
      <3> QED
        BY <1>1, <3>1, <3>2
    <2>4. CASE chan' = <<>> /\ queued' = queued
      <3>1. <<>> \in Seq(WriteCmd) /\ Len(<<>>) = 0
        BY EmptySeq
      <3> QED
        BY <1>1, <2>4, <3>1
    <2> QED
      BY <2>1, <2>2, <2>3, <2>4, ChannelMoves DEF TypeOK
  <1>3. WriteCmd \subseteq WriteCmd'
    BY CommandsGrow
  <1>4. chan' \in Seq(WriteCmd') /\ queued' \in Seq(WriteCmd')
    BY <1>2, <1>3, SeqMonotonic
  <1> QED
    BY <1>2, <1>4 DEF ChannelTypeOK

\* What a stdin task reads, and when it has a command to send.
LEMMA HostPiece ==
    ASSUME StdinTypeOK, NEW k \in 1..MaxFirstFrameBytes, hostRead + k <= Len(host)
    PROVE  /\ HostBytes(k) \in Seq(HostByte) /\ Len(HostBytes(k)) = k
           /\ hostRead + k \in 0..Len(host)
           /\ SubSeq(host, 1, hostRead) \o HostBytes(k) = SubSeq(host, 1, hostRead + k)
  <1>1. host \in Seq(HostByte) /\ Len(host) \in Nat /\ hostRead \in Nat /\ hostRead <= Len(host)
    <2>1. host \in Seq(HostByte) /\ hostRead \in 0..Len(host)
      BY DEF StdinTypeOK
    <2> QED
      BY <2>1
  <1>2. MaxFirstFrameBytes \in Nat /\ k \in Nat /\ k > 0
    BY MaskAssumption
  <1>3. PICK to \in Nat : to = hostRead + k
    BY <1>1, <1>2
  <1>4. to <= Len(host) /\ hostRead <= to
    BY <1>1, <1>2, <1>3
  <1>5. /\ SubSeq(host, hostRead + 1, to) \in Seq(HostByte)
        /\ Len(SubSeq(host, hostRead + 1, to)) = to - hostRead
    BY <1>1, <1>4
  <1>6. SubSeq(host, 1, hostRead) \o SubSeq(host, hostRead + 1, to) = SubSeq(host, 1, to)
    BY <1>1, <1>4, ConcatAdjacentSubSeq
  <1> QED
    BY <1>1, <1>2, <1>3, <1>4, <1>5, <1>6 DEF HostBytes

LEMMA HostCommandType ==
    ASSUME NEW bytes \in Seq(HostByte)
    PROVE  HostCommand(bytes) \in WriteCmd
  BY DEF HostCommand, WriteCmd

LEMMA FirstFrameStep ==
    ASSUME StdinTypeOK, FirstFrameInv, Next
    PROVE  FirstFrameInv'
  <1> USE DEF FirstFrameInv
  <1>1. ASSUME NEW k \in 1..MaxFirstFrameBytes, ReadFirstFrame(k)
        PROVE  FirstFrameInv' /\ firstFrame' = SubSeq(host, 1, hostRead')
    <2>1. /\ host' = host /\ hostRead' = hostRead + k /\ firstFrame' = firstFrame \o HostBytes(k)
          /\ stdinPc = "first" /\ hostRead + k <= Len(host)
      BY <1>1 DEF ReadFirstFrame, Reading
    <2>2. SubSeq(host, 1, hostRead) \o HostBytes(k) = SubSeq(host, 1, hostRead + k)
      BY <2>1, HostPiece
    <2> QED
      BY <2>1, <2>2
  <1>2. CASE StdinTask /\ ~(\E k \in 1..MaxFirstFrameBytes : ReadFirstFrame(k))
    <2>1. host' = host /\ stdinPc' # "first"
      BY <1>2 DEF StdinTask, PumpRead, FirstFrameTooLong, FirstFrameEof, PumpEof,
                  StdinReadFails, StdinSend, StdinSinkGone, StdinCancelled, StopStdin
    <2> QED
      BY <2>1
  <1>3. CASE Coordinator
    <2>1. host' = host /\ stdinPc' = stdinPc /\ firstFrame' = firstFrame /\ hostRead' = hostRead
      BY <1>3, CoordinatorFrame
    <2> QED
      BY <2>1
  <1>4. CASE Sink
    <2>1. host' = host /\ stdinPc' = stdinPc /\ firstFrame' = firstFrame /\ hostRead' = hostRead
      BY <1>4, SinkFrame
    <2> QED
      BY <2>1
  <1>5. CASE AgentRead \/ AgentExit
    <2>1. host' = host /\ stdinPc' = stdinPc /\ firstFrame' = firstFrame /\ hostRead' = hostRead
      BY <1>5, AgentFrame
    <2> QED
      BY <2>1
  <1> QED
    BY <1>1, <1>2, <1>3, <1>4, <1>5 DEF Next

LEMMA StdinTypeStep ==
    ASSUME FrameInv, TypeOK, FirstFrameInv, Next
    PROVE  StdinTypeOK'
  <1>1. StdinTypeOK /\ WriteCmd \subseteq WriteCmd'
    BY CommandsGrow DEF TypeOK
  <1>2. /\ stdinPc \in {"first", "pump", "send", "stopped"}
        /\ stdinEnd \in {"running", "eof", "sink gone", "error", "cancelled"}
        /\ stdinAbort \in BOOLEAN /\ stdinDisabled \in BOOLEAN
        /\ host \in Seq(HostByte) /\ hostRead \in 0..Len(host)
        /\ firstFrame \in Seq(HostByte) /\ Len(firstFrame) <= MaxFirstFrameBytes
        /\ pending \in WriteCmd' \cup {NoCommand}
        /\ stdinPc = "send" => pending \in WriteCmd'
    BY <1>1 DEF StdinTypeOK
  <1>3. StdinTypeOK' <=>
        /\ stdinPc' \in {"first", "pump", "send", "stopped"}
        /\ stdinEnd' \in {"running", "eof", "sink gone", "error", "cancelled"}
        /\ stdinAbort' \in BOOLEAN /\ stdinDisabled' \in BOOLEAN
        /\ host' \in Seq(HostByte) /\ hostRead' \in 0..Len(host')
        /\ firstFrame' \in Seq(HostByte) /\ Len(firstFrame') <= MaxFirstFrameBytes
        /\ pending' \in WriteCmd' \cup {NoCommand}
        /\ stdinPc' = "send" => pending' \in WriteCmd'
    BY DEF StdinTypeOK
  <1>a. firstFrame \in Seq(HostByte)
    BY <1>2
  <1>b. host \in Seq(HostByte) /\ Len(host) \in Nat /\ hostRead \in Nat
    <2>1. host \in Seq(HostByte) /\ hostRead \in 0..Len(host)
      BY <1>2
    <2> QED
      BY <2>1
  <1>4. ASSUME NEW bytes \in Seq(HostByte) PROVE HostCommand(bytes) \in WriteCmd'
    BY <1>1, HostCommandType
  <1>5. ASSUME NEW k \in 1..MaxFirstFrameBytes, ReadFirstFrame(k) PROVE StdinTypeOK'
    <2>1. /\ host' = host /\ hostRead' = hostRead + k /\ stdinPc = "first"
          /\ firstFrame' = firstFrame \o HostBytes(k)
          /\ hostRead + k <= Len(host) /\ Len(firstFrame) + k <= MaxFirstFrameBytes
          /\ stdinEnd' = stdinEnd /\ stdinAbort' = stdinAbort /\ stdinDisabled' = stdinDisabled
          /\ \/ stdinPc' = "send" /\ pending' = HostCommand(MaskFrame(firstFrame'))
             \/ stdinPc' = stdinPc /\ pending' = pending
      BY <1>5 DEF ReadFirstFrame, Reading
    <2>2. hostRead' \in 0..Len(host) /\ HostBytes(k) \in Seq(HostByte) /\ Len(HostBytes(k)) = k
      BY <1>1, <2>1, HostPiece
    <2>3. /\ firstFrame' \in Seq(HostByte)
          /\ Len(firstFrame') = Len(firstFrame) + k
      <3>1. PICK piece \in Seq(HostByte) : piece = HostBytes(k) /\ Len(piece) = k
        BY <2>2
      <3>2. firstFrame' = firstFrame \o piece
        BY <2>1, <3>1
      <3>3. firstFrame \o piece \in Seq(HostByte) /\ Len(firstFrame \o piece) = Len(firstFrame) + Len(piece)
        BY <1>a, ConcatProperties
      <3> QED
        BY <3>1, <3>2, <3>3
    <2>4. MaskFrame(firstFrame') \in Seq(HostByte)
      <3>1. FirstFrameInv'
        BY <1>1, FirstFrameStep
      <3>2. firstFrame' = SubSeq(host, 1, hostRead')
        BY <1>1, <1>5, <2>1, HostPiece DEF FirstFrameInv
      <3>3. hostRead' \in 1..Len(host)
        <4>1. hostRead \in Nat /\ k \in Nat /\ k > 0 /\ Len(host) \in Nat
          BY <1>b, MaskAssumption
        <4> QED
          BY <2>1, <4>1
      <3>4. host \in HostStreams
        BY DEF FirstFrameInv
      <3> QED
        BY <3>2, <3>3, <3>4, MaskedBytesAssumption
    <2>5. pending' \in WriteCmd' \cup {NoCommand} /\ (stdinPc' = "send" => pending' \in WriteCmd')
      BY <1>2, <1>4, <2>1, <2>4
    <2> QED
      BY <1>2, <1>3, <2>1, <2>2, <2>3, <2>5
  <1>6. ASSUME NEW k \in 1..MaxFirstFrameBytes, PumpRead(k) PROVE StdinTypeOK'
    <2>1. /\ host' = host /\ hostRead' = hostRead + k /\ firstFrame' = firstFrame
          /\ hostRead + k <= Len(host)
          /\ stdinEnd' = stdinEnd /\ stdinAbort' = stdinAbort /\ stdinDisabled' = stdinDisabled
          /\ stdinPc' = "send" /\ pending' = HostCommand(HostBytes(k))
      BY <1>6 DEF PumpRead, Reading
    <2>2. hostRead' \in 0..Len(host) /\ HostBytes(k) \in Seq(HostByte)
      BY <1>1, <2>1, HostPiece
    <2>3. pending' \in WriteCmd'
      BY <1>4, <2>1, <2>2
    <2> QED
      BY <1>2, <1>3, <2>1, <2>2, <2>3
  <1>7. CASE /\ host' = host /\ hostRead' = hostRead /\ firstFrame' = firstFrame
             /\ stdinAbort' \in BOOLEAN /\ stdinDisabled' = stdinDisabled
             /\ stdinPc' \in {"first", "pump", "send", "stopped"}
             /\ stdinEnd' \in {"running", "eof", "sink gone", "error", "cancelled"}
             /\ \/ pending' = HostCommand(firstFrame)
                \/ pending' = NoCommand /\ stdinPc' # "send"
                \/ pending' = pending /\ stdinPc' \in {stdinPc, "stopped", "pump"}
    <2>1. pending' \in WriteCmd' \cup {NoCommand} /\ (stdinPc' = "send" => pending' \in WriteCmd')
      BY <1>2, <1>4, <1>7
    <2> QED
      BY <1>2, <1>3, <1>7, <2>1
  <1>8. CASE StdinTask /\ ~(\E k \in 1..MaxFirstFrameBytes : ReadFirstFrame(k) \/ PumpRead(k))
    <2>1. CASE FirstFrameTooLong \/ FirstFrameEof \/ StdinSend
      <3>1. /\ host' = host /\ hostRead' = hostRead /\ firstFrame' = firstFrame
            /\ stdinAbort' = stdinAbort /\ stdinDisabled' = stdinDisabled /\ stdinEnd' = stdinEnd
            /\ \/ pending' = HostCommand(firstFrame) /\ stdinPc' = "send"
               \/ pending' = pending /\ stdinPc' = "pump"
               \/ pending' = NoCommand /\ stdinPc' = "pump"
        BY <2>1 DEF FirstFrameTooLong, FirstFrameEof, StdinSend
      <3>2. /\ stdinAbort' \in BOOLEAN /\ stdinPc' \in {"first", "pump", "send", "stopped"}
            /\ stdinEnd' \in {"running", "eof", "sink gone", "error", "cancelled"}
        BY <1>2, <3>1
      <3> QED
        BY <1>7, <3>1, <3>2
    <2>2. CASE PumpEof \/ StdinReadFails \/ StdinSinkGone \/ StdinCancelled
      BY <1>2, <1>7, <2>2 DEF PumpEof, StdinReadFails, StdinSinkGone, StdinCancelled, StopStdin
    <2> QED
      BY <1>8, <2>1, <2>2 DEF StdinTask
  <1>9. CASE Coordinator
    <2>1. stdinAbort' \in BOOLEAN
      <3>1. stdinAbort' = stdinAbort \/ stdinAbort' = TRUE
        BY <1>9 DEF Coordinator, RecvChunk, ScanChunk, Dispatch, DispatchForward, DispatchRequest,
                    DispatchNotification, DispatchRequestSinkGone, HostStdoutFails, EndChunk,
                    OutputFails, OutputEnds, CloseAdapter, SettleJoin, SettleTimeout, AwaitSink,
                    stdinVars
      <3> QED
        BY <1>2, <3>1
    <2> QED
      BY <1>2, <1>7, <1>9, <2>1, CoordinatorFrame
  <1>10. CASE Sink
    BY <1>2, <1>7, <1>10, SinkFrame
  <1>11. CASE AgentRead \/ AgentExit
    BY <1>2, <1>7, <1>11, AgentFrame
  <1> QED
    BY <1>5, <1>6, <1>8, <1>9, <1>10, <1>11 DEF Next

LEMMA SinkTypeStep ==
    ASSUME FrameInv, TypeOK, Next
    PROVE  SinkTypeOK'
  <1>1. /\ sinkPc \in {"recv", "write", "shutdown", "done", "failed", "aborted"}
        /\ sinkAbort \in BOOLEAN
        /\ sinkCommand \in WriteCmd' \cup {NoCommand}
        /\ sinkPc = "write" => sinkCommand \in WriteCmd'
        /\ inputAlive \in BOOLEAN /\ inputShut \in BOOLEAN
        /\ delivered \in Seq(WriteCmd') /\ chan \in Seq(WriteCmd')
    BY CommandsGrow, SeqMonotonic DEF TypeOK, SinkTypeOK, ChannelTypeOK
  <1>2. SinkTypeOK' <=>
        /\ sinkPc' \in {"recv", "write", "shutdown", "done", "failed", "aborted"}
        /\ sinkAbort' \in BOOLEAN
        /\ sinkCommand' \in WriteCmd' \cup {NoCommand}
        /\ sinkPc' = "write" => sinkCommand' \in WriteCmd'
        /\ inputAlive' \in BOOLEAN /\ inputShut' \in BOOLEAN
        /\ delivered' \in Seq(WriteCmd')
    BY DEF SinkTypeOK
  <1>3. CASE Coordinator
    <2>1. sinkAbort' = sinkAbort \/ sinkAbort' = TRUE
      <3>1. CASE SettleJoin \/ SettleTimeout
        <4>1. \A stdinOk : Conclude(stdinOk) => sinkAbort' = sinkAbort \/ sinkAbort' = TRUE
          BY DEF Conclude
        <4> QED
          BY <3>1, <4>1 DEF SettleJoin, SettleTimeout
      <3>2. CASE ~SettleJoin /\ ~SettleTimeout
        BY <1>3, <3>2 DEF Coordinator, RecvChunk, ScanChunk, Dispatch, DispatchForward, DispatchRequest,
                    DispatchNotification, DispatchRequestSinkGone, HostStdoutFails, EndChunk,
                    OutputFails, OutputEnds, CloseAdapter, AwaitSink, sinkVars
      <3> QED
        BY <3>1, <3>2
    <2>2. sinkAbort' \in BOOLEAN
      BY <1>1, <2>1
    <2> QED
      BY <1>1, <1>2, <1>3, <2>2, CoordinatorFrame
  <1>4. CASE StdinTask
    BY <1>1, <1>2, <1>4, StdinTaskFrame
  <1>5. CASE SinkRecv
    <2>1. chan # <<>>
      BY <1>5 DEF SinkRecv
    <2>2. PICK command \in WriteCmd' : command = Head(chan)
      BY <1>1, <2>1, HeadTailProperties
    <2>3. /\ \/ sinkPc' = "write" /\ sinkCommand' = command
             \/ sinkPc' = "recv" /\ sinkCommand' = sinkCommand
          /\ sinkAbort' = sinkAbort /\ inputAlive' = inputAlive /\ inputShut' = inputShut
          /\ delivered' = delivered
      BY <1>5, <2>2 DEF SinkRecv
    <2> QED
      BY <1>1, <1>2, <2>3
  <1>6. CASE SinkWriteOk
    <2>1. /\ sinkPc = "write" /\ sinkPc' = "recv" /\ sinkCommand' = NoCommand
          /\ sinkAbort' = sinkAbort /\ inputAlive' = inputAlive /\ inputShut' = inputShut
          /\ delivered' = Append(delivered, sinkCommand)
      BY <1>6 DEF SinkWriteOk
    <2>2. delivered' \in Seq(WriteCmd')
      BY <1>1, <2>1
    <2> QED
      BY <1>1, <1>2, <2>1, <2>2
  <1>7. CASE \/ SinkBrokenPipe \/ SinkWriteFails \/ SinkFinish \/ InputShuts \/ SinkReturns
             \/ SinkCancelled
    <2>1. /\ sinkPc' \in {"recv", "shutdown", "failed", "done", "aborted"}
          /\ sinkCommand' = NoCommand \/ sinkCommand' = sinkCommand
          /\ delivered' = delivered
      BY <1>7 DEF SinkBrokenPipe, SinkWriteFails, SinkFinish, InputShuts, SinkReturns, SinkCancelled
    <2>2. sinkAbort' \in BOOLEAN /\ inputAlive' \in BOOLEAN /\ inputShut' \in BOOLEAN
      BY <1>1, <1>7 DEF SinkBrokenPipe, SinkWriteFails, SinkFinish, InputShuts, SinkReturns, SinkCancelled
    <2>3. sinkPc' # "write"
      BY <2>1
    <2> QED
      BY <1>1, <1>2, <2>1, <2>2, <2>3
  <1>8. CASE AgentRead \/ AgentExit
    BY <1>1, <1>2, <1>8, AgentFrame
  <1> QED
    BY <1>3, <1>4, <1>5, <1>6, <1>7, <1>8 DEF Next, Sink

LEMMA TypeStep ==
    ASSUME FrameInv, TypeOK, FirstFrameInv, Next
    PROVE  TypeOK'
  <1>1. FrameTypeOK'
    BY FrameStep, NextInv DEF FrameInv
  <1>2. CoordinatorTypeOK' /\ ChannelTypeOK' /\ StdinTypeOK' /\ SinkTypeOK'
    BY CoordinatorTypeStep, ChannelTypeStep, StdinTypeStep, SinkTypeStep DEF TypeOK
  <1>3. agentAlive \in BOOLEAN /\ unread \in Nat /\ unread <= PipeCapacity /\ PipeCapacity \in Nat
    BY SessionAssumption DEF TypeOK
  <1>4. agentAlive' \in BOOLEAN /\ unread' \in Nat /\ unread' <= PipeCapacity
    <2>1. CASE Coordinator
      BY <1>3, <2>1, CoordinatorFrame
    <2>2. CASE StdinTask
      BY <1>3, <2>2, StdinTaskFrame
    <2>3. CASE SinkWriteOk
      BY <1>3, <2>3 DEF SinkWriteOk
    <2>4. CASE \/ SinkRecv \/ SinkBrokenPipe \/ SinkWriteFails
               \/ SinkFinish \/ InputShuts \/ SinkReturns \/ SinkCancelled
      <3>1. agentAlive' = agentAlive /\ unread' = unread
        BY <2>4 DEF SinkRecv, SinkBrokenPipe, SinkWriteFails, SinkFinish, InputShuts, SinkReturns,
                    SinkCancelled, agentVars
      <3> QED
        BY <1>3, <3>1
    <2>5. CASE AgentRead
      BY <1>3, <2>5 DEF AgentRead
    <2>6. CASE AgentExit
      BY <1>3, <2>6 DEF AgentExit
    <2> QED
      BY <2>1, <2>2, <2>3, <2>4, <2>5, <2>6 DEF Next, Sink
  <1> QED
    BY <1>1, <1>2, <1>3, <1>4 DEF TypeOK

----------------------------------------------------------------------------
(* The inductive invariant.                                                *)

LEMMA InputStep ==
    ASSUME FrameInv, TypeOK, SinkInv, InputInOrder, Next
    PROVE  InputInOrder'
  <1>1. /\ delivered \in Seq(WriteCmd) /\ queued \in Seq(WriteCmd) /\ chan \in Seq(WriteCmd)
        /\ sinkPc = "write" => sinkCommand \in WriteCmd
        /\ InFlight \in Seq(WriteCmd)
    BY EmptySeq DEF TypeOK, SinkTypeOK, ChannelTypeOK, InFlight
  <1>2. /\ IsPrefix(delivered, queued)
        /\ ~InputBroken => queued = delivered \o InFlight \o chan
    BY DEF InputInOrder
  <1>3. InputInOrder' <=>
        /\ IsPrefix(delivered', queued')
        /\ ~InputBroken' => queued' = delivered' \o InFlight' \o chan'
    BY DEF InputInOrder
  <1>4. CASE /\ chan' = chan /\ queued' = queued /\ delivered' = delivered
             /\ sinkPc' = sinkPc /\ sinkCommand' = sinkCommand /\ inputAlive' = inputAlive
             /\ inputShut' = inputShut
    BY <1>2, <1>3, <1>4 DEF InputBroken, ReceiverAlive, InFlight
  <1>5. ASSUME NEW command \in WriteCmd, Queues(command) PROVE InputInOrder'
    <2>1. /\ chan' = Append(chan, command) /\ queued' = Append(queued, command)
          /\ delivered' = delivered /\ inputAlive' = inputAlive /\ inputShut' = inputShut
          /\ sinkPc' = sinkPc /\ sinkCommand' = sinkCommand
      BY <1>5 DEF Queues, Send
    <2>2. InFlight' = InFlight /\ (InputBroken' <=> InputBroken)
      BY <2>1 DEF InFlight, InputBroken, ReceiverAlive
    <2>3. IsPrefix(delivered, Append(queued, command))
      BY <1>1, <1>2, PrefixOfAppend
    <2>4. Append(delivered \o InFlight \o chan, command)
            = delivered \o InFlight \o Append(chan, command)
      <3>1. PICK held \in Seq(WriteCmd) : held = delivered \o InFlight
        BY <1>1, ConcatProperties
      <3>2. Append(held \o chan, command) = held \o Append(chan, command)
        <4>1. \A s \in Seq(WriteCmd) : Append(s, command) = s \o <<command>>
          OBVIOUS
        <4>2. <<command>> \in Seq(WriteCmd) /\ held \o chan \in Seq(WriteCmd)
          BY <1>1, ConcatProperties
        <4>3. PICK q \in Seq(WriteCmd), tail \in Seq(WriteCmd) : q = chan /\ tail = <<command>>
          BY <1>1, <4>2
        <4>4. (held \o q) \o tail = held \o (q \o tail)
          BY ConcatAssociative
        <4> QED
          BY <1>1, <4>1, <4>2, <4>3, <4>4
      <3> QED
        BY <3>1, <3>2
    <2> QED
      BY <1>2, <1>3, <2>1, <2>2, <2>3, <2>4
  <1>6. CASE SinkRecv
    <2>1. /\ chan # <<>> /\ chan' = Tail(chan) /\ queued' = queued /\ sinkPc = "recv"
          /\ delivered' = delivered /\ inputAlive' = inputAlive /\ inputShut' = inputShut
          /\ inputAlive => sinkPc' = "write" /\ sinkCommand' = Head(chan)
      BY <1>6 DEF SinkRecv
    <2>2. delivered \o <<>> \o chan = delivered \o <<Head(chan)>> \o Tail(chan)
      BY <1>1, <2>1, RecvInOrder
    <2>3. inputAlive => InFlight = <<>> /\ InFlight' = <<Head(chan)>> /\ ~InputBroken
      BY <2>1 DEF InFlight, InputBroken, ReceiverAlive
    <2>4. ~inputAlive => InputBroken'
      BY <2>1 DEF InputBroken, SinkInv
    <2> QED
      BY <1>2, <1>3, <2>1, <2>2, <2>3, <2>4
  <1>7. CASE SinkWriteOk
    <2>1. /\ sinkPc = "write" /\ sinkPc' = "recv" /\ chan' = chan /\ queued' = queued
          /\ delivered' = Append(delivered, sinkCommand) /\ inputAlive' = inputAlive
      BY <1>7 DEF SinkWriteOk, chanVars
    <2>2. InFlight = <<sinkCommand>> /\ InFlight' = <<>> /\ ~InputBroken
      BY <2>1 DEF InFlight, InputBroken, ReceiverAlive, SinkInv
    <2>3. queued = Append(delivered, sinkCommand) \o <<>> \o chan
      BY <1>1, <1>2, <2>1, <2>2, WriteInOrder
    <2>4. IsPrefix(Append(delivered, sinkCommand), queued)
      <3>1. PICK d \in Seq(WriteCmd) : d = Append(delivered, sinkCommand)
        <4>1. delivered \in Seq(WriteCmd) /\ sinkCommand \in WriteCmd
          BY <1>1, <2>1
        <4>2. Append(delivered, sinkCommand) \in Seq(WriteCmd)
          BY <4>1, AppendProperties
        <4> QED
          BY <4>2
      <3>2. d \o <<>> = d /\ IsPrefix(d, d \o chan)
        BY <1>1, PrefixOfJoin, ConcatEmptySeq
      <3> QED
        BY <2>3, <3>1, <3>2
    <2> QED
      BY <1>3, <2>1, <2>2, <2>3, <2>4
  <1>8. CASE SinkBrokenPipe \/ SinkWriteFails \/ SinkCancelled
    <2>1. /\ queued' = queued /\ delivered' = delivered /\ inputShut' = inputShut
          /\ ~inputAlive' \/ sinkPc' = "failed" \/ sinkPc' = "aborted"
      BY <1>8 DEF SinkBrokenPipe, SinkWriteFails, SinkCancelled, chanVars
    <2>2. CASE ~inputShut
      <3>1. InputBroken'
        BY <2>1, <2>2 DEF InputBroken, ReceiverAlive
      <3> QED
        BY <1>2, <1>3, <2>1, <3>1
    <2>3. CASE inputShut
      <3>1. sinkPc = "shutdown" /\ chan = <<>>
        BY <1>8, <2>3 DEF SinkBrokenPipe, SinkWriteFails, SinkCancelled, SinkInv
      <3>2. sinkPc' = "aborted" /\ chan' = <<>>
        BY <1>8, <3>1 DEF SinkBrokenPipe, SinkWriteFails, SinkCancelled
      <3>3. InFlight = <<>> /\ InFlight' = <<>> /\ ~InputBroken
        BY <2>3, <3>1, <3>2 DEF InFlight, InputBroken
      <3> QED
        BY <1>2, <1>3, <2>1, <3>1, <3>2, <3>3
    <2> QED
      BY <2>2, <2>3
  <1>9. CASE SinkFinish \/ InputShuts \/ SinkReturns
    <2>1. /\ sinkPc \in {"recv", "shutdown"} /\ sinkPc' \in {"shutdown", "done"}
          /\ chan' = chan /\ queued' = queued /\ delivered' = delivered /\ inputAlive' = inputAlive
          /\ inputShut' = inputShut \/ sinkPc = "shutdown"
      BY <1>9 DEF SinkFinish, InputShuts, SinkReturns, chanVars
    <2>2. InFlight = <<>> /\ InFlight' = <<>>
      BY <2>1 DEF InFlight
    <2>3. InputBroken => InputBroken'
      BY <2>1 DEF InputBroken, ReceiverAlive, SinkInv
    <2> QED
      BY <1>2, <1>3, <2>1, <2>2, <2>3
  <1>10. CASE chan' = chan /\ queued' = queued /\ (Coordinator \/ StdinTask \/ AgentRead \/ AgentExit)
    <2>1. /\ delivered' = delivered /\ sinkPc' = sinkPc /\ sinkCommand' = sinkCommand
          /\ inputAlive' = inputAlive /\ inputShut' = inputShut
      BY <1>10, CoordinatorFrame, StdinTaskFrame, AgentFrame
    <2> QED
      BY <1>4, <1>10, <2>1
  <1>11. \/ chan' = chan /\ queued' = queued
         \/ \E command \in WriteCmd : Queues(command)
         \/ SinkRecv \/ SinkWriteFails \/ SinkCancelled
    BY ChannelMoves DEF TypeOK
  <1> QED
    BY <1>5, <1>6, <1>7, <1>8, <1>9, <1>10, <1>11 DEF Next, Sink

LEMMA SessionStutter ==
    ASSUME SessionInv, UNCHANGED vars
    PROVE  SessionInv'
  <1>1. FrameInv'
    BY FrameStutterInv DEF SessionInv, vars
  <1>2. /\ pc' = pc /\ next' = next /\ overflowed' = overflowed /\ warnings' = warnings
        /\ outputOk' = outputOk /\ result' = result /\ adapterSender' = adapterSender
        /\ source' = source /\ cursor' = cursor /\ chunk' = chunk /\ buffer' = buffer
        /\ rawFallback' = rawFallback /\ outputs' = outputs /\ cuts' = cuts /\ finished' = finished
    BY DEF vars, frameVars, coordVars
  <1>3. /\ stdinPc' = stdinPc /\ stdinEnd' = stdinEnd /\ stdinAbort' = stdinAbort
        /\ stdinDisabled' = stdinDisabled /\ host' = host /\ hostRead' = hostRead
        /\ firstFrame' = firstFrame /\ pending' = pending /\ chan' = chan /\ queued' = queued
    BY DEF vars, stdinVars, chanVars
  <1>4. /\ sinkPc' = sinkPc /\ sinkAbort' = sinkAbort /\ sinkCommand' = sinkCommand
        /\ inputAlive' = inputAlive /\ inputShut' = inputShut /\ delivered' = delivered
        /\ agentAlive' = agentAlive /\ unread' = unread
    BY DEF vars, sinkVars, agentVars
  <1>5. TypeOK'
    <2>1. FrameTypeOK'
      BY <1>1 DEF FrameInv
    <2>2. WriteCmd' = WriteCmd
      BY <1>2 DEF WriteCmd, Responses
    <2>3. CoordinatorTypeOK'
      BY <1>2 DEF SessionInv, TypeOK, CoordinatorTypeOK
    <2>4. ChannelTypeOK'
      BY <1>3, <2>2 DEF SessionInv, TypeOK, ChannelTypeOK
    <2>5. StdinTypeOK'
      BY <1>3, <2>2 DEF SessionInv, TypeOK, StdinTypeOK
    <2>6. SinkTypeOK'
      BY <1>4, <2>2 DEF SessionInv, TypeOK, SinkTypeOK
    <2> QED
      BY <1>4, <2>1, <2>3, <2>4, <2>5, <2>6 DEF SessionInv, TypeOK
  <1>6. CoordinatorInv'
    BY <1>2, <1>3, <1>4 DEF SessionInv, CoordinatorInv, SettledOk
  <1>7. StdinInv' /\ FirstFrameInv'
    BY <1>2, <1>3, <1>4 DEF SessionInv, StdinInv, FirstFrameInv, ReceiverAlive
  <1>8. SinkInv'
    BY <1>2, <1>3, <1>4 DEF SessionInv, SinkInv, NoSenders
  <1>9. WarningInv'
    BY <1>2 DEF SessionInv, WarningInv, LastCut
  <1>10. InputInOrder'
    BY <1>3, <1>4 DEF SessionInv, InputInOrder, InputBroken, ReceiverAlive, InFlight
  <1> QED
    BY <1>1, <1>5, <1>6, <1>7, <1>8, <1>9, <1>10 DEF SessionInv

LEMMA SessionInit == Init => SessionInv
  <1> SUFFICES ASSUME Init PROVE SessionInv
    OBVIOUS
  <1>1. FrameInv
    BY InitInv DEF Init
  <1>2. outputs = <<>> /\ finished = FALSE /\ chunk = <<>> /\ rawFallback = FALSE
    BY DEF Init, FrameInit
  <1>3. Len(outputs) = 0 /\ <<>> \in Seq(WriteCmd) /\ <<>> \in Seq(HostByte) /\ Len(<<>>) = 0
    BY <1>2, EmptySeq
  <1>4. host \in Seq(HostByte) /\ Len(host) \in Nat
    BY HostStreamsAssumption DEF Init
  <1>a. /\ pc = "recv" /\ next = 1 /\ overflowed = FALSE /\ warnings = 0
        /\ outputOk = TRUE /\ result = "none" /\ adapterSender = TRUE
    BY DEF Init
  <1>b. /\ stdinPc = "first" /\ stdinEnd = "running" /\ stdinAbort = FALSE
        /\ stdinDisabled \in BOOLEAN /\ host \in HostStreams
        /\ hostRead = 0 /\ firstFrame = <<>> /\ pending = NoCommand
    BY DEF Init
  <1>c. /\ sinkPc = "recv" /\ sinkAbort = FALSE /\ sinkCommand = NoCommand
        /\ inputAlive = TRUE /\ inputShut = FALSE /\ delivered = <<>>
        /\ agentAlive = TRUE /\ unread = 0 /\ chan = <<>> /\ queued = <<>>
    BY DEF Init
  <1>5. TypeOK
    <2>1. FrameTypeOK
      BY <1>1 DEF FrameInv
    <2>2. CoordinatorTypeOK
      <3>1. next \in 1..(Len(outputs) + 1)
        BY <1>a, <1>3
      <3> QED
        BY <1>a, <3>1 DEF CoordinatorTypeOK
    <2>3. ChannelTypeOK
      BY <1>3, <1>c, SessionAssumption DEF ChannelTypeOK
    <2>4. StdinTypeOK
      <3>1. hostRead \in 0..Len(host) /\ Len(firstFrame) <= MaxFirstFrameBytes
        BY <1>3, <1>4, <1>b, MaskAssumption
      <3> QED
        BY <1>3, <1>4, <1>b, <3>1 DEF StdinTypeOK
    <2>5. SinkTypeOK
      BY <1>3, <1>c DEF SinkTypeOK
    <2> QED
      BY <1>c, <2>1, <2>2, <2>3, <2>4, <2>5, SessionAssumption DEF TypeOK
  <1>6. CoordinatorInv
    <2>1. next > Len(outputs)
      BY <1>a, <1>3
    <2> QED
      BY <1>2, <1>a, <2>1 DEF CoordinatorInv
  <1>7. StdinInv
    BY <1>a, <1>b DEF StdinInv
  <1>8. FirstFrameInv
    <2>1. SubSeq(host, 1, 0) = <<>>
      BY <1>4, SubSeqEmpty
    <2> QED
      BY <1>b, <2>1 DEF FirstFrameInv
  <1>9. SinkInv
    BY <1>c DEF SinkInv
  <1>10. WarningInv
    BY <1>2, <1>a DEF WarningInv
  <1>11. InputInOrder
    <2>1. InFlight = <<>>
      BY <1>c DEF InFlight
    <2>2. IsPrefix(<<>>, <<>>)
      BY <1>3 DEF IsPrefix
    <2>3. <<>> = <<>> \o <<>> \o <<>>
      BY <1>3, ConcatEmptySeq
    <2> QED
      BY <1>c, <2>1, <2>2, <2>3 DEF InputInOrder
  <1> QED
    BY <1>1, <1>5, <1>6, <1>7, <1>8, <1>9, <1>10, <1>11 DEF SessionInv

LEMMA SessionStep == SessionInv /\ [Next]_vars => SessionInv'
  <1> SUFFICES ASSUME SessionInv, [Next]_vars PROVE SessionInv'
    OBVIOUS
  <1>1. CASE UNCHANGED vars
    BY <1>1, SessionStutter
  <1>2. CASE Next
    <2>1. /\ FrameInv /\ TypeOK /\ CoordinatorInv /\ StdinInv /\ FirstFrameInv
          /\ SinkInv /\ WarningInv /\ InputInOrder
      BY DEF SessionInv
    <2>2. FrameInv'
      BY <2>1, FrameStep, NextInv
    <2>3. TypeOK' /\ CoordinatorInv' /\ StdinInv'
      BY <1>2, <2>1, TypeStep, CoordinatorStep, StdinStep
    <2>4. FirstFrameInv' /\ SinkInv' /\ WarningInv' /\ InputInOrder'
      BY <1>2, <2>1, FirstFrameStep, SinkStep, WarningStep, InputStep DEF TypeOK
    <2> QED
      BY <2>2, <2>3, <2>4 DEF SessionInv
  <1> QED
    BY <1>1, <1>2

\* The positions of the coordinator, the stdin task and the sink constrain each
\* other as SessionInv says, for every interleaving (protocol.rs:277-338,
\* acp_runtime.rs:78-164, protocol_stdin.rs:40-158).
THEOREM SessionInvariant == Spec => []SessionInv
  BY SessionInit, SessionStep, PTL DEF Spec

\* Every variable has its type, and neither the channel nor the pipe ever holds
\* more than its capacity.
THEOREM SessionTypeCorrect == Spec => []TypeOK
  <1>1. SessionInv => TypeOK
    BY DEF SessionInv
  <1> QED
    BY <1>1, SessionInvariant, PTL

\* One channel carries both producers' commands to the agent in the order in
\* which they were queued, without a gap (acp_runtime.rs:23-27).
THEOREM InputStaysInOrder == Spec => []InputInOrder
  <1>1. SessionInv => InputInOrder
    BY DEF SessionInv
  <1> QED
    BY <1>1, SessionInvariant, PTL

\* The fallback warning appears at most once, and exactly when something passed
\* undecided or was dropped (acp_runtime.rs:178-189, 268-274).
THEOREM FallbackIsLogged == Spec => []FallbackLogged
  <1>1. SessionInv => FallbackLogged
    BY DEF SessionInv, WarningInv, FallbackLogged, CoordinatorInv
  <1> QED
    BY <1>1, SessionInvariant, PTL

\* Once a sink that ends in order has found the channel closed, everything queued was
\* written.
LEMMA DrainedIsDelivered ==
    ASSUME SessionInv, inputShut \/ (sinkPc = "done" /\ inputAlive)
    PROVE  chan = <<>> /\ delivered = queued
  <1>1. /\ chan = <<>> /\ sinkPc # "write" /\ ~InputBroken
    BY DEF SessionInv, SinkInv, InputBroken, ReceiverAlive
  <1>2. InFlight = <<>>
    BY <1>1 DEF InFlight
  <1>3. delivered \in Seq(WriteCmd) /\ queued = delivered \o InFlight \o chan
    BY <1>1 DEF SessionInv, InputInOrder, TypeOK, SinkTypeOK
  <1> QED
    BY <1>1, <1>2, <1>3, ConcatEmptySeq

\* Container stdin is shut down only when every sender is gone and every answer
\* and every byte queued was written (acp_runtime.rs:21-27).
THEOREM ShutdownIsComplete == Spec => []ShutdownDeliversAll
  <1>1. SessionInv => ShutdownDeliversAll
    <2> SUFFICES ASSUME SessionInv, inputShut PROVE NoSenders /\ chan = <<>> /\ delivered = queued
                                                    /\ (outputOk => next > Len(outputs))
      BY DEF ShutdownDeliversAll
    <2>1. NoSenders
      BY DEF SessionInv, SinkInv
    <2>2. outputOk => next > Len(outputs)
      BY <2>1 DEF SessionInv, CoordinatorInv, NoSenders
    <2> QED
      BY <2>1, <2>2, DrainedIsDelivered
  <1> QED
    BY <1>1, SessionInvariant, PTL

----------------------------------------------------------------------------
(* Prefixes: SequencesExt's IsPrefix.                                      *)

\* IsPrefix, element by element.
LEMMA PrefixIs ==
    ASSUME NEW S, NEW a \in Seq(S), NEW b \in Seq(S)
    PROVE  IsPrefix(a, b) <=> Len(a) <= Len(b) /\ \A i \in 1..Len(a) : a[i] = b[i]
  <1>1. Len(a) \in Nat /\ Len(b) \in Nat
    OBVIOUS
  <1>2. ASSUME Len(a) <= Len(b)
        PROVE  SubSeq(a, 1, Len(a)) = SubSeq(b, 1, Len(a)) <=> \A i \in 1..Len(a) : a[i] = b[i]
    <2>1. SubSeq(a, 1, Len(a)) = a
      OBVIOUS
    <2>2. /\ SubSeq(b, 1, Len(a)) \in Seq(S) /\ Len(SubSeq(b, 1, Len(a))) = Len(a)
          /\ \A i \in 1..Len(a) : SubSeq(b, 1, Len(a))[i] = b[i]
      BY <1>1, <1>2
    <2>3. ASSUME \A i \in 1..Len(a) : a[i] = b[i] PROVE a = SubSeq(b, 1, Len(a))
      BY <2>2, <2>3, SeqEqual
    <2> QED
      BY <2>1, <2>2, <2>3
  <1> QED
    BY <1>2 DEF IsPrefix

LEMMA PrefixTransitive ==
    ASSUME NEW S, NEW a \in Seq(S), NEW b \in Seq(S), NEW c \in Seq(S), IsPrefix(a, b), IsPrefix(b, c)
    PROVE  IsPrefix(a, c)
  <1>1. Len(a) \in Nat /\ Len(b) \in Nat /\ Len(c) \in Nat
    OBVIOUS
  <1>2. Len(a) <= Len(b) /\ \A i \in 1..Len(a) : a[i] = b[i]
    BY PrefixIs
  <1>3. Len(b) <= Len(c) /\ \A i \in 1..Len(b) : b[i] = c[i]
    BY PrefixIs
  <1>4. Len(a) <= Len(c) /\ \A i \in 1..Len(a) : a[i] = c[i]
    BY <1>1, <1>2, <1>3
  <1> QED
    BY <1>4, PrefixIs

\* What follows a prefix.
LEMMA PrefixSplits ==
    ASSUME NEW S, NEW d \in Seq(S), NEW q \in Seq(S), IsPrefix(d, q)
    PROVE  \E r \in Seq(S) : q = d \o r
  <1>1. Len(d) \in Nat /\ Len(q) \in Nat /\ Len(d) <= Len(q) /\ \A i \in 1..Len(d) : d[i] = q[i]
    BY PrefixIs
  <1> DEFINE r == SubSeq(q, Len(d) + 1, Len(q))
  <1>2. /\ r \in Seq(S) /\ Len(r) = Len(q) - Len(d)
        /\ \A i \in 1..(Len(q) - Len(d)) : r[i] = q[Len(d) + i]
    BY <1>1
  <1>3. /\ d \o r \in Seq(S) /\ Len(d \o r) = Len(q)
        /\ \A i \in 1..Len(q) : (d \o r)[i] = IF i <= Len(d) THEN d[i] ELSE r[i - Len(d)]
    <2> HIDE DEF r
    <2> QED
      BY <1>1, <1>2
  <1>4. ASSUME NEW i \in 1..Len(q) PROVE (d \o r)[i] = q[i]
    <2> HIDE DEF r
    <2>1. CASE i <= Len(d)
      BY <1>1, <1>3, <2>1
    <2>2. CASE ~(i <= Len(d))
      <3>1. i - Len(d) \in 1..(Len(q) - Len(d)) /\ Len(d) + (i - Len(d)) = i
        BY <1>1, <2>2
      <3> QED
        BY <1>2, <1>3, <2>2, <3>1
    <2> QED
      BY <2>1, <2>2
  <1>5. d \o r = q
    <2> HIDE DEF r
    <2> QED
      BY <1>3, <1>4, SeqEqual
  <1> QED
    BY <1>2, <1>5

----------------------------------------------------------------------------
(* Filters and joins: SequencesExt's FlattenSeq, and what is built of it.  *)

\* Induction over the naturals for a set of them: a set with 0 and every successor
\* has no least number outside it.
LEMMA NaturalInduction ==
    ASSUME NEW T \in SUBSET Nat, 0 \in T, \A n \in T : n + 1 \in T
    PROVE  T = Nat
  <1> SUFFICES ASSUME Nat \ T # {} PROVE FALSE
    OBVIOUS
  <1>1. IsWellFoundedOn(OpToRel(<, Nat), Nat)
    BY NatLessThanWellFounded, Zenon
  <1>2. PICK x \in Nat \ T : \A y \in Nat \ T : ~(<<y, x>> \in OpToRel(<, Nat))
    <2>1. Nat \ T \in SUBSET Nat
      OBVIOUS
    <2> QED
      BY <1>1, <2>1, WFMin, Zenon
  <1>3. \A y \in Nat \ T : ~(y < x)
    BY <1>2 DEF OpToRel
  <1>4. x # 0
    OBVIOUS
  <1>5. x - 1 \in Nat /\ x - 1 < x
    BY <1>4
  <1>6. x - 1 \in T
    BY <1>3, <1>5
  <1>7. (x - 1) + 1 \in T
    BY <1>6
  <1> QED
    BY <1>7

\* The function FlattenSeq chooses, up to n.
IsFlatten(f, seqs, n) ==
    f = [i \in 1..n |-> IF i = 1 THEN seqs[i] ELSE f[i - 1] \o seqs[i]]

\* There is one for every length.
LEMMA FlattenExists ==
    \A seqs : \A n \in Nat : \E f : IsFlatten(f, seqs, n)
  <1> SUFFICES ASSUME NEW seqs PROVE \A n \in Nat : \E f : IsFlatten(f, seqs, n)
    OBVIOUS
  <1> DEFINE T == {n \in Nat : \E f : IsFlatten(f, seqs, n)}
  <1>1. 0 \in T
    <2>1. IsFlatten([i \in 1..0 |-> 0], seqs, 0)
      BY DEF IsFlatten
    <2> QED
      BY <2>1
  <1>2. ASSUME NEW n \in T PROVE n + 1 \in T
    <2>1. n \in Nat /\ \E f : IsFlatten(f, seqs, n)
      OBVIOUS
    <2>2. PICK f : IsFlatten(f, seqs, n)
      BY <2>1
    <2> DEFINE g == [i \in 1..(n + 1) |-> IF i <= n THEN f[i]
                                          ELSE IF i = 1 THEN seqs[i] ELSE f[n] \o seqs[i]]
    <2>3. ASSUME NEW i \in 1..(n + 1)
          PROVE  g[i] = IF i = 1 THEN seqs[i] ELSE g[i - 1] \o seqs[i]
      <3>1. CASE i <= n
        <4>1. i \in 1..n
          BY <2>1, <3>1
        <4>2. f[i] = IF i = 1 THEN seqs[i] ELSE f[i - 1] \o seqs[i]
          BY <2>2, <4>1 DEF IsFlatten
        <4>3. g[i] = f[i] /\ (i # 1 => g[i - 1] = f[i - 1])
          BY <2>1, <3>1
        <4> QED
          BY <4>2, <4>3
      <3>2. CASE ~(i <= n)
        <4>1. i = n + 1
          BY <2>1, <3>2
        <4>2. CASE n = 0
          BY <4>1, <4>2
        <4>3. CASE n # 0
          BY <2>1, <4>1, <4>3
        <4> QED
          BY <4>2, <4>3
      <3> QED
        BY <3>1, <3>2
    <2>4. IsFlatten(g, seqs, n + 1)
      BY <2>3 DEF IsFlatten
    <2> QED
      BY <2>1, <2>4
  <1>3. T = Nat
    <2>1. T \in SUBSET Nat
      OBVIOUS
    <2> HIDE DEF T
    <2> QED
      BY <1>1, <1>2, <2>1, NaturalInduction
  <1> QED
    BY <1>3

\* It is determined by the sequences joined.
LEMMA FlattenAgree ==
    ASSUME NEW n \in Nat, NEW m \in Nat, n <= m,
           NEW s, NEW f, IsFlatten(f, s, n), NEW t, NEW g, IsFlatten(g, t, m),
           \A i \in 1..n : s[i] = t[i]
    PROVE  \A i \in 1..n : f[i] = g[i]
  <1> DEFINE T == {k \in Nat : k \in 1..n => f[k] = g[k]}
  <1>1. 0 \in T
    OBVIOUS
  <1>2. ASSUME NEW k \in T PROVE k + 1 \in T
    <2>1. k \in Nat /\ (k \in 1..n => f[k] = g[k])
      OBVIOUS
    <2>2. ASSUME k + 1 \in 1..n PROVE f[k + 1] = g[k + 1]
      <3>1. f[k + 1] = IF k + 1 = 1 THEN s[k + 1] ELSE f[(k + 1) - 1] \o s[k + 1]
        BY <2>2 DEF IsFlatten
      <3>2. k + 1 \in 1..m
        BY <2>2
      <3>3. g[k + 1] = IF k + 1 = 1 THEN t[k + 1] ELSE g[(k + 1) - 1] \o t[k + 1]
        BY <3>2 DEF IsFlatten
      <3>4. s[k + 1] = t[k + 1] /\ (k + 1) - 1 = k /\ (k + 1 # 1 => f[k] = g[k])
        BY <2>1, <2>2
      <3> QED
        BY <3>1, <3>3, <3>4
    <2> QED
      BY <2>1, <2>2
  <1>3. T = Nat
    <2>1. T \in SUBSET Nat
      OBVIOUS
    <2> HIDE DEF T
    <2> QED
      BY <1>1, <1>2, <2>1, NaturalInduction
  <1> QED
    BY <1>3

\* FlattenSeq is its last value.
LEMMA FlattenIs ==
    ASSUME NEW seqs, NEW n \in Nat, Len(seqs) = n, n # 0
    PROVE  \E f : IsFlatten(f, seqs, n) /\ FlattenSeq(seqs) = f[n]
  <1> DEFINE flat == CHOOSE f : IsFlatten(f, seqs, n)
  <1>1. IsFlatten(flat, seqs, n)
    <2>1. \E f : IsFlatten(f, seqs, n)
      BY FlattenExists
    <2> QED
      BY <2>1
  <1>2. FlattenSeq(seqs) = flat[n]
    BY DEF FlattenSeq, IsFlatten
  <1> QED
    BY <1>1, <1>2

LEMMA FlattenEmpty == FlattenSeq(<<>>) = <<>>
  <1>1. Len(<<>>) = 0
    BY EmptySeq
  <1> QED
    BY <1>1 DEF FlattenSeq

\* Joined sequences have the elements of the parts.
LEMMA FlattenType ==
    ASSUME NEW S, NEW seqs \in Seq(Seq(S))
    PROVE  FlattenSeq(seqs) \in Seq(S)
  <1>1. CASE seqs = <<>>
    BY <1>1, FlattenEmpty, EmptySeq
  <1>2. CASE seqs # <<>>
    <2>1. Len(seqs) \in Nat /\ Len(seqs) # 0
      BY <1>2, EmptySeq
    <2>2. PICK f : IsFlatten(f, seqs, Len(seqs)) /\ FlattenSeq(seqs) = f[Len(seqs)]
      BY <2>1, FlattenIs
    <2> DEFINE T == {k \in Nat : k \in 1..Len(seqs) => f[k] \in Seq(S)}
    <2>3. 0 \in T
      BY <2>1
    <2>4. ASSUME NEW k \in T PROVE k + 1 \in T
      <3>1. k \in Nat /\ (k \in 1..Len(seqs) => f[k] \in Seq(S))
        OBVIOUS
      <3>2. ASSUME k + 1 \in 1..Len(seqs) PROVE f[k + 1] \in Seq(S)
        <4>1. f[k + 1] = IF k + 1 = 1 THEN seqs[k + 1] ELSE f[(k + 1) - 1] \o seqs[k + 1]
          BY <2>2, <3>2 DEF IsFlatten
        <4>2. seqs[k + 1] \in Seq(S)
          BY <3>2
        <4>3. CASE k + 1 = 1
          BY <4>1, <4>2, <4>3
        <4>4. CASE k + 1 # 1
          <5>1. k \in 1..Len(seqs) /\ (k + 1) - 1 = k
            BY <3>1, <3>2, <4>4, <2>1
          <5>2. f[k] \in Seq(S) /\ f[k + 1] = f[k] \o seqs[k + 1]
            BY <3>1, <4>1, <4>4, <5>1
          <5> QED
            BY <4>2, <5>2, ConcatProperties
        <4> QED
          BY <4>3, <4>4
      <3> QED
        BY <3>1, <3>2
    <2>5. T = Nat
      <3>1. T \in SUBSET Nat
        OBVIOUS
      <3> HIDE DEF T
      <3> QED
        BY <2>3, <2>4, <3>1, NaturalInduction
    <2>6. Len(seqs) \in 1..Len(seqs)
      BY <2>1
    <2> QED
      BY <2>1, <2>2, <2>5, <2>6
  <1> QED
    BY <1>1, <1>2

\* One more sequence is joined at the end.
LEMMA FlattenAppend ==
    ASSUME NEW S, NEW seqs \in Seq(Seq(S)), NEW t \in Seq(S)
    PROVE  FlattenSeq(Append(seqs, t)) = FlattenSeq(seqs) \o t
  <1> DEFINE more == Append(seqs, t)
             size == Len(seqs)
  <1>1. /\ more \in Seq(Seq(S)) /\ size \in Nat /\ Len(more) = size + 1
        /\ \A i \in 1..size : more[i] = seqs[i]
        /\ more[size + 1] = t
    BY AppendProperties
  <1>2. PICK g : IsFlatten(g, more, size + 1) /\ FlattenSeq(more) = g[size + 1]
    <2> HIDE DEF more, size
    <2> QED
      BY <1>1, FlattenIs
  <1>3. g[size + 1] = IF size + 1 = 1 THEN more[size + 1] ELSE g[(size + 1) - 1] \o more[size + 1]
    <2> HIDE DEF more, size
    <2>1. size + 1 \in 1..(size + 1)
      BY <1>1
    <2> QED
      BY <1>2, <2>1 DEF IsFlatten
  <1>4. CASE size = 0
    <2>1. seqs = <<>>
      BY <1>4
    <2>2. <<>> \o t = t
      BY ConcatEmptySeq
    <2> QED
      BY <1>1, <1>2, <1>3, <1>4, <2>1, <2>2, FlattenEmpty
  <1>5. CASE size # 0
    <2>1. PICK f : IsFlatten(f, seqs, size) /\ FlattenSeq(seqs) = f[size]
      BY <1>1, <1>5, FlattenIs
    <2>2. f[size] = g[size]
      <3> HIDE DEF more, size
      <3>1. \A i \in 1..size : seqs[i] = more[i]
        BY <1>1
      <3>2. size <= size + 1 /\ size + 1 \in Nat /\ size \in 1..size
        BY <1>1, <1>5
      <3>3. PICK m \in Nat : m = size + 1
        BY <3>2
      <3>4. size <= m /\ size \in Nat
        BY <1>1, <3>2, <3>3
      <3>5. IsFlatten(f, seqs, size) /\ IsFlatten(g, more, m)
        BY <1>2, <2>1, <3>3
      <3>6. \A i \in 1..size : f[i] = g[i]
        BY <3>1, <3>3, <3>4, <3>5, FlattenAgree
      <3> QED
        BY <3>2, <3>6
    <2>3. size + 1 # 1 /\ (size + 1) - 1 = size
      BY <1>1, <1>5
    <2> QED
      BY <1>1, <1>2, <1>3, <2>1, <2>2, <2>3
  <1> QED
    BY <1>4, <1>5

\* One more element: it is picked if it is of the kind.
LEMMA OfKindAppend ==
    ASSUME NEW S, NEW s \in Seq(S), NEW e \in S, NEW kind
    PROVE  /\ OfKind(kind, s) \in Seq(S)
           /\ OfKind(kind, Append(s, e)) =
                  IF e.kind = kind THEN Append(OfKind(kind, s), e) ELSE OfKind(kind, s)
  <1> DEFINE Pick(q) == [k \in 1..Len(q) |-> IF q[k].kind = kind THEN <<q[k]>> ELSE <<>>]
             piece == IF e.kind = kind THEN <<e>> ELSE <<>>
  <1>1. ASSUME NEW q \in Seq(S) PROVE Pick(q) \in Seq(Seq(S))
    <2>1. ASSUME NEW k \in 1..Len(q) PROVE Pick(q)[k] \in Seq(S)
      <3>1. q[k] \in S
        OBVIOUS
      <3> QED
        BY <3>1
    <2> QED
      BY <2>1
  <1>2. piece \in Seq(S)
    OBVIOUS
  <1>3. Pick(Append(s, e)) = Append(Pick(s), piece)
    <2>1. /\ Append(s, e) \in Seq(S) /\ Len(Append(s, e)) = Len(s) + 1 /\ Len(s) \in Nat
          /\ \A k \in 1..Len(s) : Append(s, e)[k] = s[k]
          /\ Append(s, e)[Len(s) + 1] = e
      BY AppendProperties
    <2>2. /\ Pick(s) \in Seq(Seq(S)) /\ Len(Pick(s)) = Len(s)
          /\ Pick(Append(s, e)) \in Seq(Seq(S)) /\ Len(Pick(Append(s, e))) = Len(s) + 1
      BY <1>1, <2>1
    <2>3. /\ Append(Pick(s), piece) \in Seq(Seq(S))
          /\ Len(Append(Pick(s), piece)) = Len(s) + 1
          /\ \A k \in 1..Len(s) : Append(Pick(s), piece)[k] = Pick(s)[k]
          /\ Append(Pick(s), piece)[Len(s) + 1] = piece
      <3> HIDE DEF Pick, piece
      <3> QED
        BY <1>2, <2>2, AppendProperties
    <2>4. ASSUME NEW k \in 1..(Len(s) + 1)
          PROVE  Pick(Append(s, e))[k] = Append(Pick(s), piece)[k]
      <3>1. CASE k \in 1..Len(s)
        <4>1. Pick(s)[k] = IF s[k].kind = kind THEN <<s[k]>> ELSE <<>>
          BY <3>1
        <4>2. Pick(Append(s, e))[k] = IF s[k].kind = kind THEN <<s[k]>> ELSE <<>>
          BY <2>1, <3>1
        <4> QED
          BY <2>3, <3>1, <4>1, <4>2
      <3>2. CASE k = Len(s) + 1
        <4>1. Pick(Append(s, e))[k] = piece
          BY <2>1, <3>2
        <4> QED
          BY <2>3, <3>2, <4>1
      <3> QED
        BY <2>1, <3>1, <3>2
    <2> HIDE DEF Pick, piece
    <2> QED
      BY <2>2, <2>3, <2>4, SeqEqual
  <1>4. OfKind(kind, s) = FlattenSeq(Pick(s)) /\ OfKind(kind, Append(s, e)) = FlattenSeq(Pick(Append(s, e)))
    BY DEF OfKind
  <1>5. FlattenSeq(Pick(s)) \in Seq(S)
    BY <1>1, FlattenType
  <1>6. OfKind(kind, Append(s, e)) = OfKind(kind, s) \o piece
    <2> HIDE DEF Pick, piece
    <2> QED
      BY <1>1, <1>2, <1>3, <1>4, FlattenAppend
  <1>7. CASE e.kind = kind
    BY <1>4, <1>5, <1>6, <1>7, AppendIsConcat
  <1>8. CASE e.kind # kind
    BY <1>4, <1>5, <1>6, <1>8, ConcatEmptySeq
  <1> QED
    BY <1>4, <1>5, <1>7, <1>8

LEMMA OfKindEmpty == \A kind : OfKind(kind, <<>>) = <<>>
  <1> SUFFICES ASSUME NEW kind PROVE OfKind(kind, <<>>) = <<>>
    OBVIOUS
  <1> DEFINE pieces == [k \in 1..Len(<<>>) |-> IF <<>>[k].kind = kind THEN << <<>>[k] >> ELSE <<>>]
  <1>1. pieces \in Seq({}) /\ Len(pieces) = 0
    BY EmptySeq
  <1>2. pieces = <<>>
    BY <1>1, EmptySeq
  <1> QED
    BY <1>2, FlattenEmpty DEF OfKind

----------------------------------------------------------------------------
(* Answers and denials.                                                    *)

\* What the session may do to the queue and the denials: nothing, queue a piece
\* of the host, dispatch an output, or answer it in the same step.
QueueHost == StdinSend /\ UNCHANGED <<next, outputs, sinkPc>>
DispatchOther ==
    /\ \E kind \in {"Forward", "BlockNotification"} : Dispatching(kind)
    /\ next' = next + 1 /\ UNCHANGED <<queued, outputs, sinkPc>>
QueueAnswer == DispatchRequest /\ UNCHANGED <<outputs, sinkPc>>
LoseAnswer == DispatchRequestSinkGone /\ UNCHANGED <<queued, outputs, sinkPc>>
KeepQueue == UNCHANGED <<next, queued>> /\ (ReceiverAlive' => ReceiverAlive)

\* Nothing else touches the queue or the denials, and the sink never comes back.
LEMMA QueueMoves ==
    ASSUME Next
    PROVE  QueueHost \/ DispatchOther \/ QueueAnswer \/ LoseAnswer \/ KeepQueue
  <1>1. CASE Dispatch
    BY <1>1 DEF Dispatch, DispatchForward, DispatchNotification, DispatchRequest, DispatchRequestSinkGone,
                DispatchOther, QueueAnswer, LoseAnswer, frameVars, chanVars, sinkVars
  <1>2. CASE Coordinator /\ ~Dispatch
    <2>1. UNCHANGED <<next, queued>>
      BY <1>2 DEF Coordinator, RecvChunk, ScanChunk, HostStdoutFails, EndChunk, OutputFails, OutputEnds,
                  CloseAdapter, SettleJoin, SettleTimeout, AwaitSink, chanVars
    <2> QED
      BY <1>2, <2>1, CoordinatorFrame DEF KeepQueue, ReceiverAlive
  <1>3. CASE StdinSend
    <2>1. StdinTask
      BY <1>3 DEF StdinTask
    <2> QED
      BY <1>3, <2>1, StdinTaskFrame DEF QueueHost
  <1>4. CASE StdinTask /\ ~StdinSend
    <2>1. queued' = queued
      BY <1>4 DEF StdinTask, ReadFirstFrame, PumpRead, FirstFrameTooLong, FirstFrameEof, PumpEof,
                  StdinReadFails, StdinSinkGone, StdinCancelled, StopStdin, chanVars
    <2> QED
      BY <1>4, <2>1, StdinTaskFrame DEF KeepQueue, ReceiverAlive
  <1>5. CASE Sink
    BY <1>5, SinkFrame DEF KeepQueue, ReceiverAlive
  <1>6. CASE AgentRead \/ AgentExit
    BY <1>6, AgentFrame DEF KeepQueue, ReceiverAlive
  <1> QED
    BY <1>1, <1>2, <1>3, <1>4, <1>5, <1>6 DEF Next

\* The outputs dispatched when one more has been.
LEMMA DispatchedAppend ==
    ASSUME NEW S, NEW s \in Seq(S), NEW n \in 1..Len(s)
    PROVE  /\ SubSeq(s, 1, n - 1) \in Seq(S) /\ s[n] \in S
           /\ SubSeq(s, 1, (n + 1) - 1) = Append(SubSeq(s, 1, n - 1), s[n])
  <1>1. n \in Nat /\ 1 <= n /\ n <= Len(s) /\ Len(s) \in Nat /\ (n + 1) - 1 = n
    OBVIOUS
  <1>2. 1 \in 1..Len(s) /\ n \in 1..Len(s)
    BY <1>1
  <1>3. SubSeq(s, 1, n) = SubSeq(s, 1, n - 1) \o <<s[n]>>
    BY <1>1, <1>2, SubSeqRecursiveSecond
  <1>4. SubSeq(s, 1, n - 1) \in Seq(S) /\ s[n] \in S
    BY <1>1
  <1> QED
    BY <1>1, <1>3, <1>4, AppendIsConcat

\* The denials grow by the request dispatched, and only by it.
LEMMA DeniedMoves ==
    ASSUME SessionInv, Next
    PROVE  /\ Denied \in Seq([kind : OutputKinds, bytes : Seq(Byte)])
           /\ next' = next => Denied' = Denied
           /\ \A kind : Dispatching(kind) /\ outputs' = outputs /\ next' = next + 1 =>
                 Denied' = IF kind = "BlockRequest" THEN Append(Denied, outputs[next]) ELSE Denied
  <1> DEFINE S == [kind : OutputKinds, bytes : Seq(Byte)]
             done == SubSeq(outputs, 1, next - 1)
  <1>1. /\ outputs \in Seq(S) /\ outputs' \in Seq(S) /\ Len(outputs) \in Nat /\ Len(outputs') \in Nat
        /\ Len(outputs) <= Len(outputs') /\ \A k \in 1..Len(outputs) : outputs'[k] = outputs[k]
    BY OutputsGrow DEF SessionInv
  <1>2. next \in 1..(Len(outputs) + 1)
    BY DEF SessionInv, TypeOK, CoordinatorTypeOK
  <1>3. next \in Nat /\ next - 1 \in Nat /\ next - 1 <= Len(outputs)
    BY <1>1, <1>2
  <1>4. done \in Seq(S) /\ Len(done) = next - 1 /\ \A k \in 1..(next - 1) : done[k] = outputs[k]
    <2> HIDE DEF S
    <2> QED
      BY <1>1, <1>3
  <1>5. Denied \in Seq(S)
    <2>1. [kind |-> "Forward", bytes |-> <<>>] \in S
      BY EmptySeq DEF OutputKinds
    <2> HIDE DEF S
    <2> QED
      BY <1>4, <2>1, OfKindAppend DEF Denied
  <1>6. ASSUME next' = next PROVE Denied' = Denied
    <2>1. SubSeq(outputs', 1, next - 1) = done
      <3> HIDE DEF S
      <3>1. /\ SubSeq(outputs', 1, next - 1) \in Seq(S) /\ Len(SubSeq(outputs', 1, next - 1)) = next - 1
            /\ \A k \in 1..(next - 1) : SubSeq(outputs', 1, next - 1)[k] = outputs'[k]
        BY <1>1, <1>3
      <3>2. \A k \in 1..(next - 1) : outputs'[k] = outputs[k]
        BY <1>1, <1>3
      <3> HIDE DEF done
      <3> QED
        BY <1>4, <3>1, <3>2, SeqEqual
    <2> QED
      BY <1>6, <2>1 DEF Denied
  <1>7. ASSUME NEW what, Dispatching(what), outputs' = outputs, next' = next + 1
        PROVE  Denied' = IF what = "BlockRequest" THEN Append(Denied, outputs[next]) ELSE Denied
    <2>1. next \in 1..Len(outputs) /\ outputs[next].kind = what
      BY <1>1, <1>2, <1>7 DEF Dispatching
    <2>2. SubSeq(outputs, 1, (next + 1) - 1) = Append(done, outputs[next]) /\ outputs[next] \in S
      <3> HIDE DEF S
      <3> QED
        BY <1>1, <2>1, DispatchedAppend
    <2>3. Denied' = OfKind("BlockRequest", Append(done, outputs[next]))
      BY <1>7, <2>2 DEF Denied
    <2> HIDE DEF S, done
    <2>4. Denied = OfKind("BlockRequest", done)
      BY DEF Denied, done
    <2>5. PICK output \in S : output = outputs[next]
      BY <2>2
    <2>6. OfKind("BlockRequest", Append(done, output)) =
              IF output.kind = "BlockRequest" THEN Append(OfKind("BlockRequest", done), output)
              ELSE OfKind("BlockRequest", done)
      BY <1>4, OfKindAppend
    <2> QED
      BY <2>1, <2>3, <2>4, <2>5, <2>6
  <1> QED
    BY <1>5, <1>6, <1>7


\* Answers and denials stay in step: whatever happens adds to both, or to neither,
\* or there is no sink any more.
LEMMA AnswersStep ==
    ASSUME SessionInv, AnswersMatchDenials, StdinSend => pending.kind = "Forward", Next
    PROVE  AnswersMatchDenials'
  <1> DEFINE S == [kind : OutputKinds, bytes : Seq(Byte)]
             old == Answers(queued)
  <1>1. /\ queued \in Seq(WriteCmd) /\ (StdinSend => pending \in WriteCmd)
        /\ outputs' = outputs => WriteCmd' = WriteCmd
    BY DEF SessionInv, TypeOK, ChannelTypeOK, StdinTypeOK, StdinSend, WriteCmd, Responses
  <1>2. /\ Denied \in Seq(S)
        /\ next' = next => Denied' = Denied
        /\ \A kind : Dispatching(kind) /\ outputs' = outputs /\ next' = next + 1 =>
              Denied' = IF kind = "BlockRequest" THEN Append(Denied, outputs[next]) ELSE Denied
    BY DeniedMoves
  <1>3. old \in Seq(WriteCmd)
    <2>1. [kind |-> "Forward", bytes |-> <<>>] \in WriteCmd
      BY EmptySeq DEF WriteCmd
    <2> QED
      BY <1>1, <2>1, OfKindAppend DEF Answers
  <1>a. outputs \in Seq(S) /\ Len(outputs) \in Nat /\ next \in 1..(Len(outputs) + 1)
    BY OutputsGrow DEF SessionInv, TypeOK, CoordinatorTypeOK
  <1>b. Dispatching("BlockRequest") => next \in 1..Len(outputs)
    BY <1>a DEF Dispatching
  <1>4. /\ Len(old) <= Len(Denied) /\ (ReceiverAlive => Len(old) = Len(Denied))
        /\ \A k \in 1..Len(old) : old[k] = Synthesized(Response(Denied[k]))
    BY DEF AnswersMatchDenials
  <1>5. Len(old) \in Nat /\ Len(Denied) \in Nat
    BY <1>2, <1>3, LenProperties
  <1>6. ASSUME Answers(queued)' = old, Denied' = Denied, ReceiverAlive' => ReceiverAlive
        PROVE  AnswersMatchDenials'
    BY <1>4, <1>6 DEF AnswersMatchDenials, Answers
  <1>7. CASE KeepQueue
    <2>1. Answers(queued)' = old
      BY <1>7 DEF KeepQueue, Answers
    <2> QED
      BY <1>2, <1>6, <1>7, <2>1 DEF KeepQueue
  <1>8. CASE QueueHost
    <2>1. queued' = Append(queued, pending) /\ pending.kind = "Forward" /\ pending \in WriteCmd
      BY <1>1, <1>8 DEF QueueHost, StdinSend, Send
    <2>2. Answers(queued)' = old
      BY <1>1, <2>1, OfKindAppend DEF Answers
    <2> QED
      BY <1>2, <1>6, <1>8, <2>2 DEF QueueHost, ReceiverAlive
  <1>9. CASE DispatchOther
    <2>1. PICK what \in {"Forward", "BlockNotification"} : Dispatching(what)
      BY <1>9 DEF DispatchOther
    <2>2. outputs' = outputs /\ next' = next + 1 /\ queued' = queued /\ sinkPc' = sinkPc
      BY <1>9 DEF DispatchOther
    <2>3. Denied' = Denied
      BY <1>2, <2>1, <2>2
    <2> QED
      BY <1>6, <2>2, <2>3 DEF ReceiverAlive, Answers
  <1>10. CASE LoseAnswer
    <2>1. /\ outputs' = outputs /\ next' = next + 1 /\ queued' = queued /\ sinkPc' = sinkPc
          /\ ~ReceiverAlive /\ Dispatching("BlockRequest")
      BY <1>10 DEF LoseAnswer, DispatchRequestSinkGone
    <2>2. Denied' = Append(Denied, outputs[next]) /\ outputs[next] \in S
      <3>1. next \in 1..Len(outputs) /\ outputs \in Seq(S)
        BY <1>a, <1>b, <2>1
      <3> QED
        BY <1>2, <2>1, <3>1, ElementOfSeq
    <2>3. Len(Denied') = Len(Denied) + 1 /\ \A k \in 1..Len(Denied) : Denied'[k] = Denied[k]
      <3> HIDE DEF S
      <3> QED
        BY <1>2, <2>2, AppendProperties
    <2>4. Answers(queued)' = old /\ ~ReceiverAlive'
      BY <2>1 DEF Answers, ReceiverAlive
    <2> HIDE DEF old, S
    <2>5. \A k \in 1..Len(old) : k \in 1..Len(Denied)
      BY <1>4, <1>5
    <2>6. Len(old) <= Len(Denied')
      BY <1>4, <1>5, <2>3
    <2> QED
      BY <1>4, <2>3, <2>4, <2>5, <2>6 DEF AnswersMatchDenials
  <1>11. CASE QueueAnswer
    <2> DEFINE answer == Synthesized(Response(outputs[next]))
    <2>1. /\ outputs' = outputs /\ next' = next + 1 /\ sinkPc' = sinkPc
          /\ ReceiverAlive /\ Dispatching("BlockRequest") /\ queued' = Append(queued, answer)
      BY <1>11 DEF QueueAnswer, DispatchRequest, Send
    <2>2. next \in 1..Len(outputs) /\ outputs \in Seq(S)
      BY <1>a, <1>b, <2>1
    <2>3. Denied' = Append(Denied, outputs[next]) /\ outputs[next] \in S
      BY <1>2, <2>1, <2>2, ElementOfSeq
    <2>4. answer \in WriteCmd /\ answer.kind = "Synthesized"
      BY <2>2 DEF Synthesized, WriteCmd, Responses
    <2>5. Answers(queued)' = Append(old, answer)
      <3> HIDE DEF answer
      <3> QED
        BY <1>1, <2>1, <2>4, OfKindAppend DEF Answers
    <2> HIDE DEF S, old
    <2>6. /\ Len(Denied') = Len(Denied) + 1 /\ \A k \in 1..Len(Denied) : Denied'[k] = Denied[k]
          /\ Denied'[Len(Denied) + 1] = outputs[next]
      BY <1>2, <2>3, AppendProperties
    <2>7. /\ Len(Append(old, answer)) = Len(old) + 1 /\ \A k \in 1..Len(old) : Append(old, answer)[k] = old[k]
          /\ Append(old, answer)[Len(old) + 1] = answer
      BY <1>3, <2>4, AppendProperties
    <2>8. Len(old) = Len(Denied)
      BY <1>4, <2>1
    <2>9. ASSUME NEW k \in 1..(Len(old) + 1)
          PROVE  Append(old, answer)[k] = Synthesized(Response(Denied'[k]))
      <3>1. CASE k \in 1..Len(old)
        BY <1>4, <2>6, <2>7, <2>8, <3>1
      <3>2. CASE k = Len(old) + 1
        BY <2>6, <2>7, <2>8, <3>2
      <3> QED
        BY <1>5, <3>1, <3>2
    <2>10. \A out : Response(out)' = Response(out)
      BY DEF Response
    <2>11. \A k \in 1..Len(Answers(queued)') : Answers(queued)'[k] = Synthesized(Response(Denied'[k]))
      BY <2>5, <2>7, <2>9
    <2>12. Len(Answers(queued)') = Len(Denied')
      BY <2>5, <2>6, <2>7, <2>8
    <2> QED
      BY <1>5, <2>6, <2>11, <2>12 DEF AnswersMatchDenials
  <1> QED
    BY <1>7, <1>8, <1>9, <1>10, <1>11, QueueMoves

\* One more command adds its bytes when it is the host's.
LEMMA HostForwardsAppend ==
    ASSUME NEW S, \A c \in S : c.kind = "Forward" => c.bytes \in Seq(HostByte),
           NEW s \in Seq(S), NEW e \in S
    PROVE  /\ HostForwards(s) \in Seq(HostByte)
           /\ HostForwards(Append(s, e)) =
                  HostForwards(s) \o (IF e.kind = "Forward" THEN e.bytes ELSE <<>>)
  <1> DEFINE Pick(q) == [k \in 1..Len(q) |-> IF q[k].kind = "Forward" THEN q[k].bytes ELSE <<>>]
             piece == IF e.kind = "Forward" THEN e.bytes ELSE <<>>
  <1>1. ASSUME NEW q \in Seq(S) PROVE Pick(q) \in Seq(Seq(HostByte))
    <2>1. ASSUME NEW k \in 1..Len(q) PROVE Pick(q)[k] \in Seq(HostByte)
      <3>1. q[k] \in S /\ <<>> \in Seq(HostByte)
        BY EmptySeq
      <3> QED
        BY <3>1
    <2> QED
      BY <2>1
  <1>2. piece \in Seq(HostByte)
    BY EmptySeq
  <1>3. Pick(Append(s, e)) = Append(Pick(s), piece)
    <2>1. /\ Append(s, e) \in Seq(S) /\ Len(Append(s, e)) = Len(s) + 1 /\ Len(s) \in Nat
          /\ \A k \in 1..Len(s) : Append(s, e)[k] = s[k]
          /\ Append(s, e)[Len(s) + 1] = e
      BY AppendProperties
    <2>2. /\ Pick(s) \in Seq(Seq(HostByte)) /\ Len(Pick(s)) = Len(s)
          /\ Pick(Append(s, e)) \in Seq(Seq(HostByte)) /\ Len(Pick(Append(s, e))) = Len(s) + 1
      BY <1>1, <2>1
    <2>3. /\ Append(Pick(s), piece) \in Seq(Seq(HostByte))
          /\ Len(Append(Pick(s), piece)) = Len(s) + 1
          /\ \A k \in 1..Len(s) : Append(Pick(s), piece)[k] = Pick(s)[k]
          /\ Append(Pick(s), piece)[Len(s) + 1] = piece
      <3> HIDE DEF Pick, piece
      <3> QED
        BY <1>2, <2>2, AppendProperties
    <2>4. ASSUME NEW k \in 1..(Len(s) + 1)
          PROVE  Pick(Append(s, e))[k] = Append(Pick(s), piece)[k]
      <3>1. CASE k \in 1..Len(s)
        <4>1. Pick(s)[k] = IF s[k].kind = "Forward" THEN s[k].bytes ELSE <<>>
          BY <3>1
        <4>2. Pick(Append(s, e))[k] = IF s[k].kind = "Forward" THEN s[k].bytes ELSE <<>>
          BY <2>1, <3>1
        <4> QED
          BY <2>3, <3>1, <4>1, <4>2
      <3>2. CASE k = Len(s) + 1
        <4>1. Pick(Append(s, e))[k] = piece
          BY <2>1, <3>2
        <4> QED
          BY <2>3, <3>2, <4>1
      <3> QED
        BY <2>1, <3>1, <3>2
    <2> HIDE DEF Pick, piece
    <2> QED
      BY <2>2, <2>3, <2>4, SeqEqual
  <1>4. HostForwards(s) = FlattenSeq(Pick(s)) /\ HostForwards(Append(s, e)) = FlattenSeq(Pick(Append(s, e)))
    BY DEF HostForwards
  <1>5. FlattenSeq(Pick(s)) \in Seq(HostByte)
    BY <1>1, FlattenType
  <1>6. HostForwards(Append(s, e)) = HostForwards(s) \o piece
    <2> HIDE DEF Pick, piece
    <2> QED
      BY <1>1, <1>2, <1>3, <1>4, FlattenAppend
  <1> QED
    BY <1>4, <1>5, <1>6

LEMMA HostForwardsEmpty == HostForwards(<<>>) = <<>>
  <1> DEFINE pieces == [k \in 1..Len(<<>>) |-> IF <<>>[k].kind = "Forward" THEN <<>>[k].bytes ELSE <<>>]
  <1>1. pieces \in Seq({}) /\ Len(pieces) = 0
    BY EmptySeq
  <1>2. pieces = <<>>
    BY <1>1, EmptySeq
  <1> QED
    BY <1>2, FlattenEmpty DEF HostForwards

\* The host's bytes among the first commands are the first of the host's bytes.
LEMMA HostForwardsPrefix ==
    ASSUME NEW S, \A c \in S : c.kind = "Forward" => c.bytes \in Seq(HostByte), S # {},
           NEW d \in Seq(S), NEW q \in Seq(S), IsPrefix(d, q)
    PROVE  IsPrefix(HostForwards(d), HostForwards(q))
  <1>1. \A x \in Seq(S) : HostForwards(x) \in Seq(HostByte)
    BY HostForwardsAppend
  <1> DEFINE Extends(x) == IsPrefix(HostForwards(d), HostForwards(d \o x))
             T == {n \in Nat : \A x \in Seq(S) : Len(x) = n => Extends(x)}
  <1>2. 0 \in T
    <2> SUFFICES ASSUME NEW x \in Seq(S), Len(x) = 0 PROVE Extends(x)
      OBVIOUS
    <2>1. d \o x = d
      BY EmptySeq, ConcatEmptySeq
    <2> QED
      BY <1>1, <2>1, PrefixIs
  <1>3. ASSUME NEW n \in T PROVE n + 1 \in T
    <2>1. n \in Nat /\ \A x \in Seq(S) : Len(x) = n => Extends(x)
      OBVIOUS
    <2> SUFFICES ASSUME NEW x \in Seq(S), Len(x) = n + 1 PROVE Extends(x)
      BY <2>1
    <2> DEFINE front == SubSeq(x, 1, n)
    <2>2. front \in Seq(S) /\ Len(front) = n /\ x[n + 1] \in S
      BY <2>1
    <2>3. x = Append(front, x[n + 1])
      BY <2>1
    <2>4. d \o x = Append(d \o front, x[n + 1]) /\ d \o front \in Seq(S)
      <3>1. \A f \in Seq(S), e \in S : d \o Append(f, e) = Append(d \o f, e) /\ d \o f \in Seq(S)
        OBVIOUS
      <3> HIDE DEF front
      <3> QED
        BY <2>2, <2>3, <3>1
    <2> HIDE DEF front
    <2>5. PICK piece \in Seq(HostByte) : HostForwards(d \o x) = HostForwards(d \o front) \o piece
      <3> DEFINE e == x[n + 1]
      <3>1. HostForwards(Append(d \o front, e)) =
                HostForwards(d \o front) \o (IF e.kind = "Forward" THEN e.bytes ELSE <<>>)
        BY <2>2, <2>4, HostForwardsAppend
      <3>2. e.kind = "Forward" => e.bytes \in Seq(HostByte)
        BY <2>2
      <3>3. <<>> \in Seq(HostByte)
        BY EmptySeq
      <3> HIDE DEF e
      <3>4. CASE e.kind = "Forward"
        BY <2>4, <3>1, <3>2, <3>4 DEF e
      <3>5. CASE e.kind # "Forward"
        BY <2>4, <3>1, <3>3, <3>5 DEF e
      <3> QED
        BY <3>4, <3>5
    <2>6. IsPrefix(HostForwards(d), HostForwards(d \o front))
      BY <2>1, <2>2
    <2>7. /\ HostForwards(d) \in Seq(HostByte) /\ HostForwards(d \o front) \in Seq(HostByte)
          /\ HostForwards(d \o x) \in Seq(HostByte)
      <3>1. d \o x \in Seq(S)
        BY <2>2, <2>4, AppendProperties
      <3> QED
        BY <1>1, <2>4, <3>1
    <2>8. IsPrefix(HostForwards(d \o front), HostForwards(d \o x))
      BY <2>5, <2>7, PrefixOfJoin
    <2> QED
      BY <2>6, <2>7, <2>8, PrefixTransitive
  <1>4. T = Nat
    <2>1. T \in SUBSET Nat
      OBVIOUS
    <2> HIDE DEF T
    <2> QED
      BY <1>2, <1>3, <2>1, NaturalInduction
  <1>5. PICK x \in Seq(S) : q = d \o x
    BY PrefixSplits
  <1>6. Len(x) \in T
    BY <1>4
  <1> QED
    BY <1>5, <1>6

----------------------------------------------------------------------------
(* The host's stream.                                                      *)

\* Where the first line of some bytes ends, when masking looks at it.
FirstLineAt(bytes, i) == i \in 1..Len(bytes) /\ i <= MaxFirstFrameBytes /\ FirstNewlineAt(bytes, i)

\* There is at most one.
LEMMA OneFirstLine ==
    ASSUME NEW bytes \in Seq(HostByte), NEW i, NEW j, FirstLineAt(bytes, i), FirstLineAt(bytes, j)
    PROVE  i = j
  <1>1. i \in Nat /\ j \in Nat /\ i >= 1 /\ j >= 1
    BY DEF FirstLineAt
  <1>2. ~(i < j)
    BY <1>1 DEF FirstLineAt, FirstNewlineAt
  <1>3. ~(j < i)
    BY <1>1 DEF FirstLineAt, FirstNewlineAt
  <1> QED
    BY <1>1, <1>2, <1>3

\* Bytes without a first line are passed as they are.
LEMMA TranslatedPlain ==
    ASSUME NEW bytes, \A i : ~FirstLineAt(bytes, i)
    PROVE  Translated(bytes) = bytes
  <1>1. {i \in 1..Len(bytes) : i <= MaxFirstFrameBytes /\ FirstNewlineAt(bytes, i)} = {}
    BY DEF FirstLineAt
  <1> QED
    BY <1>1 DEF Translated

\* The first line is masked, the rest is passed as it is.
LEMMA TranslatedLine ==
    ASSUME NEW bytes \in Seq(HostByte), NEW i, FirstLineAt(bytes, i)
    PROVE  Translated(bytes) = MaskFrame(SubSeq(bytes, 1, i)) \o SubSeq(bytes, i + 1, Len(bytes))
  <1> DEFINE ends == {j \in 1..Len(bytes) : j <= MaxFirstFrameBytes /\ FirstNewlineAt(bytes, j)}
  <1>1. i \in ends
    BY DEF FirstLineAt
  <1>2. \A j \in ends : FirstLineAt(bytes, j)
    BY DEF FirstLineAt
  <1>3. \A j \in ends : j = i
    BY <1>2, OneFirstLine
  <1>4. (CHOOSE j \in ends : TRUE) = i
    <2> HIDE DEF ends
    <2> QED
      BY <1>1, <1>3
  <1> QED
    BY <1>1, <1>4 DEF Translated

\* A piece of the host's bytes has its first line where they do.
LEMMA FirstLineOfPiece ==
    ASSUME NEW bytes \in Seq(HostByte), NEW n \in 0..Len(bytes), NEW i
    PROVE  FirstLineAt(SubSeq(bytes, 1, n), i) <=> FirstLineAt(bytes, i) /\ i <= n
  <1> DEFINE piece == SubSeq(bytes, 1, n)
  <1>1. n \in Nat /\ n <= Len(bytes) /\ Len(bytes) \in Nat
    OBVIOUS
  <1>2. Len(piece) = n /\ \A j \in 1..n : piece[j] = bytes[j]
    BY <1>1
  <1>3. i \in 1..n <=> i \in 1..Len(bytes) /\ i <= n
    BY <1>1
  <1>4. ASSUME i \in 1..n PROVE FirstNewlineAt(piece, i) <=> FirstNewlineAt(bytes, i)
    <2>1. \A j \in 1..(i - 1) : j \in 1..n
      BY <1>1, <1>4
    <2> HIDE DEF piece
    <2> QED
      BY <1>2, <1>4, <2>1 DEF FirstNewlineAt
  <1> HIDE DEF piece
  <1>5. FirstLineAt(piece, i) <=> i \in 1..n /\ i <= MaxFirstFrameBytes /\ FirstNewlineAt(piece, i)
    BY <1>2 DEF FirstLineAt
  <1>6. FirstLineAt(bytes, i) <=> i \in 1..Len(bytes) /\ i <= MaxFirstFrameBytes /\ FirstNewlineAt(bytes, i)
    BY DEF FirstLineAt
  <1>7. FirstLineAt(piece, i) <=> FirstLineAt(bytes, i) /\ i <= n
    BY <1>3, <1>4, <1>5, <1>6
  <1> QED
    BY <1>7 DEF piece

\* Past the first frame, what is read next is passed on as it is.
LEMMA TranslatedGrows ==
    ASSUME NEW bytes \in Seq(HostByte), NEW n \in 0..Len(bytes), NEW m \in n..Len(bytes),
           \A i : FirstLineAt(bytes, i) => MaskFrame(SubSeq(bytes, 1, i)) \in Seq(HostByte),
           n >= MaxFirstFrameBytes \/ \E i : FirstLineAt(bytes, i) /\ i <= n
    PROVE  Translated(SubSeq(bytes, 1, m)) = Translated(SubSeq(bytes, 1, n)) \o SubSeq(bytes, n + 1, m)
  <1>1. n \in Nat /\ m \in Nat /\ n <= m /\ m <= Len(bytes) /\ m \in 0..Len(bytes) /\ Len(bytes) \in Nat
    OBVIOUS
  <1>2. /\ SubSeq(bytes, 1, m) \in Seq(HostByte) /\ SubSeq(bytes, 1, n) \in Seq(HostByte)
        /\ Len(SubSeq(bytes, 1, m)) = m /\ Len(SubSeq(bytes, 1, n)) = n
    BY <1>1
  <1>3. CASE \E i : FirstLineAt(bytes, i) /\ i <= n
    <2>1. PICK i : FirstLineAt(bytes, i) /\ i <= n
      BY <1>3
    <2>2. i \in Nat /\ 1 <= i /\ i <= n /\ i <= m /\ i \in 1..Len(bytes)
      BY <1>1, <2>1 DEF FirstLineAt
    <2>3. FirstLineAt(SubSeq(bytes, 1, m), i) /\ FirstLineAt(SubSeq(bytes, 1, n), i)
      BY <1>1, <2>1, <2>2, FirstLineOfPiece
    <2>4. /\ SubSeq(SubSeq(bytes, 1, m), 1, i) = SubSeq(bytes, 1, i)
          /\ SubSeq(SubSeq(bytes, 1, n), 1, i) = SubSeq(bytes, 1, i)
      BY <1>1, <2>2
    <2>5. /\ SubSeq(SubSeq(bytes, 1, m), i + 1, m) = SubSeq(bytes, i + 1, m)
          /\ SubSeq(SubSeq(bytes, 1, n), i + 1, n) = SubSeq(bytes, i + 1, n)
      BY <1>1, <2>2
    <2>6. SubSeq(bytes, i + 1, m) = SubSeq(bytes, i + 1, n) \o SubSeq(bytes, n + 1, m)
      <3>1. i + 1 \in 1..(Len(bytes) + 1) /\ n \in ((i + 1) - 1)..Len(bytes) /\ m \in n..Len(bytes)
        BY <1>1, <2>2
      <3>2. PICK from : from = i + 1
        OBVIOUS
      <3>3. from \in 1..(Len(bytes) + 1) /\ n \in (from - 1)..Len(bytes)
        BY <3>1, <3>2
      <3>4. SubSeq(bytes, from, n) \o SubSeq(bytes, n + 1, m) = SubSeq(bytes, from, m)
        BY <3>1, <3>3, ConcatAdjacentSubSeq
      <3> QED
        BY <3>2, <3>4
    <2> DEFINE mask == MaskFrame(SubSeq(bytes, 1, i))
               middle == SubSeq(bytes, i + 1, n)
               last == SubSeq(bytes, n + 1, m)
    <2>7. mask \in Seq(HostByte) /\ middle \in Seq(HostByte) /\ last \in Seq(HostByte)
      <3>1. mask \in Seq(HostByte)
        BY <2>1
      <3>2. middle \in Seq(HostByte)
        BY <1>1, <2>2
      <3>3. last \in Seq(HostByte)
        BY <1>1
      <3> QED
        BY <3>1, <3>2, <3>3
    <2>8. Translated(SubSeq(bytes, 1, m)) = mask \o (middle \o last)
      BY <1>2, <2>3, <2>4, <2>5, <2>6, TranslatedLine
    <2>9. Translated(SubSeq(bytes, 1, n)) = mask \o middle
      BY <1>2, <2>3, <2>4, <2>5, TranslatedLine
    <2>10. (mask \o middle) \o last = mask \o (middle \o last)
      <3>1. \A a, b, c \in Seq(HostByte) : (a \o b) \o c = a \o (b \o c)
        BY ConcatAssociative
      <3> HIDE DEF mask, middle, last
      <3> QED
        BY <2>7, <3>1
    <2> QED
      BY <2>8, <2>9, <2>10
  <1>4. CASE ~ \E i : FirstLineAt(bytes, i) /\ i <= n
    <2>1. n >= MaxFirstFrameBytes
      BY <1>4
    <2>2. \A i : ~FirstLineAt(bytes, i)
      BY <1>1, <1>4, <2>1, MaskAssumption DEF FirstLineAt
    <2>3. \A i : ~FirstLineAt(SubSeq(bytes, 1, m), i) /\ ~FirstLineAt(SubSeq(bytes, 1, n), i)
      BY <1>1, <2>2, FirstLineOfPiece
    <2>4. /\ Translated(SubSeq(bytes, 1, m)) = SubSeq(bytes, 1, m)
          /\ Translated(SubSeq(bytes, 1, n)) = SubSeq(bytes, 1, n)
      BY <2>3, TranslatedPlain
    <2>5. SubSeq(bytes, 1, n) \o SubSeq(bytes, n + 1, m) = SubSeq(bytes, 1, m)
      BY <1>1, ConcatAdjacentSubSeq
    <2> QED
      BY <2>4, <2>5
  <1> QED
    BY <1>3, <1>4

\* Masking yields bytes of the host.
LEMMA TranslatedType ==
    ASSUME NEW bytes \in Seq(HostByte),
           \A i : FirstLineAt(bytes, i) => MaskFrame(SubSeq(bytes, 1, i)) \in Seq(HostByte)
    PROVE  Translated(bytes) \in Seq(HostByte)
  <1>1. ASSUME NEW i, FirstLineAt(bytes, i) PROVE Translated(bytes) \in Seq(HostByte)
    <2>1. i \in Nat /\ i >= 1 /\ i <= Len(bytes)
      BY <1>1 DEF FirstLineAt
    <2>2. SubSeq(bytes, i + 1, Len(bytes)) \in Seq(HostByte)
      BY <2>1
    <2> DEFINE mask == MaskFrame(SubSeq(bytes, 1, i))
               rest == SubSeq(bytes, i + 1, Len(bytes))
    <2>3. mask \in Seq(HostByte) /\ Translated(bytes) = mask \o rest
      BY <1>1, TranslatedLine
    <2> HIDE DEF mask, rest
    <2>4. mask \o rest \in Seq(HostByte)
      BY <2>2, <2>3 DEF rest
    <2> QED
      BY <2>3, <2>4
  <1> QED
    BY <1>1, TranslatedPlain

\* What the queue and the held command say, when the command is none or the host's.
SentOf(q, command) == HostForwards(q) \o (IF command = NoCommand THEN <<>> ELSE command.bytes)

\* It grows by the bytes of the host's pieces only.
LEMMA SentIs ==
    /\ Sent = SentOf(queued, pending) /\ Sent' = SentOf(queued', pending')
    /\ \A q : HostForwards(q) \in Seq(HostByte) => SentOf(q, NoCommand) = HostForwards(q)
    /\ \A q, bytes : SentOf(q, HostCommand(bytes)) = HostForwards(q) \o bytes
    /\ \A q : \A c \in [kind : {"Forward"}, bytes : Seq(HostByte)] :
          SentOf(q, c) = HostForwards(q) \o c.bytes
  <1>1. Sent = SentOf(queued, pending) /\ Sent' = SentOf(queued', pending')
    BY DEF Sent, SentOf
  <1>2. ASSUME NEW q, HostForwards(q) \in Seq(HostByte) PROVE SentOf(q, NoCommand) = HostForwards(q)
    BY <1>2, ConcatEmptySeq DEF SentOf
  <1>3. ASSUME NEW c, c.kind = "Forward" PROVE c # NoCommand
    BY <1>3 DEF NoCommand
  <1>4. ASSUME NEW q, NEW c, c.kind = "Forward" PROVE SentOf(q, c) = HostForwards(q) \o c.bytes
    BY <1>3, <1>4 DEF SentOf
  <1>5. \A bytes : HostCommand(bytes).kind = "Forward" /\ HostCommand(bytes).bytes = bytes
    BY DEF HostCommand
  <1>6. \A c \in [kind : {"Forward"}, bytes : Seq(HostByte)] : c.kind = "Forward"
    OBVIOUS
  <1> QED
    BY <1>1, <1>2, <1>4, <1>5, <1>6

\* What is known of the host's bytes that have been read.
LEMMA ReadSoFar ==
    ASSUME SessionInv
    PROVE  /\ host \in Seq(HostByte) /\ Len(host) \in Nat /\ hostRead \in 0..Len(host)
           /\ hostRead \in Nat /\ hostRead <= Len(host)
           /\ Len(SubSeq(host, 1, hostRead)) = hostRead
           /\ \A j \in 1..hostRead : SubSeq(host, 1, hostRead)[j] = host[j]
           /\ \A i : FirstLineAt(host, i) => MaskFrame(SubSeq(host, 1, i)) \in Seq(HostByte)
           /\ queued \in Seq(WriteCmd)
           /\ \A c \in WriteCmd : c.kind = "Forward" => c.bytes \in Seq(HostByte)
           /\ HostForwards(queued) \in Seq(HostByte)
  <1>1. host \in Seq(HostByte) /\ hostRead \in 0..Len(host) /\ queued \in Seq(WriteCmd)
    BY DEF SessionInv, TypeOK, StdinTypeOK, ChannelTypeOK
  <1>2. Len(host) \in Nat /\ hostRead \in Nat /\ hostRead <= Len(host)
    BY <1>1
  <1>3. /\ Len(SubSeq(host, 1, hostRead)) = hostRead
        /\ \A j \in 1..hostRead : SubSeq(host, 1, hostRead)[j] = host[j]
    BY <1>1, <1>2
  <1>4. \A i : FirstLineAt(host, i) => MaskFrame(SubSeq(host, 1, i)) \in Seq(HostByte)
    <2>1. host \in HostStreams
      BY DEF SessionInv, FirstFrameInv
    <2> QED
      BY <2>1, MaskedBytesAssumption DEF FirstLineAt
  <1>5. \A c \in WriteCmd : c.kind = "Forward" => c.bytes \in Seq(HostByte)
    BY DEF WriteCmd
  <1>6. HostForwards(queued) \in Seq(HostByte)
    <2>1. HostCommand(<<>>) \in WriteCmd
      BY EmptySeq, HostCommandType
    <2> QED
      BY <1>1, <1>5, <2>1, HostForwardsAppend
  <1> QED
    BY <1>1, <1>2, <1>3, <1>4, <1>5, <1>6

\* A read for the first frame stops at the first newline of the host, and only there.
LEMMA ReadFirst ==
    ASSUME SessionInv, StreamInv, NEW k \in 1..MaxFirstFrameBytes, ReadFirstFrame(k)
    PROVE  /\ stdinPc = "first" /\ host' = host /\ queued' = queued
           /\ hostRead' \in 0..Len(host) /\ firstFrame' = SubSeq(host, 1, hostRead')
           /\ \/ stdinPc' = "first" /\ pending' = pending /\ NoNewline(firstFrame')
              \/ /\ stdinPc' = "send" /\ pending' = HostCommand(MaskFrame(SubSeq(host, 1, hostRead')))
                 /\ FirstLineAt(host, hostRead')
  <1>1. /\ stdinPc = "first" /\ host' = host /\ queued' = queued
        /\ hostRead' = hostRead + k /\ hostRead + k <= Len(host)
        /\ Len(firstFrame) + k <= MaxFirstFrameBytes
        /\ \A i \in 1..(k - 1) : HostBytes(k)[i] # NL
        /\ firstFrame' = firstFrame \o HostBytes(k)
        /\ \/ ~FirstFrameComplete(firstFrame') /\ stdinPc' = stdinPc /\ pending' = pending
           \/ /\ FirstFrameComplete(firstFrame')
              /\ stdinPc' = "send" /\ pending' = HostCommand(MaskFrame(firstFrame'))
    BY DEF ReadFirstFrame, Reading, chanVars
  <1>2. /\ host \in Seq(HostByte) /\ Len(host) \in Nat /\ hostRead \in Nat /\ hostRead <= Len(host)
        /\ Len(SubSeq(host, 1, hostRead)) = hostRead
        /\ \A j \in 1..hostRead : SubSeq(host, 1, hostRead)[j] = host[j]
    BY ReadSoFar
  <1>3. k \in Nat /\ k >= 1 /\ MaxFirstFrameBytes \in Nat
    BY MaskAssumption
  <1>4. firstFrame = SubSeq(host, 1, hostRead) /\ NoNewline(firstFrame)
    BY <1>1 DEF SessionInv, FirstFrameInv, StreamInv
  <1>5. PICK to \in Nat : to = hostRead + k
    BY <1>2, <1>3
  <1>6. to <= Len(host) /\ to >= 1 /\ to <= MaxFirstFrameBytes /\ hostRead' = to
    BY <1>1, <1>2, <1>3, <1>4, <1>5
  <1>7. firstFrame' = SubSeq(host, 1, to)
    <2>1. SubSeq(host, 1, hostRead) \o HostBytes(k) = SubSeq(host, 1, hostRead + k)
      BY <1>1, HostPiece DEF SessionInv, TypeOK
    <2> QED
      BY <1>1, <1>4, <1>5, <2>1
  <1>8. /\ Len(SubSeq(host, 1, to)) = to /\ \A j \in 1..to : SubSeq(host, 1, to)[j] = host[j]
        /\ SubSeq(host, 1, to) \in Seq(HostByte)
    BY <1>2, <1>6
  <1>9. \A j \in 1..(to - 1) : host[j] # NL
    <2>1. \A j \in 1..hostRead : host[j] # NL
      BY <1>2, <1>4 DEF NoNewline
    <2>2. \A i \in 1..k : HostBytes(k)[i] = host[hostRead + i]
      <3>1. HostBytes(k) = SubSeq(host, hostRead + 1, to)
        BY <1>5 DEF HostBytes
      <3>2. \A i \in 1..(to - hostRead) : SubSeq(host, hostRead + 1, to)[i] = host[hostRead + i]
        BY <1>2, <1>3, <1>5, <1>6
      <3>3. to - hostRead = k
        BY <1>2, <1>3, <1>5
      <3> QED
        BY <3>1, <3>2, <3>3
    <2>3. ASSUME NEW j \in 1..(to - 1), ~(j <= hostRead) PROVE host[j] # NL
      <3>1. j - hostRead \in 1..(k - 1) /\ j - hostRead \in 1..k /\ hostRead + (j - hostRead) = j
        BY <1>2, <1>3, <1>5, <2>3
      <3> QED
        BY <1>1, <2>2, <3>1
    <2>4. ASSUME NEW j \in 1..(to - 1), j <= hostRead PROVE host[j] # NL
      BY <1>2, <2>1, <2>4
    <2> QED
      BY <2>3, <2>4
  <1>10. FirstFrameComplete(firstFrame') <=> host[to] = NL
    <2>1. to \in 1..to
      BY <1>6
    <2>2. SubSeq(host, 1, to) # <<>>
      BY <1>6, <1>8, EmptySeq
    <2> QED
      BY <1>7, <1>8, <2>1, <2>2 DEF FirstFrameComplete
  <1>11. CASE host[to] = NL
    <2>1. FirstLineAt(host, to)
      BY <1>6, <1>9, <1>11, <1>2 DEF FirstLineAt, FirstNewlineAt
    <2> QED
      BY <1>1, <1>2, <1>6, <1>7, <1>10, <1>11, <2>1
  <1>12. CASE host[to] # NL
    <2>1. NoNewline(SubSeq(host, 1, to))
      <3>1. \A j \in 1..to : host[j] # NL
        BY <1>6, <1>9, <1>12
      <3> QED
        BY <1>8, <3>1 DEF NoNewline
    <2> QED
      BY <1>1, <1>2, <1>6, <1>7, <1>10, <1>12, <2>1
  <1> QED
    BY <1>11, <1>12

\* Without a newline so far, there is no first line among the bytes read.
LEMMA NoLineYet ==
    ASSUME SessionInv, NoNewline(SubSeq(host, 1, hostRead))
    PROVE  /\ \A i : FirstLineAt(host, i) => i > hostRead
           /\ Translated(SubSeq(host, 1, hostRead)) = SubSeq(host, 1, hostRead)
  <1>1. /\ hostRead \in Nat /\ host \in Seq(HostByte) /\ hostRead \in 0..Len(host)
        /\ Len(SubSeq(host, 1, hostRead)) = hostRead
        /\ \A j \in 1..hostRead : SubSeq(host, 1, hostRead)[j] = host[j]
    BY ReadSoFar
  <1>2. \A j \in 1..hostRead : host[j] # NL
    BY <1>1 DEF NoNewline
  <1>3. ASSUME NEW i, FirstLineAt(host, i) PROVE i > hostRead
    BY <1>1, <1>2, <1>3 DEF FirstLineAt, FirstNewlineAt
  <1>4. \A i : ~FirstLineAt(SubSeq(host, 1, hostRead), i)
    <2> SUFFICES ASSUME NEW i, FirstLineAt(SubSeq(host, 1, hostRead), i) PROVE FALSE
      OBVIOUS
    <2>1. FirstLineAt(host, i) /\ i <= hostRead
      BY <1>1, FirstLineOfPiece
    <2>2. i \in Nat
      BY <2>1 DEF FirstLineAt
    <2> QED
      BY <1>1, <1>3, <2>1, <2>2
  <1> QED
    BY <1>3, <1>4, TranslatedPlain

\* Each step of the stdin task moves bytes from the host to the held command or
\* from there to the queue; no other step touches them.
LEMMA StreamStep ==
    ASSUME SessionInv, StreamInv, Next
    PROVE  StreamInv'
  <1> DEFINE Read == SubSeq(host, 1, hostRead)
             ReadNow == SubSeq(host', 1, hostRead')
             HostPieces == [kind : {"Forward"}, bytes : Seq(HostByte)]
  <1>1. /\ host \in Seq(HostByte) /\ Len(host) \in Nat /\ hostRead \in 0..Len(host)
        /\ hostRead \in Nat /\ hostRead <= Len(host)
        /\ Len(SubSeq(host, 1, hostRead)) = hostRead
        /\ \A i : FirstLineAt(host, i) => MaskFrame(SubSeq(host, 1, i)) \in Seq(HostByte)
        /\ queued \in Seq(WriteCmd)
        /\ \A c \in WriteCmd : c.kind = "Forward" => c.bytes \in Seq(HostByte)
        /\ HostForwards(queued) \in Seq(HostByte)
    BY ReadSoFar
  <1>2. /\ pending = NoCommand \/ pending \in HostPieces
        /\ stdinPc \in {"first", "pump"} => pending = NoCommand
        /\ stdinPc = "first" => NoNewline(firstFrame) /\ Forwards(queued) = <<>> /\ Sent = <<>>
        /\ stdinPc \in {"pump", "send"} => PastFirstFrame /\ Sent = Translated(Read)
        /\ stdinPc = "stopped" /\ Sent # <<>> => PastFirstFrame /\ Sent = Translated(Read)
        /\ stdinEnd = "eof" => pending = NoCommand /\ Sent = Translated(Read)
        /\ Sent = Translated(Read) \/ (Sent = <<>> /\ stdinPc \in {"first", "stopped"} /\ firstFrame = Read)
    BY DEF StreamInv, SentIsRead
  <1>3. StreamInv' <=>
        /\ pending' = NoCommand \/ pending' \in HostPieces
        /\ stdinPc' \in {"first", "pump"} => pending' = NoCommand
        /\ stdinPc' = "first" => NoNewline(firstFrame') /\ Forwards(queued') = <<>> /\ Sent' = <<>>
        /\ stdinPc' \in {"pump", "send"} => PastFirstFrame' /\ Sent' = Translated(ReadNow)
        /\ stdinPc' = "stopped" /\ Sent' # <<>> => PastFirstFrame' /\ Sent' = Translated(ReadNow)
        /\ stdinEnd' = "eof" => pending' = NoCommand /\ Sent' = Translated(ReadNow)
        /\ Sent' = Translated(ReadNow) \/ (Sent' = <<>> /\ stdinPc' \in {"first", "stopped"} /\ firstFrame' = ReadNow)
    BY DEF StreamInv, SentIsRead, Forwards
  <1>eof. stdinEnd' = "eof" => stdinPc' = "stopped"
    BY SessionStep DEF SessionInv, StdinInv
  <1>4. stdinPc \in {"first", "pump", "send", "stopped"}
    BY DEF SessionInv, TypeOK, StdinTypeOK
  <1>5. stdinPc = "first" => firstFrame = Read
    BY DEF SessionInv, FirstFrameInv
  <1>6. PastFirstFrame <=> \/ hostRead >= MaxFirstFrameBytes \/ hostRead = Len(host)
                           \/ \E i : FirstLineAt(host, i) /\ i <= hostRead
    BY <1>1 DEF PastFirstFrame, FirstLineAt
  <1>7. stdinPc = "first" => HostForwards(queued) = <<>>
    BY <1>1, <1>2, SentIs
  <1>8. \A bytes \in Seq(HostByte) : HostCommand(bytes) \in HostPieces /\ HostCommand(bytes) # NoCommand
    BY DEF HostCommand, NoCommand
  <1>9. \A bytes \in Seq(HostByte) : HostForwards(queued) = <<>> => SentOf(queued, HostCommand(bytes)) = bytes
    <2>1. \A bytes \in Seq(HostByte) : <<>> \o bytes = bytes
      BY ConcatEmptySeq
    <2>2. \A bytes : SentOf(queued, HostCommand(bytes)) = HostForwards(queued) \o bytes
      BY SentIs
    <2> QED
      BY <2>1, <2>2
  \* The first frame.
  <1>10. ASSUME NEW k \in 1..MaxFirstFrameBytes, ReadFirstFrame(k) PROVE StreamInv'
    <2>1. /\ stdinPc = "first" /\ host' = host /\ queued' = queued
          /\ hostRead' \in 0..Len(host) /\ firstFrame' = ReadNow
          /\ \/ stdinPc' = "first" /\ pending' = pending /\ NoNewline(firstFrame')
             \/ /\ stdinPc' = "send" /\ pending' = HostCommand(MaskFrame(SubSeq(host, 1, hostRead')))
                /\ FirstLineAt(host, hostRead')
      BY <1>10, ReadFirst
    <2>2. CASE stdinPc' = "first" /\ pending' = pending /\ NoNewline(firstFrame')
      <3>1. Sent' = Sent
        BY <2>1, <2>2 DEF Sent
      <3> QED
        BY <1>2, <1>3, <1>eof, <2>1, <2>2, <3>1
    <2>3. CASE /\ stdinPc' = "send" /\ pending' = HostCommand(MaskFrame(SubSeq(host, 1, hostRead')))
               /\ FirstLineAt(host, hostRead')
      <3> DEFINE masked == MaskFrame(SubSeq(host, 1, hostRead'))
      <3>1. masked \in Seq(HostByte)
        BY <1>1, <2>3
      <3>2. Sent' = masked
        <4> HIDE DEF masked
        <4> QED
          BY <1>7, <1>9, <2>1, <2>3, <3>1, SentIs DEF masked
      <3>3. PICK n \in 1..Len(host) : n = hostRead'
        BY <2>3 DEF FirstLineAt
      <3>4. Translated(SubSeq(host, 1, n)) = MaskFrame(SubSeq(host, 1, n))
        <4>1. n \in Nat /\ 1 <= n /\ n <= Len(host) /\ n \in 0..Len(host)
          BY <1>1
        <4>2. FirstLineAt(host, n)
          BY <2>3, <3>3
        <4>3. FirstLineAt(SubSeq(host, 1, n), n)
          BY <1>1, <4>1, <4>2, FirstLineOfPiece
        <4>4. /\ SubSeq(host, 1, n) \in Seq(HostByte) /\ Len(SubSeq(host, 1, n)) = n
              /\ SubSeq(SubSeq(host, 1, n), 1, n) = SubSeq(host, 1, n)
              /\ SubSeq(SubSeq(host, 1, n), n + 1, n) = <<>>
          BY <1>1, <4>1
        <4>5. MaskFrame(SubSeq(host, 1, n)) \o <<>> = MaskFrame(SubSeq(host, 1, n))
          <5>1. MaskFrame(SubSeq(host, 1, n)) \in Seq(HostByte)
            BY <1>1, <4>2
          <5> QED
            BY <5>1, ConcatEmptySeq
        <4> QED
          BY <4>3, <4>4, <4>5, TranslatedLine
      <3>5. PastFirstFrame'
        <4>1. n \in 1..n
          BY <1>1
        <4> QED
          BY <2>1, <2>3, <3>3, <4>1 DEF PastFirstFrame, FirstLineAt
      <3>6. pending' \in HostPieces
        BY <1>8, <2>3, <3>1
      <3>7. Sent' = Translated(ReadNow)
        BY <2>1, <3>2, <3>3, <3>4
      <3> HIDE DEF HostPieces, ReadNow
      <3> QED
        BY <1>3, <1>eof, <2>3, <3>5, <3>6, <3>7
    <2> QED
      BY <2>1, <2>2, <2>3
  <1>11. CASE FirstFrameTooLong \/ FirstFrameEof
    <2>1. /\ stdinPc = "first" /\ host' = host /\ queued' = queued /\ hostRead' = hostRead
          /\ firstFrame' = firstFrame
          /\ \/ stdinPc' = "send" /\ pending' = HostCommand(firstFrame)
             \/ stdinPc' = "pump" /\ pending' = pending /\ firstFrame = <<>>
          /\ Len(firstFrame) = MaxFirstFrameBytes \/ hostRead = Len(host)
      BY <1>11 DEF FirstFrameTooLong, FirstFrameEof, FirstFrameFull, Reading, chanVars
    <2>2. firstFrame = Read /\ NoNewline(Read) /\ Read \in Seq(HostByte) /\ Len(Read) = hostRead
      <3>1. Read \in Seq(HostByte) /\ Len(Read) = hostRead
        BY <1>1
      <3>2. firstFrame = Read /\ NoNewline(firstFrame)
        <4> HIDE DEF Read, HostPieces
        <4> QED
          BY <1>2, <1>5, <2>1
      <3> HIDE DEF Read
      <3> QED
        BY <3>1, <3>2
    <2>3. Translated(Read) = Read /\ ReadNow = Read
      BY <2>1, <2>2, NoLineYet
    <2>4. hostRead >= MaxFirstFrameBytes \/ hostRead = Len(host)
      BY <1>1, <2>1, <2>2, MaskAssumption
    <2>5. PastFirstFrame'
      BY <2>1, <2>4 DEF PastFirstFrame
    <2>6. Sent' = Read
      <3>1. CASE pending' = HostCommand(firstFrame)
        BY <1>7, <1>9, <2>1, <2>2, <3>1, SentIs
      <3>2. CASE pending' = pending /\ firstFrame = <<>>
        BY <1>2, <2>1, <2>2, <3>2 DEF Sent
      <3> QED
        BY <2>1, <3>1, <3>2
    <2>7. pending' = NoCommand \/ pending' \in HostPieces
      BY <1>2, <1>8, <2>1, <2>2
    <2>8. stdinPc' = "pump" => pending' = NoCommand
      BY <1>2, <2>1
    <2> HIDE DEF HostPieces, ReadNow, Read
    <2> QED
      BY <1>3, <1>eof, <2>1, <2>3, <2>5, <2>6, <2>7, <2>8
  \* What follows it.
  <1>12. ASSUME NEW k \in 1..MaxFirstFrameBytes, PumpRead(k) PROVE StreamInv'
    <2>1. /\ stdinPc = "pump" /\ host' = host /\ queued' = queued /\ hostRead' = hostRead + k
          /\ hostRead + k <= Len(host) /\ stdinPc' = "send" /\ pending' = HostCommand(HostBytes(k))
      BY <1>12 DEF PumpRead, Reading, chanVars
    <2>2. k \in Nat /\ k >= 1
      BY MaskAssumption
    <2>3. PICK to \in Nat : to = hostRead + k
      BY <1>1, <2>2
    <2>4. HostBytes(k) = SubSeq(host, hostRead + 1, to) /\ HostBytes(k) \in Seq(HostByte)
      <3>1. HostBytes(k) \in Seq(HostByte)
        BY <2>1, HostPiece DEF SessionInv, TypeOK
      <3> QED
        BY <2>3, <3>1 DEF HostBytes
    <2>5. hostRead >= MaxFirstFrameBytes \/ \E i : FirstLineAt(host, i) /\ i <= hostRead
      BY <1>1, <1>2, <1>6, <2>1, <2>2
    <2>6. Translated(SubSeq(host, 1, to)) = Translated(Read) \o SubSeq(host, hostRead + 1, to)
      <3>1. to \in hostRead..Len(host)
        BY <1>1, <2>1, <2>2, <2>3
      <3> QED
        BY <1>1, <2>5, <3>1, TranslatedGrows
    <2>7. Sent' = Translated(ReadNow)
      <3>1. Sent = HostForwards(queued) /\ Sent = Translated(Read)
        BY <1>1, <1>2, <2>1, SentIs
      <3>2. Sent' = HostForwards(queued) \o HostBytes(k)
        BY <2>1, SentIs
      <3> QED
        BY <2>1, <2>3, <2>4, <2>6, <3>1, <3>2
    <2>8. PastFirstFrame'
      <3>1. hostRead' = to /\ hostRead <= to
        BY <1>1, <2>1, <2>2, <2>3
      <3>2. CASE hostRead >= MaxFirstFrameBytes
        BY <1>1, <3>1, <3>2, MaskAssumption DEF PastFirstFrame
      <3>3. CASE \E i : FirstLineAt(host, i) /\ i <= hostRead
        <4>1. PICK i : FirstLineAt(host, i) /\ i <= hostRead
          BY <3>3
        <4>2. i \in 1..to
          BY <1>1, <3>1, <4>1 DEF FirstLineAt
        <4> QED
          BY <2>1, <3>1, <4>1, <4>2 DEF PastFirstFrame, FirstLineAt
      <3> QED
        BY <2>5, <3>2, <3>3
    <2>9. pending' \in HostPieces
      BY <1>8, <2>1, <2>4
    <2> HIDE DEF HostPieces, ReadNow
    <2> QED
      BY <1>3, <1>eof, <2>1, <2>7, <2>8, <2>9
  <1>13. CASE StdinSend
    <2>1. /\ stdinPc = "send" /\ stdinPc' = "pump" /\ pending' = NoCommand
          /\ queued' = Append(queued, pending) /\ host' = host /\ hostRead' = hostRead
      BY <1>13 DEF StdinSend, Send
    <2>2. pending \in WriteCmd /\ pending \in HostPieces
      <3>1. pending \in WriteCmd
        BY <2>1 DEF SessionInv, TypeOK, StdinTypeOK
      <3>2. \A c \in WriteCmd : c # NoCommand
        BY DEF WriteCmd, NoCommand
      <3> QED
        BY <1>2, <3>1, <3>2
    <2>3. pending.kind = "Forward" /\ pending.bytes \in Seq(HostByte)
      BY <2>2
    <2>4. HostForwards(queued') = HostForwards(queued) \o pending.bytes
      <3> HIDE DEF HostPieces
      <3> QED
        BY <1>1, <2>1, <2>2, <2>3, HostForwardsAppend
    <2>5. HostForwards(queued') \in Seq(HostByte)
      BY <1>1, <2>3, <2>4, ConcatProperties
    <2>6. Sent' = Sent
      BY <2>1, <2>2, <2>4, <2>5, SentIs
    <2>7. PastFirstFrame' /\ ReadNow = Read
      BY <1>2, <2>1 DEF PastFirstFrame
    <2> HIDE DEF HostPieces, ReadNow, Read
    <2> QED
      BY <1>2, <1>3, <1>eof, <2>1, <2>6, <2>7
  \* The rest.
  <1>14. ASSUME Sent' = Sent, host' = host, hostRead' = hostRead, firstFrame' = firstFrame,
                pending' = pending, Forwards(queued') = Forwards(queued),
                stdinPc' \in {stdinPc, "stopped"}, stdinEnd' = "eof" => stdinEnd = "eof" \/ stdinPc = "pump"
         PROVE  StreamInv'
    <2>1. PastFirstFrame' <=> PastFirstFrame
      BY <1>14 DEF PastFirstFrame
    <2>2. ReadNow = Read
      BY <1>14
    <2> HIDE DEF HostPieces, ReadNow, Read
    <2>3. CASE stdinPc' = stdinPc
      BY <1>2, <1>3, <1>14, <2>1, <2>2, <2>3
    <2>4. CASE stdinPc' = "stopped"
      BY <1>2, <1>3, <1>4, <1>5, <1>14, <2>1, <2>2, <2>4
    <2> QED
      BY <1>14, <2>3, <2>4
  <1>15. CASE PumpEof \/ StdinReadFails \/ StdinSinkGone \/ StdinCancelled
    <2>1. /\ host' = host /\ hostRead' = hostRead /\ firstFrame' = firstFrame
          /\ pending' = pending /\ queued' = queued /\ stdinPc' = "stopped"
          /\ stdinEnd' = "eof" => stdinPc = "pump"
      BY <1>15 DEF PumpEof, StdinReadFails, StdinSinkGone, StdinCancelled, StopStdin, Reading, chanVars
    <2>2. Sent' = Sent
      BY <2>1 DEF Sent
    <2> QED
      BY <1>14, <2>1, <2>2
  <1>16. CASE Coordinator \/ Sink \/ AgentRead \/ AgentExit
    <2>1. /\ host' = host /\ hostRead' = hostRead /\ firstFrame' = firstFrame
          /\ pending' = pending /\ stdinPc' = stdinPc /\ stdinEnd' = stdinEnd
      BY <1>16, CoordinatorFrame, SinkFrame, AgentFrame
    <2>2. \/ queued' = queued
          \/ \E command \in WriteCmd : command.kind = "Synthesized" /\ queued' = Append(queued, command)
      <3>1. QueueHost => stdinPc' # stdinPc
        BY DEF QueueHost, StdinSend
      <3>2. ASSUME QueueAnswer
            PROVE  \E command \in WriteCmd : command.kind = "Synthesized" /\ queued' = Append(queued, command)
        <4>1. queued' = Append(queued, Synthesized(Response(outputs[next]))) /\ Dispatching("BlockRequest")
          BY <3>2 DEF QueueAnswer, DispatchRequest, Send
        <4>2. next \in 1..Len(outputs)
          <5>1. Len(outputs) \in Nat /\ next \in 1..(Len(outputs) + 1)
            BY OutputsGrow DEF SessionInv, TypeOK, CoordinatorTypeOK
          <5> QED
            BY <4>1, <5>1 DEF Dispatching
        <4> QED
          BY <4>1, <4>2 DEF Synthesized, WriteCmd, Responses
      <3> QED
        BY <2>1, <3>1, <3>2, QueueMoves DEF DispatchOther, LoseAnswer, KeepQueue
    <2>3. HostForwards(queued') = HostForwards(queued) /\ Forwards(queued') = Forwards(queued)
      <3>1. CASE queued' = queued
        BY <3>1
      <3>2. ASSUME NEW c \in WriteCmd, c.kind = "Synthesized", queued' = Append(queued, c)
            PROVE  HostForwards(queued') = HostForwards(queued) /\ Forwards(queued') = Forwards(queued)
        <4>1. Forwards(Append(queued, c)) = Forwards(queued)
          BY <1>1, <3>2, OfKindAppend DEF Forwards
        <4>2. HostForwards(Append(queued, c)) = HostForwards(queued) \o <<>>
          BY <1>1, <3>2, HostForwardsAppend
        <4> QED
          BY <1>1, <3>2, <4>1, <4>2, ConcatEmptySeq
      <3> QED
        BY <2>2, <3>1, <3>2
    <2>4. Sent' = Sent
      BY <2>1, <2>3 DEF Sent
    <2> QED
      BY <1>14, <2>1, <2>3, <2>4
  <1> QED
    BY <1>10, <1>11, <1>12, <1>13, <1>15, <1>16 DEF Next, StdinTask

\* A step that queues an answer or nothing leaves the host's pieces alone.
LEMMA ForwardsStay ==
    ASSUME SessionInv, Next, ~StdinSend
    PROVE  Forwards(queued') = Forwards(queued)
  <1>1. queued \in Seq(WriteCmd)
    BY ReadSoFar
  <1>2. ~QueueHost
    BY DEF QueueHost
  <1>3. CASE queued' = queued
    BY <1>3
  <1>4. CASE QueueAnswer
    <2> DEFINE answer == Synthesized(Response(outputs[next]))
    <2>1. queued' = Append(queued, answer) /\ Dispatching("BlockRequest")
      BY <1>4 DEF QueueAnswer, DispatchRequest, Send
    <2>2. next \in 1..Len(outputs)
      <3>1. Len(outputs) \in Nat /\ next \in 1..(Len(outputs) + 1)
        BY OutputsGrow DEF SessionInv, TypeOK, CoordinatorTypeOK
      <3> QED
        BY <2>1, <3>1 DEF Dispatching
    <2>3. answer \in WriteCmd /\ answer.kind = "Synthesized"
      BY <2>2 DEF Synthesized, WriteCmd, Responses
    <2> HIDE DEF answer
    <2> QED
      BY <1>1, <2>1, <2>3, OfKindAppend DEF Forwards
  <1> QED
    BY <1>2, <1>3, <1>4, QueueMoves DEF DispatchOther, LoseAnswer, KeepQueue

\* The first piece of the host to be queued is its first line, masked.
LEMMA FirstForwardStep ==
    ASSUME SessionInv, StreamInv, FirstForwardInv, Next
    PROVE  FirstForwardInv'
  <1> SUFFICES ASSUME NEW i, FirstLineAt(host', i)
               PROVE  LET masked == MaskFrame(SubSeq(host', 1, i)) IN
                      IF Forwards(queued') # <<>> THEN Forwards(queued')[1].bytes = masked
                      ELSE /\ stdinPc' = "send" => pending'.bytes = masked
                           /\ stdinPc' = "pump" => hostRead' = Len(host')
    BY DEF FirstForwardInv, FirstLineAt, Forwards
  <1> DEFINE masked == MaskFrame(SubSeq(host, 1, i))
             Goal == IF Forwards(queued') # <<>> THEN Forwards(queued')[1].bytes = masked
                     ELSE /\ stdinPc' = "send" => pending'.bytes = masked
                          /\ stdinPc' = "pump" => hostRead' = Len(host)
  <1>1. host' = host
    BY CoordinatorFrame, StdinTaskFrame, SinkFrame, AgentFrame DEF Next
  <1>2. FirstLineAt(host, i) /\ i \in Nat /\ i <= Len(host) /\ i <= MaxFirstFrameBytes /\ MaxFirstFrameBytes \in Nat
    BY <1>1, MaskAssumption DEF FirstLineAt
  <1>3. /\ host \in Seq(HostByte) /\ Len(host) \in Nat /\ hostRead \in Nat /\ hostRead <= Len(host)
        /\ Len(SubSeq(host, 1, hostRead)) = hostRead
        /\ queued \in Seq(WriteCmd)
    BY ReadSoFar
  <1>4. IF Forwards(queued) # <<>> THEN Forwards(queued)[1].bytes = masked
        ELSE /\ stdinPc = "send" => pending.bytes = masked
             /\ stdinPc = "pump" => hostRead = Len(host)
    BY <1>2 DEF FirstForwardInv, FirstLineAt
  <1>5. stdinPc = "first" => /\ Forwards(queued) = <<>> /\ firstFrame = SubSeq(host, 1, hostRead)
                             /\ NoNewline(SubSeq(host, 1, hostRead))
    BY DEF StreamInv, SessionInv, FirstFrameInv
  <1>6. SUFFICES Goal
    BY <1>1, <1>6
  <1>7. CASE StdinSend
    <2>1. /\ stdinPc = "send" /\ queued' = Append(queued, pending)
      BY <1>7 DEF StdinSend, Send
    <2>2. pending \in WriteCmd /\ pending.kind = "Forward"
      <3>1. pending \in WriteCmd
        BY <2>1 DEF SessionInv, TypeOK, StdinTypeOK
      <3>2. pending # NoCommand
        BY <3>1 DEF WriteCmd, NoCommand
      <3> QED
        BY <3>1, <3>2 DEF StreamInv
    <2>3. Forwards(queued) \in Seq(WriteCmd) /\ Forwards(queued') = Append(Forwards(queued), pending)
      BY <1>3, <2>1, <2>2, OfKindAppend DEF Forwards
    <2>4. Forwards(queued') # <<>>
      BY <2>2, <2>3, AppendProperties
    <2>5. CASE Forwards(queued) = <<>>
      <3>1. Forwards(queued')[1] = pending
        BY <2>3, <2>5
      <3> QED
        BY <1>4, <2>1, <2>4, <2>5, <3>1
    <2>6. CASE Forwards(queued) # <<>>
      <3>1. Len(Forwards(queued)) \in Nat \ {0}
        BY <2>3, <2>6, EmptySeq
      <3>2. 1 \in 1..Len(Forwards(queued))
        BY <3>1
      <3>3. Forwards(queued')[1] = Forwards(queued)[1]
        BY <2>2, <2>3, <3>2, AppendProperties
      <3> QED
        BY <1>4, <2>4, <2>6, <3>3
    <2> QED
      BY <2>5, <2>6
  <1>8. ASSUME ~StdinSend PROVE Forwards(queued') = Forwards(queued)
    BY <1>8, ForwardsStay
  <1>9. ASSUME NEW k \in 1..MaxFirstFrameBytes, ReadFirstFrame(k) PROVE Goal
    <2>1. /\ stdinPc = "first" /\ queued' = queued
          /\ \/ stdinPc' = "first"
             \/ /\ stdinPc' = "send" /\ pending' = HostCommand(MaskFrame(SubSeq(host, 1, hostRead')))
                /\ FirstLineAt(host, hostRead')
      BY <1>9, ReadFirst
    <2>2. CASE stdinPc' = "first"
      BY <1>5, <2>1, <2>2
    <2>3. CASE /\ stdinPc' = "send" /\ pending' = HostCommand(MaskFrame(SubSeq(host, 1, hostRead')))
               /\ FirstLineAt(host, hostRead')
      <3>1. i = hostRead'
        BY <1>2, <1>3, <2>3, OneFirstLine
      <3>2. pending'.bytes = masked
        BY <2>3, <3>1 DEF HostCommand
      <3> QED
        BY <1>5, <2>1, <2>3, <3>2
    <2> QED
      BY <2>1, <2>2, <2>3
  <1>10. CASE FirstFrameTooLong \/ FirstFrameEof
    <2>1. stdinPc = "first" /\ (Len(firstFrame) = MaxFirstFrameBytes \/ hostRead = Len(host))
      BY <1>10 DEF FirstFrameTooLong, FirstFrameEof, FirstFrameFull, Reading
    <2>2. i > hostRead
      BY <1>2, <1>5, <2>1, NoLineYet
    <2>3. hostRead = MaxFirstFrameBytes \/ hostRead = Len(host)
      BY <1>3, <1>5, <2>1
    <2> QED
      BY <1>2, <1>3, <2>2, <2>3
  <1>11. ASSUME NEW k \in 1..MaxFirstFrameBytes, PumpRead(k) PROVE Goal
    <2>1. stdinPc = "pump" /\ hostRead + k <= Len(host) /\ queued' = queued
      BY <1>11 DEF PumpRead, Reading, chanVars
    <2>2. k \in Nat /\ k >= 1
      BY <1>2
    <2>3. Forwards(queued) # <<>>
      BY <1>3, <1>4, <2>1, <2>2
    <2> QED
      BY <1>4, <2>1, <2>3
  <1>12. ASSUME ~StdinSend, stdinPc' \in {stdinPc, "stopped"}, pending' = pending, hostRead' = hostRead
         PROVE  Goal
    BY <1>4, <1>8, <1>12
  <1>13. CASE PumpEof \/ StdinReadFails \/ StdinSinkGone \/ StdinCancelled
    <2>1. stdinPc' = "stopped" /\ pending' = pending /\ hostRead' = hostRead
      BY <1>13 DEF PumpEof, StdinReadFails, StdinSinkGone, StdinCancelled, StopStdin
    <2>2. ~StdinSend
      BY <2>1 DEF StdinSend
    <2> QED
      BY <1>12, <2>1, <2>2
  <1>14. CASE Coordinator \/ Sink \/ AgentRead \/ AgentExit
    <2>1. stdinPc' = stdinPc /\ pending' = pending /\ hostRead' = hostRead
      BY <1>14, CoordinatorFrame, SinkFrame, AgentFrame
    <2>2. ~StdinSend
      BY <2>1 DEF StdinSend
    <2> QED
      BY <1>12, <2>1, <2>2
  <1> QED
    BY <1>7, <1>9, <1>10, <1>11, <1>13, <1>14 DEF Next, StdinTask

----------------------------------------------------------------------------
(* Masking.                                                                *)

LEMMA OneElement ==
    ASSUME NEW T, NEW s \in Seq(T), NEW m \in 1..Len(s)
    PROVE  SubSeq(s, m, m) = <<s[m]>>
  <1>1. /\ SubSeq(s, m, m) \in Seq(T) /\ Len(SubSeq(s, m, m)) = 1 /\ SubSeq(s, m, m)[1] = s[m]
    OBVIOUS
  <1>2. <<s[m]>> \in Seq(T) /\ Len(<<s[m]>>) = 1 /\ <<s[m]>>[1] = s[m]
    OBVIOUS
  <1>3. \A a, b \in Seq(T) : Len(a) = 1 /\ Len(b) = 1 /\ a[1] = b[1] => a = b
    <2> SUFFICES ASSUME NEW a \in Seq(T), NEW b \in Seq(T), Len(a) = 1, Len(b) = 1, a[1] = b[1]
                 PROVE  a = b
      OBVIOUS
    <2>1. \A j \in 1..Len(a) : a[j] = b[j]
      OBVIOUS
    <2> QED
      BY <2>1, SeqEqual
  <1> QED
    BY <1>1, <1>2, <1>3

LEMMA TwoElements ==
    ASSUME NEW T, NEW s \in Seq(T), NEW m \in Nat, m >= 1, m + 1 <= Len(s)
    PROVE  SubSeq(s, m, m + 1) = <<s[m], s[m + 1]>>
  <1>1. /\ SubSeq(s, m, m + 1) \in Seq(T) /\ Len(SubSeq(s, m, m + 1)) = 2
        /\ SubSeq(s, m, m + 1)[1] = s[m] /\ SubSeq(s, m, m + 1)[2] = s[m + 1]
    <2>1. PICK k \in Nat : k = m + 1
      OBVIOUS
    <2>2. SubSeq(s, m, k) \in Seq(T) /\ Len(SubSeq(s, m, k)) = 2
      BY <2>1
    <2>3. SubSeq(s, m, k)[1] = s[m]
      BY <2>1
    <2>4. SubSeq(s, m, k)[2] = s[m + 1]
      BY <2>1
    <2> QED
      BY <2>1, <2>2, <2>3, <2>4
  <1>2. s[m] \in T /\ s[m + 1] \in T
    OBVIOUS
  <1>3. /\ <<s[m], s[m + 1]>> \in Seq(T) /\ Len(<<s[m], s[m + 1]>>) = 2
        /\ <<s[m], s[m + 1]>>[1] = s[m] /\ <<s[m], s[m + 1]>>[2] = s[m + 1]
    BY <1>2
  <1>4. \A a, b \in Seq(T) : Len(a) = 2 /\ Len(b) = 2 /\ a[1] = b[1] /\ a[2] = b[2] => a = b
    <2> SUFFICES ASSUME NEW a \in Seq(T), NEW b \in Seq(T), Len(a) = 2, Len(b) = 2,
                        a[1] = b[1], a[2] = b[2]
                 PROVE  a = b
      OBVIOUS
    <2>1. \A j \in 1..Len(a) : a[j] = b[j]
      OBVIOUS
    <2> QED
      BY <2>1, SeqEqual
  <1> QED
    BY <1>1, <1>3, <1>4

\* A masked line is a line with the ending and the method it had, and nothing in
\* it is left to mask.
LEMMA MaskedLine ==
    ASSUME NEW h \in HostStreams, NEW i \in 1..Len(h), FirstNewlineAt(h, i)
    PROVE  LET line == SubSeq(h, 1, i)
               sent == MaskFrame(line)
               message == HostParse(Payload(sent))
           IN  /\ IsLine(sent) /\ LineEnding(sent) = LineEnding(line)
               /\ message.method = HostParse(Payload(line)).method
               /\ ~Maskable(message)
  <1> DEFINE line == SubSeq(h, 1, i)
             message == HostParse(Payload(line))
             removed == RemoveMaskedCapabilities(message)
             text == HostSerialize(removed)
             ending == LineEnding(line)
  <1>1. h \in Seq(HostByte) /\ Len(h) \in Nat /\ i \in Nat /\ 1 <= i /\ i <= Len(h)
    BY HostStreamsAssumption
  <1>2. line \in Seq(HostByte) /\ Len(line) = i /\ \A j \in 1..i : line[j] = h[j]
    BY <1>1
  <1>3. line[i] = NL /\ \A j \in 1..(i - 1) : line[j] # NL
    BY <1>1, <1>2 DEF FirstNewlineAt
  <1>4. IsLine(line)
    <2> HIDE DEF line
    <2> QED
      BY <1>1, <1>2, <1>3, EmptySeq DEF IsLine, FirstNewlineAt
  <1>5. CASE ~Maskable(message)
    BY <1>4, <1>5 DEF MaskFrame
  <1>6. CASE Maskable(message)
    <2>1. MaskFrame(line) = text \o ending
      BY <1>6 DEF MaskFrame
    <2>2. HostParse(text) = removed /\ text \in Seq(HostByte) /\ \A j \in 1..Len(text) : text[j] \notin {NL, CR}
      BY <1>6, SerializeAssumption
    <2>3. ending \in {<<CR, NL>>, <<NL>>}
      <3>1. EndsWith(line, <<NL>>)
        <4>1. Len(<<NL>>) = 1 /\ i - 1 + 1 = i
          BY <1>1
        <4>2. SubSeq(line, i, i) = <<NL>>
          <5> HIDE DEF line
          <5>1. i \in 1..Len(line)
            BY <1>1, <1>2
          <5> QED
            BY <1>2, <1>3, <5>1, OneElement
        <4> QED
          BY <1>1, <1>2, <4>1, <4>2 DEF EndsWith
      <3> QED
        BY <3>1 DEF LineEnding
    <2> DEFINE T == HostByte \cup {NL, CR}
               sent == text \o ending
               n == Len(text)
    <2>4. text \in Seq(T) /\ ending \in Seq(T) /\ n \in Nat
      <3>1. text \in Seq(T)
        <4>1. HostByte \subseteq T
          OBVIOUS
        <4> HIDE DEF T, text
        <4> QED
          BY <2>2, <4>1, SeqMonotonic
      <3>2. <<CR, NL>> \in Seq(T) /\ <<NL>> \in Seq(T)
        OBVIOUS
      <3> HIDE DEF T, text, ending
      <3> QED
        BY <2>3, <3>1, <3>2, LenProperties
    <2>5. /\ sent \in Seq(T) /\ Len(sent) = n + Len(ending)
          /\ \A j \in 1..n : sent[j] = text[j]
          /\ \A j \in 1..Len(ending) : sent[n + j] = ending[j]
      <3>1. \A a, b \in Seq(T) : /\ a \o b \in Seq(T) /\ Len(a \o b) = Len(a) + Len(b)
                                 /\ \A j \in 1..Len(a) : (a \o b)[j] = a[j]
                                 /\ \A j \in 1..Len(b) : (a \o b)[Len(a) + j] = b[j]
        BY ConcatProperties
      <3> HIDE DEF T, text, ending
      <3> QED
        BY <2>4, <3>1
    <2>6. IsLine(sent) /\ LineEnding(sent) = ending /\ Payload(sent) = text
      <3> HIDE DEF sent, text, ending, T, n
      <3>1. CASE ending = <<CR, NL>>
        <4>1. /\ Len(ending) = 2 /\ Len(sent) = n + 2 /\ sent[n + 1] = CR /\ sent[n + 2] = NL
          <5>1. Len(ending) = 2 /\ ending[1] = CR /\ ending[2] = NL
            BY <3>1
          <5> QED
            BY <2>5, <5>1
        <4>2. EndsWith(sent, <<CR, NL>>)
          <5>1. SubSeq(sent, n + 1, n + 2) = <<CR, NL>>
            <6>1. PICK m \in Nat : m = n + 1
              BY <2>4
            <6>2. m >= 1 /\ m + 1 <= Len(sent) /\ m + 1 = n + 2
              BY <2>4, <4>1, <6>1
            <6> QED
              BY <2>5, <4>1, <6>1, <6>2, TwoElements
          <5>2. (n + 2) - 2 + 1 = n + 1 /\ Len(<<CR, NL>>) = 2 /\ n + 2 >= 2
            BY <2>4
          <5> QED
            BY <4>1, <5>1, <5>2 DEF EndsWith
        <4>3. LineEnding(sent) = ending
          BY <3>1, <4>2 DEF LineEnding
        <4>4. IsLine(sent)
          <5>1. \A j \in 1..(n + 1) : sent[j] # NL
            BY <2>2, <2>4, <2>5, <4>1, LineEndingAssumption DEF n
          <5> QED
            BY <2>4, <2>5, <4>1, <5>1, EmptySeq DEF IsLine, FirstNewlineAt
        <4>5. Payload(sent) = text
          <5>1. Payload(sent) = SubSeq(sent, 1, n)
            <6>1. Len(LineEnding(sent)) = 2
              BY <4>1, <4>3
            <6>2. Len(sent) - Len(LineEnding(sent)) = n
              BY <2>4, <4>1, <6>1
            <6> QED
              BY <6>2 DEF Payload
          <5>2. /\ SubSeq(sent, 1, n) \in Seq(T) /\ Len(SubSeq(sent, 1, n)) = n
                /\ \A j \in 1..n : SubSeq(sent, 1, n)[j] = sent[j]
            BY <2>4, <2>5, <4>1
          <5> QED
            BY <2>4, <2>5, <5>1, <5>2, SeqEqual DEF n
        <4> QED
          BY <4>3, <4>4, <4>5
      <3>2. CASE ending = <<NL>>
        <4>1. Len(ending) = 1 /\ Len(sent) = n + 1 /\ sent[n + 1] = NL
          <5>1. Len(ending) = 1 /\ ending[1] = NL
            BY <3>2
          <5> QED
            BY <2>5, <5>1
        <4>2. EndsWith(sent, <<NL>>)
          <5>1. SubSeq(sent, n + 1, n + 1) = <<NL>>
            <6>1. n + 1 \in 1..Len(sent)
              BY <2>4, <4>1
            <6> QED
              BY <2>5, <4>1, <6>1, OneElement
          <5>2. (n + 1) - 1 + 1 = n + 1 /\ Len(<<NL>>) = 1 /\ n + 1 >= 1
            BY <2>4
          <5> QED
            BY <4>1, <5>1, <5>2 DEF EndsWith
        <4>3. ~EndsWith(sent, <<CR, NL>>)
          <5> SUFFICES ASSUME EndsWith(sent, <<CR, NL>>) PROVE FALSE
            OBVIOUS
          <5>1. n >= 1 /\ SubSeq(sent, n, n + 1) = <<CR, NL>>
            <6>1. Len(<<CR, NL>>) = 2 /\ (n + 1) - 2 + 1 = n
              BY <2>4
            <6> QED
              BY <2>4, <4>1, <6>1 DEF EndsWith
          <5>2. SubSeq(sent, n, n + 1) = <<sent[n], sent[n + 1]>>
            BY <2>4, <2>5, <4>1, <5>1, TwoElements
          <5>3. sent[n] = CR
            BY <5>1, <5>2
          <5>4. n \in 1..n /\ sent[n] = text[n]
            BY <2>4, <2>5, <5>1
          <5> QED
            BY <2>2, <5>3, <5>4 DEF n
        <4>4. LineEnding(sent) = ending
          BY <3>2, <4>2, <4>3 DEF LineEnding
        <4>5. IsLine(sent)
          <5>1. \A j \in 1..n : sent[j] # NL
            BY <2>2, <2>4, <2>5 DEF n
          <5> QED
            BY <2>4, <2>5, <4>1, <5>1, EmptySeq DEF IsLine, FirstNewlineAt
        <4>6. Payload(sent) = text
          <5>1. Payload(sent) = SubSeq(sent, 1, n)
            <6>1. Len(LineEnding(sent)) = 1
              BY <4>1, <4>4
            <6>2. Len(sent) - Len(LineEnding(sent)) = n
              BY <2>4, <4>1, <6>1
            <6> QED
              BY <6>2 DEF Payload
          <5>2. /\ SubSeq(sent, 1, n) \in Seq(T) /\ Len(SubSeq(sent, 1, n)) = n
                /\ \A j \in 1..n : SubSeq(sent, 1, n)[j] = sent[j]
            BY <2>4, <2>5, <4>1
          <5> QED
            BY <2>4, <2>5, <5>1, <5>2, SeqEqual DEF n
        <4> QED
          BY <4>4, <4>5, <4>6
      <3> QED
        BY <2>3, <3>1, <3>2
    <2>7. removed.method = message.method /\ ~Maskable(removed)
      <3>1. removed = [message EXCEPT !.capabilities =
                          IF message.capabilities \ MaskedCapabilities = {} THEN NoCapabilities
                          ELSE message.capabilities \ MaskedCapabilities]
        BY DEF RemoveMaskedCapabilities
      <3>2. message = [parses |-> message.parses, method |-> message.method,
                       capabilities |-> message.capabilities]
        BY SerializeAssumption
      <3> DEFINE kept == message.capabilities \ MaskedCapabilities
                 left == IF kept = {} THEN NoCapabilities ELSE kept
      <3>3. removed.method = message.method /\ removed.capabilities = left
        <4> HIDE DEF message, removed, MaskedCapabilities
        <4> QED
          BY <3>1, <3>2
      <3>4. left = NoCapabilities \/ left \cap MaskedCapabilities = {}
        OBVIOUS
      <3> HIDE DEF left
      <3> QED
        BY <3>3, <3>4 DEF Maskable
    <2> QED
      BY <2>1, <2>2, <2>6, <2>7
  <1> QED
    BY <1>5, <1>6

----------------------------------------------------------------------------
(* What the channel carries.                                               *)

LEMMA ContentInit == Init => ContentInv
  <1> SUFFICES ASSUME Init PROVE ContentInv
    OBVIOUS
  <1>1. /\ outputs = <<>> /\ next = 1 /\ queued = <<>> /\ pending = NoCommand /\ firstFrame = <<>>
        /\ stdinPc = "first" /\ stdinEnd = "running" /\ hostRead = 0 /\ host \in HostStreams
    BY DEF Init, FrameInit
  <1>2. \A kind : OfKind(kind, queued) = <<>>
    BY <1>1, OfKindEmpty
  <1>3. host \in Seq(HostByte) /\ SubSeq(host, 1, hostRead) = <<>>
    BY <1>1, HostStreamsAssumption
  <1>4. Sent = <<>>
    <2>1. HostForwards(queued) = <<>> /\ <<>> \in Seq(HostByte)
      BY <1>1, HostForwardsEmpty, EmptySeq
    <2> QED
      BY <1>1, <2>1, SentIs
  <1>5. StreamInv
    <2>1. NoNewline(firstFrame)
      BY <1>1, EmptySeq DEF NoNewline
    <2> QED
      BY <1>1, <1>2, <1>3, <1>4, <2>1 DEF StreamInv, SentIsRead, Forwards
  <1>6. FirstForwardInv
    BY <1>1, <1>2 DEF FirstForwardInv, Forwards
  <1>7. AnswersMatchDenials
    <2>1. Denied = <<>>
      <3>1. SubSeq(outputs, 1, next - 1) = <<>>
        BY <1>1
      <3> QED
        BY <3>1, OfKindEmpty DEF Denied
    <2>2. Answers(queued) = <<>>
      BY <1>2 DEF Answers
    <2> QED
      BY <2>1, <2>2, EmptySeq DEF AnswersMatchDenials
  <1> QED
    BY <1>5, <1>6, <1>7 DEF ContentInv

LEMMA ContentStutter ==
    ASSUME ContentInv, UNCHANGED vars
    PROVE  ContentInv'
  <1>1. /\ outputs' = outputs /\ next' = next /\ queued' = queued /\ pending' = pending
        /\ firstFrame' = firstFrame /\ stdinPc' = stdinPc /\ hostRead' = hostRead /\ host' = host
        /\ sinkPc' = sinkPc /\ stdinEnd' = stdinEnd
    BY DEF vars, frameVars, coordVars, chanVars, stdinVars, sinkVars
  <1>2. /\ Sent' = Sent /\ SentIsRead' = SentIsRead /\ Denied' = Denied
        /\ ReceiverAlive' = ReceiverAlive /\ PastFirstFrame' = PastFirstFrame
    BY <1>1, SentIs DEF SentIsRead, Denied, ReceiverAlive, PastFirstFrame
  <1>3. StreamInv'
    BY <1>1, <1>2 DEF ContentInv, StreamInv, Forwards
  <1>4. FirstForwardInv'
    BY <1>1 DEF ContentInv, FirstForwardInv, Forwards
  <1>5. AnswersMatchDenials'
    BY <1>1, <1>2 DEF ContentInv, AnswersMatchDenials, Answers
  <1> QED
    BY <1>3, <1>4, <1>5 DEF ContentInv

LEMMA ContentStep == SessionInv /\ ContentInv /\ [Next]_vars => ContentInv'
  <1> SUFFICES ASSUME SessionInv, ContentInv, [Next]_vars PROVE ContentInv'
    OBVIOUS
  <1>1. CASE UNCHANGED vars
    BY <1>1, ContentStutter
  <1>2. CASE Next
    <2>1. StreamInv /\ FirstForwardInv /\ AnswersMatchDenials
      BY DEF ContentInv
    <2>2. StdinSend => pending.kind = "Forward"
      <3> SUFFICES ASSUME StdinSend PROVE pending.kind = "Forward"
        OBVIOUS
      <3>1. pending \in WriteCmd
        BY DEF StdinSend, SessionInv, TypeOK, StdinTypeOK
      <3>2. pending # NoCommand
        BY <3>1 DEF WriteCmd, NoCommand
      <3> QED
        BY <2>1, <3>2 DEF StreamInv
    <2> QED
      BY <1>2, <2>1, <2>2, StreamStep, FirstForwardStep, AnswersStep DEF ContentInv
  <1> QED
    BY <1>1, <1>2

\* What is in the channel is what was denied and what the host sent, for every
\* interleaving of the two producers with the sink: the two histories below and
\* the masking of the first line are the three parts of one inductive invariant
\* (acp_runtime.rs:191-253, protocol_stdin.rs:40-158).
THEOREM ContentInvariant == Spec => []ContentInv
  BY SessionInvariant, ContentInit, ContentStep, PTL DEF Spec

\* Every denied request dispatched is answered exactly once, with its own id and
\* line ending and in order, while the sink lives, and nothing else is ever
\* answered (acp_runtime.rs:211-237).
THEOREM AnswersAreOfDenials == Spec => []AnswersMatchDenials
  <1>1. ContentInv => AnswersMatchDenials
    BY DEF ContentInv
  <1> QED
    BY <1>1, ContentInvariant, PTL

\* What the host's pieces in the queue are of the host's whole stream.
LEMMA QueuedIsPrefix ==
    ASSUME SessionInv, StreamInv
    PROVE  IsPrefix(HostForwards(queued), Translated(host)) /\ Translated(host) \in Seq(HostByte)
  <1> DEFINE Read == SubSeq(host, 1, hostRead)
             held == IF pending = NoCommand THEN <<>> ELSE pending.bytes
  <1>1. /\ host \in Seq(HostByte) /\ Len(host) \in Nat /\ hostRead \in 0..Len(host)
        /\ hostRead \in Nat /\ hostRead <= Len(host)
        /\ \A i : FirstLineAt(host, i) => MaskFrame(SubSeq(host, 1, i)) \in Seq(HostByte)
        /\ HostForwards(queued) \in Seq(HostByte)
    BY ReadSoFar
  <1>2. Translated(host) \in Seq(HostByte)
    BY <1>1, TranslatedType
  <1>3. held \in Seq(HostByte) /\ Sent = HostForwards(queued) \o held
    <2>1. <<>> \in Seq(HostByte)
      BY EmptySeq
    <2>2. pending # NoCommand => pending.bytes \in Seq(HostByte)
      BY DEF StreamInv
    <2> QED
      BY <2>1, <2>2 DEF Sent
  <1>4. Sent \in Seq(HostByte) /\ IsPrefix(HostForwards(queued), Sent)
    <2> HIDE DEF held
    <2> QED
      BY <1>1, <1>3, PrefixOfJoin, ConcatProperties
  <1>5. CASE Sent = <<>>
    <2>1. Len(Sent) = 0 /\ Len(Translated(host)) \in Nat
      BY <1>2, <1>5
    <2>2. IsPrefix(Sent, Translated(host))
      <3>1. Len(Sent) <= Len(Translated(host)) /\ \A i \in 1..Len(Sent) : Sent[i] = Translated(host)[i]
        BY <2>1
      <3>2. \A a, b \in Seq(HostByte) :
               Len(a) <= Len(b) /\ (\A i \in 1..Len(a) : a[i] = b[i]) => IsPrefix(a, b)
        BY PrefixIs
      <3> QED
        BY <1>2, <1>4, <3>1, <3>2
    <2> QED
      BY <1>1, <1>2, <1>4, <2>2, PrefixTransitive
  <1>6. CASE Sent # <<>>
    <2>1. PastFirstFrame /\ Sent = Translated(Read)
      <3>1. stdinPc \in {"first", "pump", "send", "stopped"}
        BY DEF SessionInv, TypeOK, StdinTypeOK
      <3> QED
        BY <1>6, <3>1 DEF StreamInv
    <2>2. \/ hostRead = Len(host)
          \/ hostRead >= MaxFirstFrameBytes \/ \E i : FirstLineAt(host, i) /\ i <= hostRead
      BY <1>1, <2>1 DEF PastFirstFrame, FirstLineAt
    <2>3. SubSeq(host, 1, Len(host)) = host
      BY <1>1
    <2>4. CASE hostRead = Len(host)
      BY <1>2, <1>4, <2>1, <2>3, <2>4
    <2>5. CASE hostRead >= MaxFirstFrameBytes \/ \E i : FirstLineAt(host, i) /\ i <= hostRead
      <3>1. Len(host) \in hostRead..Len(host)
        BY <1>1
      <3>2. Translated(SubSeq(host, 1, Len(host))) = Translated(Read) \o SubSeq(host, hostRead + 1, Len(host))
        BY <1>1, <2>5, <3>1, TranslatedGrows
      <3>3. SubSeq(host, hostRead + 1, Len(host)) \in Seq(HostByte)
        BY <1>1
      <3>4. IsPrefix(Sent, Translated(host))
        BY <1>4, <2>1, <2>3, <3>2, <3>3, PrefixOfJoin
      <3> QED
        BY <1>1, <1>2, <1>4, <3>4, PrefixTransitive
    <2> QED
      BY <2>2, <2>4, <2>5
  <1> QED
    BY <1>2, <1>5, <1>6

\* However the host's bytes arrive, what is queued and held is the translation of
\* what was read, no byte lost, repeated or moved where the pump takes over from
\* the first frame; and however the channel interleaves the host's pieces with the
\* answers, what the agent has been given of them is a prefix of the translation
\* of all that the host sends (protocol_stdin.rs:40-102, acp_runtime.rs:76-110).
THEOREM HostStreamIsFaithful == Spec => []HostStreamFaithful
  <1>1. SessionInv /\ ContentInv => HostStreamFaithful
    <2> SUFFICES ASSUME SessionInv, ContentInv PROVE HostStreamFaithful
      OBVIOUS
    <2>1. SentIsRead
      BY DEF ContentInv, StreamInv
    <2>2. /\ queued \in Seq(WriteCmd) /\ HostForwards(queued) \in Seq(HostByte)
          /\ \A c \in WriteCmd : c.kind = "Forward" => c.bytes \in Seq(HostByte)
      BY ReadSoFar
    <2>3. delivered \in Seq(WriteCmd) /\ IsPrefix(delivered, queued)
      BY DEF SessionInv, TypeOK, SinkTypeOK, InputInOrder
    <2>4. HostCommand(<<>>) \in WriteCmd
      BY EmptySeq, HostCommandType
    <2>5. HostForwards(delivered) \in Seq(HostByte)
      BY <2>2, <2>3, <2>4, HostForwardsAppend
    <2>6. IsPrefix(HostForwards(delivered), HostForwards(queued))
      BY <2>2, <2>3, <2>4, HostForwardsPrefix
    <2>7. IsPrefix(HostForwards(queued), Translated(host)) /\ Translated(host) \in Seq(HostByte)
      BY QueuedIsPrefix DEF ContentInv
    <2> QED
      BY <2>1, <2>2, <2>5, <2>6, <2>7, PrefixTransitive DEF HostStreamFaithful
  <1> QED
    BY <1>1, SessionInvariant, ContentInvariant, PTL

\* A session that reports success has lost nothing, whatever timed out on the way:
\* every output was dispatched, and unless the agent closed its stdin it was given
\* every answer and every byte of the host.  That container stdin was then shut it
\* does not say: the code only logs a shutdown that fails (protocol.rs:312-338,
\* acp_runtime.rs:99-111).
THEOREM SuccessMeansComplete == Spec => []SuccessIsComplete
  <1> DEFINE requests == OfKind("BlockRequest", outputs)
             Answered == Answers(delivered) = [k \in 1..Len(requests) |-> Synthesized(Response(requests[k]))]
  <1>1. SessionInv /\ ContentInv => SuccessIsComplete
    <2> SUFFICES ASSUME SessionInv, ContentInv, result = "ok"
                 PROVE  /\ outputOk /\ next > Len(outputs)
                        /\ ~stdinDisabled => stdinEnd = "eof" /\ hostRead = Len(host)
                        /\ inputAlive => /\ delivered = queued
                                         /\ Answered
                                         /\ ~stdinDisabled => HostForwards(delivered) = Translated(host)
      BY DEF SuccessIsComplete
    <2>1. outputOk /\ pc = "done" /\ sinkPc = "done" /\ SettledOk /\ next > Len(outputs)
      BY DEF SessionInv, CoordinatorInv
    <2>3. ~stdinDisabled => stdinEnd = "eof"
      BY <2>1 DEF SessionInv, StdinInv, SettledOk, ReceiverAlive, TypeOK, StdinTypeOK
    <2>4. stdinEnd = "eof" => hostRead = Len(host)
      BY DEF SessionInv, StdinInv
    <2>5. inputAlive => delivered = queued
      BY <2>1, DrainedIsDelivered
    <2>6. ASSUME delivered = queued PROVE Answered
      <3>1. Denied = requests
        <4>1. outputs \in Seq([kind : OutputKinds, bytes : Seq(Byte)])
          BY DEF SessionInv, FrameInv, FrameTypeOK
        <4>2. next = Len(outputs) + 1 /\ Len(outputs) \in Nat
          BY <2>1, <4>1 DEF SessionInv, TypeOK, CoordinatorTypeOK
        <4>3. SubSeq(outputs, 1, next - 1) = outputs
          BY <4>1, <4>2
        <4> QED
          BY <4>3 DEF Denied
      <3>2. /\ Len(Answers(queued)) = Len(requests)
            /\ \A k \in 1..Len(Answers(queued)) : Answers(queued)[k] = Synthesized(Response(requests[k]))
        BY <2>1, <3>1 DEF ContentInv, AnswersMatchDenials, ReceiverAlive
      <3>3. Answers(queued) \in Seq(WriteCmd)
        <4>1. queued \in Seq(WriteCmd) /\ HostCommand(<<>>) \in WriteCmd
          BY EmptySeq, HostCommandType, ReadSoFar
        <4> QED
          BY <4>1, OfKindAppend DEF Answers
      <3>4. Answers(queued) = [k \in 1..Len(Answers(queued)) |-> Answers(queued)[k]]
        BY <3>3
      <3> HIDE DEF requests
      <3> QED
        BY <2>6, <3>2, <3>4
    <2>7. ASSUME delivered = queued, ~stdinDisabled PROVE HostForwards(delivered) = Translated(host)
      <3>1. stdinEnd = "eof" /\ hostRead = Len(host)
        BY <2>3, <2>4, <2>7
      <3>2. pending = NoCommand /\ Sent = Translated(SubSeq(host, 1, hostRead))
        BY <3>1 DEF ContentInv, StreamInv
      <3>3. host \in Seq(HostByte) /\ HostForwards(queued) \in Seq(HostByte)
        BY ReadSoFar
      <3>4. SubSeq(host, 1, hostRead) = host
        BY <3>1, <3>3
      <3>5. Sent = HostForwards(queued)
        BY <3>2, <3>3, SentIs
      <3> QED
        BY <2>7, <3>2, <3>4, <3>5
    <2> HIDE DEF Answered
    <2> QED
      BY <2>1, <2>3, <2>4, <2>5, <2>6, <2>7
  <1> QED
    BY <1>1, SessionInvariant, ContentInvariant, PTL

\* The agent never sees an initialize line within the limit that still offers a
\* masked capability, nor one cut in two or without its line ending
\* (acp_helpers.rs:198-280).
THEOREM InitializeIsMasked == Spec => []InitializeMasked
  <1>1. SessionInv /\ ContentInv => InitializeMasked
    <2> SUFFICES ASSUME SessionInv, ContentInv, Forwards(queued) # <<>>, NEW i \in 1..Len(host),
                        i <= MaxFirstFrameBytes, FirstNewlineAt(host, i)
                 PROVE  LET line == SubSeq(host, 1, i)
                            sent == Forwards(queued)[1].bytes
                            message == HostParse(Payload(sent))
                        IN  /\ IsLine(sent) /\ LineEnding(sent) = LineEnding(line)
                            /\ message.method = HostParse(Payload(line)).method
                            /\ ~Maskable(message)
      BY DEF InitializeMasked
    <2>1. Forwards(queued)[1].bytes = MaskFrame(SubSeq(host, 1, i))
      BY DEF ContentInv, FirstForwardInv
    <2>2. host \in HostStreams
      BY DEF SessionInv, FirstFrameInv
    <2> QED
      BY <2>1, <2>2, MaskedLine
  <1> QED
    BY <1>1, SessionInvariant, ContentInvariant, PTL

----------------------------------------------------------------------------
(* The session implements its contract.                                    *)

\* The mailbox holds commands, and one more of them than the channel.
LEMMA MailboxType ==
    ASSUME SessionInv
    PROVE  /\ chan \in Seq(WriteCmd) /\ InFlight \in Seq(WriteCmd) /\ Mailbox \in Seq(WriteCmd)
           /\ Len(InFlight) <= 1 /\ Len(chan) <= Capacity /\ Capacity \in Nat
           /\ ~InputBroken => Mailbox = InFlight \o chan
           /\ InputBroken => Mailbox = <<>>
  <1>1. /\ chan \in Seq(WriteCmd) /\ Len(chan) <= Capacity /\ Capacity \in Nat
        /\ sinkPc = "write" => sinkCommand \in WriteCmd
    BY SessionAssumption DEF SessionInv, TypeOK, ChannelTypeOK, SinkTypeOK
  <1>2. InFlight \in Seq(WriteCmd) /\ Len(InFlight) <= 1
    BY <1>1 DEF InFlight
  <1>3. InFlight \o chan \in Seq(WriteCmd)
    BY <1>1, <1>2, ConcatProperties
  <1> QED
    BY <1>1, <1>2, <1>3 DEF Mailbox

LEMMA MailboxStays ==
    ASSUME chan' = chan, sinkPc' = sinkPc, sinkCommand' = sinkCommand, inputAlive' = inputAlive,
           inputShut' = inputShut
    PROVE  Mailbox' = Mailbox /\ InputBroken' = InputBroken
  BY DEF Mailbox, InputBroken, ReceiverAlive, InFlight

\* What a sender queues is the last in the mailbox, which had room for it.
LEMMA MailboxTakes ==
    ASSUME SessionInv, NEW command \in WriteCmd, Queues(command)
    PROVE  /\ InputBroken' = InputBroken /\ inputShut' = inputShut /\ delivered' = delivered
           /\ InputBroken => Mailbox' = Mailbox
           /\ ~InputBroken => Mailbox' = Append(Mailbox, command) /\ Len(Mailbox) < Capacity + 1
  <1>1. /\ chan' = Append(chan, command) /\ Len(chan) < Capacity
        /\ sinkPc' = sinkPc /\ sinkCommand' = sinkCommand /\ inputAlive' = inputAlive
        /\ inputShut' = inputShut /\ delivered' = delivered
    BY DEF Queues, Send
  <1>2. InFlight' = InFlight /\ InputBroken' = InputBroken
    BY <1>1 DEF InFlight, InputBroken, ReceiverAlive
  <1>3. PICK held \in Seq(WriteCmd), rest \in Seq(WriteCmd) :
          held = InFlight /\ rest = chan /\ Len(held) <= 1 /\ Len(rest) < Capacity
    BY <1>1, MailboxType
  <1>4. held \o Append(rest, command) = Append(held \o rest, command)
    <2>1. <<command>> \in Seq(WriteCmd) /\ held \o rest \in Seq(WriteCmd)
      BY ConcatProperties
    <2>2. \A q \in Seq(WriteCmd) : Append(q, command) = q \o <<command>>
      OBVIOUS
    <2>3. PICK tail \in Seq(WriteCmd) : tail = <<command>>
      BY <2>1
    <2>4. (held \o rest) \o tail = held \o (rest \o tail)
      BY ConcatAssociative
    <2> QED
      BY <2>1, <2>2, <2>3, <2>4
  <1>5. Len(held \o rest) < Capacity + 1
    <2>1. Len(held \o rest) = Len(held) + Len(rest) /\ Len(held) \in Nat /\ Len(rest) \in Nat
      BY ConcatProperties
    <2> QED
      BY <1>3, <2>1, MailboxType
  <1> QED
    BY <1>1, <1>2, <1>3, <1>4, <1>5 DEF Mailbox

\* The session as its contract sees it does not change.
Unseen ==
    /\ outputs' = outputs /\ next' = next /\ Mailbox' = Mailbox /\ delivered' = delivered
    /\ InputBroken' = InputBroken /\ inputShut' = inputShut /\ result' = result
    /\ (pc' \in {"recv", "dispatch"}) = (pc \in {"recv", "dispatch"})

LEMMA UnseenStutters == Unseen => UNCHANGED Contract!contractVars
  BY DEF Unseen, Contract!contractVars, Contract!inputVars, Report

\* What the coordinator's steps other than dispatching leave alone.
LEMMA CoordinatorMailbox ==
    ASSUME Coordinator, chan' = chan
    PROVE  /\ Mailbox' = Mailbox /\ InputBroken' = InputBroken /\ delivered' = delivered
           /\ inputShut' = inputShut
  BY CoordinatorFrame, MailboxStays

\* A frame that is cut is judged.
LEMMA JudgeStep ==
    ASSUME SessionInv, ScanChunk \/ \E k \in 1..MaxChunkBytes : RecvChunk(k)
    PROVE  Contract!Judge \/ Unseen
  <1>1. Coordinator /\ chan' = chan /\ next' = next /\ result' = result
    BY DEF Coordinator, ScanChunk, RecvChunk, chanVars
  <1>2. Coordinator => Next
    BY DEF Next
  <1>3. pc \in {"recv", "dispatch"} /\ pc' \in {"recv", "dispatch"}
    <2>1. CASE ScanChunk
      <3>1. pc = "dispatch"
        BY <2>1, ScanningChunk DEF SessionInv, CoordinatorInv
      <3> QED
        BY <2>1, <3>1 DEF ScanChunk
    <2>2. CASE ~ScanChunk
      BY <2>2 DEF RecvChunk
    <2> QED
      BY <2>1, <2>2
  <1>4. outputs' = outputs \/ \E o : outputs' = Append(outputs, o)
    BY DEF RecvChunk, Ingest, IngestRaw, Emit, ScanChunk, Scan, CompleteFrame, BufferTail, OverflowTail
  <1>5. ASSUME NEW o, outputs' = Append(outputs, o) PROVE Contract!OneMore(outputs, outputs')
    <2>1. PICK T : outputs \in Seq(T) /\ o \in T
      <3>1. outputs \in Seq([kind : OutputKinds, bytes : Seq(Byte)] \cup {o})
        BY SeqMonotonic DEF SessionInv, FrameInv, FrameTypeOK
      <3> QED
        BY <3>1
    <2>2. Len(outputs') = Len(outputs) + 1 /\ Len(outputs) \in Nat
      BY <1>5, <2>1
    <2>3. IsPrefix(outputs, outputs)
      BY <2>2 DEF IsPrefix
    <2>4. IsPrefix(outputs, outputs')
      BY <1>5, <2>1, <2>3, PrefixOfAppend
    <2> QED
      BY <2>2, <2>4 DEF Contract!OneMore, Contract!IsPrefix, IsPrefix
  <1>6. CASE outputs' = outputs
    BY <1>1, <1>3, <1>6, CoordinatorMailbox DEF Unseen
  <1>7. CASE outputs' # outputs
    <2>1. Contract!OneMore(outputs, outputs')
      BY <1>4, <1>5, <1>7
    <2> QED
      BY <1>1, <1>3, <2>1, CoordinatorMailbox DEF Contract!Judge, Contract!inputVars, Report
  <1> QED
    BY <1>6, <1>7

\* An output that is dispatched is acted on, and a denial is answered in the mailbox.
LEMMA ActStep ==
    ASSUME SessionInv, Dispatch
    PROVE  Contract!Act
  <1>1. /\ pc = "dispatch" /\ next <= Len(outputs) /\ next' = next + 1
        /\ outputs' = outputs /\ pc' = pc /\ result' = result
    BY DEF Dispatch, DispatchForward, DispatchNotification, DispatchRequest, DispatchRequestSinkGone,
           Dispatching, frameVars
  <1>2. next \in Nat /\ Len(outputs) \in Nat /\ next \in 1..Len(outputs)
    <2>1. outputs \in Seq([kind : OutputKinds, bytes : Seq(Byte)]) /\ next \in 1..(Len(outputs) + 1)
      BY DEF SessionInv, FrameInv, FrameTypeOK, TypeOK, CoordinatorTypeOK
    <2>2. Len(outputs) \in Nat
      BY <2>1
    <2> QED
      BY <1>1, <2>1, <2>2
  <1>3. next - 1 < Len(outputs) /\ next' - 1 = (next - 1) + 1 /\ next' - 1 = next
    BY <1>1, <1>2
  <1>4. Coordinator
    BY DEF Coordinator
  <1>5. ~inputShut
    BY <1>1 DEF SessionInv, CoordinatorInv, SinkInv, NoSenders
  <1>6. /\ delivered' = delivered /\ InputBroken' = InputBroken /\ inputShut' = inputShut
        /\ IF outputs[next].kind = "BlockRequest" /\ ~InputBroken
           THEN /\ Len(Mailbox) < Capacity + 1
                /\ Mailbox' = Append(Mailbox, AnswerTo(outputs[next]))
           ELSE Mailbox' = Mailbox
    <2>1. CASE DispatchRequest
      <3>1. AnswerTo(outputs[next]) \in WriteCmd
        BY <1>2 DEF AnswerTo, Synthesized, WriteCmd, Responses
      <3>2. Queues(AnswerTo(outputs[next]))
        BY <2>1 DEF DispatchRequest, Queues, sinkVars, AnswerTo
      <3>3. outputs[next].kind = "BlockRequest"
        BY <2>1 DEF DispatchRequest, Dispatching
      <3> QED
        BY <3>1, <3>2, <3>3, MailboxTakes
    <2>2. CASE DispatchRequestSinkGone
      <3>1. InputBroken /\ chan' = chan
        BY <1>5, <2>2 DEF DispatchRequestSinkGone, InputBroken, chanVars
      <3> QED
        BY <1>4, <3>1, CoordinatorMailbox
    <2>3. CASE DispatchForward \/ DispatchNotification
      <3>1. outputs[next].kind # "BlockRequest" /\ chan' = chan
        BY <2>3 DEF DispatchForward, DispatchNotification, Dispatching, chanVars
      <3> QED
        BY <1>4, <3>1, CoordinatorMailbox
    <2> QED
      BY <2>1, <2>2, <2>3 DEF Dispatch
  <1>7. /\ outputs'[next' - 1] = outputs[next]
        /\ Contract!Takes <=> ~InputBroken /\ Len(Mailbox) < Capacity + 1
    <2>1. Report # "ok"
      BY <1>1 DEF SessionInv, CoordinatorInv, Report
    <2> QED
      BY <1>1, <1>3, <1>5, <2>1 DEF Contract!Takes, Contract!Open
  <1> QED
    BY <1>1, <1>3, <1>5, <1>6, <1>7 DEF Contract!Act, Report

\* A success has acted on every output and leaves nothing in the mailbox.
LEMMA ConcludeStep ==
    ASSUME SessionInv, SettleJoin \/ SettleTimeout \/ AwaitSink
    PROVE  Contract!Succeed \/ Contract!Fail \/ Unseen
  <1>1. /\ Coordinator /\ chan' = chan /\ outputs' = outputs /\ next' = next
        /\ pc \in {"settle", "await"} /\ pc' \in {"await", "done"}
        /\ result' \in {result, "output failed", "stdin failed", "ok", "sink failed"}
    BY DEF Coordinator, SettleJoin, SettleTimeout, AwaitSink, Conclude, chanVars, frameVars
  <1>2. /\ Mailbox' = Mailbox /\ InputBroken' = InputBroken /\ delivered' = delivered
        /\ inputShut' = inputShut
    BY <1>1, CoordinatorMailbox
  <1>3. result = "none"
    BY <1>1 DEF SessionInv, CoordinatorInv
  <1>4. result' = "ok" => next - 1 = Len(outputs) /\ Mailbox = <<>>
    <2> SUFFICES ASSUME result' = "ok" PROVE next - 1 = Len(outputs) /\ Mailbox = <<>>
      OBVIOUS
    <2>1. AwaitSink /\ sinkPc = "done"
      BY <1>3 DEF SettleJoin, SettleTimeout, AwaitSink, Conclude
    <2>2. next > Len(outputs)
      BY <2>1 DEF AwaitSink, SessionInv, CoordinatorInv
    <2>3. next \in 1..(Len(outputs) + 1) /\ Len(outputs) \in Nat
      <3>1. /\ outputs \in Seq([kind : OutputKinds, bytes : Seq(Byte)])
            /\ next \in 1..(Len(outputs) + 1)
        BY DEF SessionInv, FrameInv, FrameTypeOK, TypeOK, CoordinatorTypeOK
      <3> QED
        BY <3>1
    <2>4. InFlight \o chan = <<>>
      <3>1. InFlight = <<>> /\ chan = <<>>
        BY <2>1 DEF InFlight, SessionInv, SinkInv
      <3>2. <<>> \o <<>> = <<>>
        OBVIOUS
      <3> QED
        BY <3>1, <3>2
    <2> QED
      BY <2>2, <2>3, <2>4 DEF Mailbox
  <1>5. CASE result' = result
    BY <1>1, <1>2, <1>5 DEF Unseen
  <1>6. CASE result' = "ok"
    BY <1>1, <1>2, <1>3, <1>4, <1>6 DEF Contract!Succeed, Contract!inputVars, Report
  <1>7. CASE result' \in {"output failed", "stdin failed", "sink failed"}
    <2>1. Report = "none" /\ Report' = "failed"
      BY <1>3, <1>7 DEF Report
    <2>2. pc \notin {"recv", "dispatch"} /\ pc' \notin {"recv", "dispatch"}
      BY <1>1
    <2>3. (pc' \in {"recv", "dispatch"}) = (pc \in {"recv", "dispatch"})
      BY <2>2
    <2> QED
      BY <1>1, <1>2, <1>3, <2>1, <2>2, <2>3 DEF Contract!Fail, Contract!inputVars
  <1> QED
    BY <1>1, <1>5, <1>6, <1>7

\* Every other step of the coordinator.
LEMMA CloseStep ==
    ASSUME SessionInv, HostStdoutFails \/ EndChunk \/ OutputFails \/ OutputEnds \/ CloseAdapter
    PROVE  Contract!StopListening \/ Unseen
  <1>1. /\ Coordinator /\ chan' = chan /\ outputs' = outputs /\ next' = next /\ result' = result
    BY DEF Coordinator, HostStdoutFails, EndChunk, OutputFails, OutputEnds, CloseAdapter, Finish,
           chanVars, frameVars
  <1>2. /\ Mailbox' = Mailbox /\ InputBroken' = InputBroken /\ delivered' = delivered
        /\ inputShut' = inputShut
    BY <1>1, CoordinatorMailbox
  <1>3. CASE HostStdoutFails \/ OutputFails \/ OutputEnds
    <2>1. pc \in {"recv", "dispatch"} /\ pc' = "finish"
      BY <1>3 DEF HostStdoutFails, OutputFails, OutputEnds, Dispatching
    <2> QED
      BY <1>1, <1>2, <2>1 DEF Contract!StopListening, Contract!inputVars, Report
  <1>4. CASE EndChunk \/ CloseAdapter
    <2>1. \/ pc = "dispatch" /\ pc' = "recv"
          \/ pc = "finish" /\ pc' = "settle"
      BY <1>4 DEF EndChunk, CloseAdapter
    <2> QED
      BY <1>1, <1>2, <2>1 DEF Unseen
  <1> QED
    BY <1>3, <1>4

\* The stdin task puts a piece into the mailbox, or is not seen.
LEMMA RelayStep ==
    ASSUME SessionInv, ContentInv, StdinTask
    PROVE  Contract!Relay \/ Unseen
  <1>1. /\ stdinPc # "stopped" /\ outputs' = outputs /\ next' = next /\ pc' = pc /\ result' = result
        /\ inputShut' = inputShut /\ delivered' = delivered
    BY StdinTaskFrame
  <1>2. ~inputShut
    BY <1>1 DEF SessionInv, SinkInv, NoSenders
  <1>3. CASE StdinSend
    <2>1. /\ pending \in WriteCmd /\ pending.kind = "Forward"
      <3>1. pending \in WriteCmd
        BY <1>3 DEF StdinSend, SessionInv, TypeOK, StdinTypeOK
      <3>2. pending # NoCommand
        BY <3>1 DEF WriteCmd, NoCommand
      <3> QED
        BY <3>1, <3>2 DEF ContentInv, StreamInv
    <2>2. Queues(pending)
      BY <1>3 DEF StdinSend, Queues, sinkVars
    <2>3. /\ InputBroken' = InputBroken
          /\ InputBroken => Mailbox' = Mailbox
          /\ ~InputBroken => Mailbox' = Append(Mailbox, pending) /\ Len(Mailbox) < Capacity + 1
      BY <2>1, <2>2, MailboxTakes
    <2>4. CASE InputBroken
      BY <1>1, <2>3, <2>4 DEF Unseen
    <2>5. CASE ~InputBroken
      <3>1. PICK box \in Seq(WriteCmd), command \in WriteCmd :
              box = Mailbox /\ command = pending /\ command.kind = "Forward"
        BY <2>1, MailboxType
      <3>2. Mailbox' = Append(box, command)
        BY <2>3, <2>5, <3>1
      <3>3. /\ Len(Append(box, command)) = Len(box) + 1 /\ Len(box) \in Nat
            /\ Append(box, command)[Len(box) + 1] = command
        OBVIOUS
      <3>4. Contract!Last(Mailbox').kind = "Forward"
        BY <3>1, <3>2, <3>3 DEF Contract!Last
      <3>5. Contract!OneMore(Mailbox, Mailbox')
        <4>1. IsPrefix(box, box)
          BY <3>3 DEF IsPrefix
        <4>2. IsPrefix(box, Append(box, command))
          BY <4>1, PrefixOfAppend
        <4> QED
          BY <3>1, <3>2, <3>3, <4>2 DEF Contract!OneMore, Contract!IsPrefix, IsPrefix
      <3>6. Contract!Takes
        <4>1. sinkPc # "done"
          BY <1>1 DEF SessionInv, SinkInv, NoSenders
        <4>2. Report # "ok"
          BY <4>1 DEF SessionInv, CoordinatorInv, Report
        <4> QED
          BY <1>2, <2>3, <2>5, <4>2 DEF Contract!Takes, Contract!Open
      <3> QED
        BY <1>1, <2>3, <3>4, <3>5, <3>6 DEF Contract!Relay, Report
    <2> QED
      BY <2>4, <2>5
  <1>4. CASE ~StdinSend
    <2>1. chan' = chan
      BY <1>4 DEF StdinTask, ReadFirstFrame, PumpRead, FirstFrameTooLong, FirstFrameEof, PumpEof,
                  StdinReadFails, StdinSinkGone, StdinCancelled, StopStdin, chanVars
    <2> QED
      BY <1>1, <2>1, StdinTaskFrame, MailboxStays DEF Unseen
  <1> QED
    BY <1>3, <1>4

\* The sink hands the mailbox over in its order, loses it, or shuts container stdin.
LEMMA GiveStep ==
    ASSUME SessionInv, Sink
    PROVE  Contract!Give \/ Contract!Break \/ Contract!Shut \/ Unseen
  <1>1. /\ sinkPc \in {"recv", "write", "shutdown"} /\ outputs' = outputs /\ next' = next /\ pc' = pc
        /\ result' = result
    BY SinkFrame
  <1>2. /\ sinkPc # "shutdown" => ~inputShut
        /\ Report # "ok" /\ Report' = Report
    BY <1>1 DEF SessionInv, SinkInv, CoordinatorInv, Report
  <1>3. CASE SinkRecv
    <2>1. /\ sinkPc = "recv" /\ chan # <<>> /\ chan' = Tail(chan) /\ inputAlive' = inputAlive
          /\ inputShut' = inputShut /\ delivered' = delivered
          /\ inputAlive => sinkPc' = "write" /\ sinkCommand' = Head(chan)
          /\ ~inputAlive => sinkPc' = sinkPc
      BY <1>3 DEF SinkRecv
    <2>2. InputBroken' = InputBroken /\ (InputBroken <=> ~inputAlive)
      BY <1>2, <2>1 DEF InputBroken, ReceiverAlive, SessionInv, TypeOK, SinkTypeOK
    <2>3. inputAlive => InFlight = <<>> /\ InFlight' = <<Head(chan)>>
      BY <2>1 DEF InFlight
    <2>4. <<>> \o chan = <<Head(chan)>> \o Tail(chan)
      BY <2>1, MailboxType
    <2>5. Mailbox' = Mailbox
      BY <2>1, <2>2, <2>3, <2>4 DEF Mailbox
    <2> QED
      BY <1>1, <2>1, <2>2, <2>5 DEF Unseen
  <1>4. CASE SinkWriteOk
    <2>1. /\ sinkPc = "write" /\ sinkPc' = "recv" /\ chan' = chan /\ inputAlive' = inputAlive
          /\ inputShut' = inputShut /\ delivered' = Append(delivered, sinkCommand)
      BY <1>4 DEF SinkWriteOk, chanVars
    <2>2. inputAlive /\ ~InputBroken /\ ~InputBroken'
      BY <2>1 DEF SessionInv, SinkInv, InputBroken, ReceiverAlive
    <2>3. Mailbox = <<sinkCommand>> \o chan /\ Mailbox' = <<>> \o chan
      BY <2>1, <2>2 DEF Mailbox, InFlight
    <2>4. PICK rest \in Seq(WriteCmd), command \in WriteCmd : rest = chan /\ command = sinkCommand
      BY <2>1, MailboxType DEF SessionInv, TypeOK, SinkTypeOK
    <2>5. /\ Head(<<command>> \o rest) = command /\ Tail(<<command>> \o rest) = rest
          /\ <<command>> \o rest # <<>> /\ <<>> \o rest = rest
      OBVIOUS
    <2>6. Mailbox # <<>> /\ delivered' = Append(delivered, Head(Mailbox)) /\ Mailbox' = Tail(Mailbox)
      BY <2>1, <2>3, <2>4, <2>5
    <2>7. InputBroken' = InputBroken
      BY <2>1 DEF InputBroken, ReceiverAlive
    <2>8. Report' = Report
      BY <1>1 DEF Report
    <2>9. Contract!Give
      BY <1>1, <2>1, <2>6, <2>7, <2>8 DEF Contract!Give
    <2> QED
      BY <2>9
  <1>5. CASE SinkBrokenPipe \/ SinkWriteFails \/ SinkCancelled
    <2>1. /\ delivered' = delivered /\ inputShut' = inputShut
          /\ ~inputAlive' \/ sinkPc' \in {"failed", "aborted"}
          /\ inputAlive \/ ~inputAlive'
      BY <1>5 DEF SinkBrokenPipe, SinkWriteFails, SinkCancelled, SessionInv, SinkInv
    <2>2. CASE inputShut
      <3>1. sinkPc = "shutdown" /\ chan = <<>>
        BY <1>1, <1>2, <2>2 DEF SessionInv, SinkInv
      <3>2. sinkPc' = "aborted" /\ chan' = <<>>
        BY <1>5, <3>1 DEF SinkBrokenPipe, SinkWriteFails, SinkCancelled
      <3>3. InFlight' = InFlight
        BY <3>1, <3>2 DEF InFlight
      <3>4. InputBroken = FALSE /\ InputBroken' = FALSE
        BY <2>1, <2>2 DEF InputBroken
      <3>5. Mailbox' = Mailbox
        BY <3>1, <3>2, <3>3, <3>4 DEF Mailbox
      <3> QED
        BY <1>1, <2>1, <3>4, <3>5 DEF Unseen
    <2>3. CASE ~inputShut
      <3>1. InputBroken' = TRUE
        BY <2>1, <2>3 DEF InputBroken, ReceiverAlive
      <3>2. Mailbox' = <<>>
        BY <3>1 DEF Mailbox
      <3>3. CASE InputBroken
        BY <1>1, <2>1, <3>1, <3>2, <3>3 DEF Unseen, Mailbox, InputBroken
      <3>4. CASE ~InputBroken
        BY <1>1, <1>2, <2>1, <2>3, <3>1, <3>2, <3>4 DEF Contract!Break, Contract!Open
      <3> QED
        BY <3>3, <3>4
    <2> QED
      BY <2>2, <2>3
  <1>6. CASE SinkFinish \/ SinkReturns
    <2>1. /\ sinkPc \in {"recv", "shutdown"} /\ sinkPc' \in {"shutdown", "done"} /\ chan' = chan
          /\ inputShut' = inputShut /\ inputAlive' = inputAlive /\ delivered' = delivered
      BY <1>6 DEF SinkFinish, SinkReturns, chanVars
    <2>2. InputBroken' = InputBroken /\ InFlight' = InFlight
      BY <2>1 DEF InputBroken, ReceiverAlive, InFlight
    <2>3. Mailbox' = Mailbox
      BY <2>1, <2>2 DEF Mailbox
    <2> QED
      BY <1>1, <2>1, <2>2, <2>3 DEF Unseen
  <1>7. CASE InputShuts
    <2>1. /\ sinkPc = "shutdown" /\ sinkPc' = "shutdown" /\ chan' = chan /\ delivered' = delivered
          /\ inputAlive' = inputAlive /\ ~inputShut /\ inputShut' = TRUE
      BY <1>7 DEF InputShuts, chanVars
    <2>2. inputAlive /\ chan = <<>> /\ ~adapterSender
      BY <2>1 DEF SessionInv, SinkInv, NoSenders
    <2>3. ~InputBroken /\ InputBroken' = FALSE /\ InputBroken = FALSE
      BY <2>1, <2>2 DEF InputBroken, ReceiverAlive
    <2>4. Mailbox = <<>> /\ Mailbox' = <<>>
      <3>1. InFlight = <<>> /\ InFlight' = <<>>
        BY <2>1 DEF InFlight
      <3>2. <<>> \o <<>> = <<>>
        OBVIOUS
      <3> QED
        BY <2>1, <2>2, <2>3, <3>1, <3>2 DEF Mailbox
    <2>5. pc \notin {"recv", "dispatch"}
      BY <2>2 DEF SessionInv, CoordinatorInv
    <2> QED
      BY <1>1, <1>2, <2>1, <2>3, <2>4, <2>5 DEF Contract!Shut, Contract!Open
  <1> QED
    BY <1>3, <1>4, <1>5, <1>6, <1>7 DEF Sink

LEMMA ContractInit == Init => Contract!Init
  <1> SUFFICES ASSUME Init PROVE Contract!Init
    OBVIOUS
  <1>1. /\ outputs = <<>> /\ next = 1 /\ chan = <<>> /\ delivered = <<>> /\ inputAlive
        /\ sinkPc = "recv" /\ inputShut = FALSE /\ pc = "recv" /\ result = "none"
    BY DEF Init, FrameInit
  <1>2. InputBroken = FALSE /\ InFlight = <<>>
    BY <1>1 DEF InputBroken, ReceiverAlive, InFlight
  <1>3. Mailbox = <<>> /\ next - 1 = 0 /\ Report = "none"
    BY <1>1, <1>2 DEF Mailbox, Report
  <1> QED
    BY <1>1, <1>2, <1>3 DEF Contract!Init

LEMMA ContractStep ==
    SessionInv /\ ContentInv /\ [Next]_vars => [Contract!Next]_(Contract!contractVars)
  <1> SUFFICES ASSUME SessionInv, ContentInv, [Next]_vars
               PROVE  Contract!Next \/ Unseen
    BY UnseenStutters
  <1>1. CASE ScanChunk \/ \E k \in 1..MaxChunkBytes : RecvChunk(k)
    BY <1>1, JudgeStep DEF Contract!Next
  <1>2. CASE Dispatch
    BY <1>2, ActStep DEF Contract!Next
  <1>3. CASE HostStdoutFails \/ EndChunk \/ OutputFails \/ OutputEnds \/ CloseAdapter
    BY <1>3, CloseStep DEF Contract!Next
  <1>4. CASE SettleJoin \/ SettleTimeout \/ AwaitSink
    BY <1>4, ConcludeStep DEF Contract!Next
  <1>5. CASE StdinTask
    BY <1>5, RelayStep DEF Contract!Next
  <1>6. CASE Sink
    BY <1>6, GiveStep DEF Contract!Next
  <1>7. CASE AgentRead \/ AgentExit
    BY <1>7, AgentFrame, MailboxStays DEF Unseen
  <1>8. CASE UNCHANGED vars
    <2>1. /\ outputs' = outputs /\ next' = next /\ pc' = pc /\ result' = result /\ chan' = chan
          /\ sinkPc' = sinkPc /\ sinkCommand' = sinkCommand /\ inputAlive' = inputAlive
          /\ inputShut' = inputShut /\ delivered' = delivered
      BY <1>8 DEF vars, frameVars, coordVars, chanVars, sinkVars
    <2> QED
      BY <2>1, MailboxStays DEF Unseen
  <1> QED
    BY <1>1, <1>2, <1>3, <1>4, <1>5, <1>6, <1>7, <1>8 DEF Next, Coordinator

\* For every capacity, agent and host, the three tasks together are one mailbox in
\* front of the agent: outputs are acted on in order, a denial is answered there
\* or there is nobody to answer, what goes in comes out once and in order, and a
\* reported success has acted on everything and left nothing in the mailbox, to
\* which nothing happens after it; whether container stdin was shut it does not say
\* (acp_runtime.rs:21-110, protocol.rs:286-338).
THEOREM SessionImplementsContract == Spec => ImplementsContract
  BY ContractInit, ContractStep, SessionInvariant, ContentInvariant, PTL
  DEF Spec, ImplementsContract, Contract!Spec

=============================================================================
