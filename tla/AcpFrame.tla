------------------------------- MODULE AcpFrame -------------------------------
(***************************************************************************)
(* The outbound frame assembler (engine/connection/exec/acp_frame.rs).     *)
(*                                                                         *)
(* The container's stdout is a byte stream, "source", that the daemon      *)
(* delivers in chunks cut at arbitrary offsets.  The assembler cuts it at  *)
(* newlines, asks the policy about every complete frame, and gives up      *)
(* (rawFallback) when too many bytes arrive without a newline.             *)
(*                                                                         *)
(* ingest_chunk is a loop without awaits; each iteration is an action.     *)
(* "chunk" holds the bytes that the loop has not scanned yet, so the loop  *)
(* is running exactly when chunk is not empty.                             *)
(***************************************************************************)
EXTENDS AcpPolicy, Framing

CONSTANTS
    Byte,           \* the byte values of the stream
    MaxFrameBytes,  \* MAX_RUNTIME_FRAME_BYTES
    MaxChunkBytes,  \* the daemon's output_capacity: the longest chunk
    Sources,        \* the byte streams a container may emit
    Parse(_)        \* serde_json::from_slice, from a payload to a message

ASSUME FrameAssumption ==
    /\ {NL, CR} \subseteq Byte
    /\ MaxFrameBytes \in Nat
    /\ MaxChunkBytes \in Nat \ {0}

\* Kept apart from FrameAssumption: TLC enumerates Sources but not Seq(Byte).
ASSUME SourcesAssumption == \A s \in Sources : s \in Seq(Byte)

VARIABLES
    source,       \* all the bytes the container will ever write
    cursor,       \* how many of them ingest_chunk has scanned
    chunk,        \* the unscanned rest of the chunk being ingested
    buffer,       \* OutboundFrameAssembler.buffer
    rawFallback,  \* OutboundFrameAssembler.raw_fallback
    outputs,      \* every FrameOutput returned so far, in order
    cuts,         \* history: the cursor right after each output
    finished      \* finish() has run

frameVars == <<source, cursor, chunk, buffer, rawFallback, outputs, cuts, finished>>

----------------------------------------------------------------------------
(* Frames.                                                                 *)

Message(frame) == Parse(Payload(frame))

Forward(bytes) == [kind |-> "Forward", bytes |-> bytes]

\* classify_frame. The frame's bytes stay in the output: the id, the method and
\* the line ending of a decision are functions of them.
ClassifyFrame(frame) == [kind |-> Evaluate(Message(frame)), bytes |-> frame]

\* The response the adapter queues for a BlockRequest output.
Response(output) == MethodBlockedError(Message(output.bytes), LineEnding(output.bytes))

----------------------------------------------------------------------------
FrameInit ==
    /\ source \in Sources
    /\ cursor = 0
    /\ chunk = <<>>
    /\ buffer = <<>>
    /\ rawFallback = FALSE
    /\ outputs = <<>>
    /\ cuts = <<>>
    /\ finished = FALSE

\* The assembler returns one more output, made of everything up to position "to".
Emit(output, to) ==
    /\ outputs' = Append(outputs, output)
    /\ cuts' = Append(cuts, to)

\* ingest_chunk is called with the next k bytes of the stream.
Ingest(k) ==
    /\ ~finished /\ ~rawFallback
    /\ chunk = <<>>
    /\ cursor + k <= Len(source)
    /\ chunk' = SubSeq(source, cursor + 1, cursor + k)
    /\ UNCHANGED <<source, cursor, buffer, rawFallback, outputs, cuts, finished>>

\* ingest_chunk in raw-fallback mode: forward_raw_chunk.
IngestRaw(k) ==
    /\ ~finished /\ rawFallback
    /\ cursor + k <= Len(source)
    /\ cursor' = cursor + k
    /\ Emit(Forward(SubSeq(source, cursor + 1, cursor + k)), cursor')
    /\ UNCHANGED <<source, chunk, buffer, rawFallback, finished>>

\* complete_frame when the buffer is not taken after the frame is classified.
CompleteFrameKeepingBuffer(i) ==
    /\ i \in 1..Len(chunk)
    /\ FirstNewlineAt(chunk, i)
    /\ cursor' = cursor + i
    /\ Emit(ClassifyFrame(buffer \o SubSeq(chunk, 1, i)), cursor')
    /\ chunk' = SubSeq(chunk, i + 1, Len(chunk))
    /\ UNCHANGED <<source, buffer, rawFallback, finished>>

\* complete_frame when the buffered head of the frame is forgotten.
CompleteFrameWithoutHead(i) ==
    /\ i \in 1..Len(chunk)
    /\ FirstNewlineAt(chunk, i)
    /\ cursor' = cursor + i
    /\ Emit(ClassifyFrame(SubSeq(chunk, 1, i)), cursor')
    /\ buffer' = <<>>
    /\ chunk' = SubSeq(chunk, i + 1, Len(chunk))
    /\ UNCHANGED <<source, rawFallback, finished>>

\* One iteration of ingest_chunk that finds a newline: complete_frame.
CompleteFrame(i) ==
    /\ i \in 1..Len(chunk)
    /\ FirstNewlineAt(chunk, i)
    /\ cursor' = cursor + i
    /\ Emit(ClassifyFrame(buffer \o SubSeq(chunk, 1, i)), cursor')
    /\ buffer' = <<>>
    /\ chunk' = SubSeq(chunk, i + 1, Len(chunk))
    /\ UNCHANGED <<source, rawFallback, finished>>

\* buffer_or_overflow_tail with the limit compared to the buffer alone.
OverflowsByBufferOnly == Len(buffer) > MaxFrameBytes

\* buffer_or_overflow_tail: the comparison with the limit.
Overflows == Len(buffer) + Len(chunk) > MaxFrameBytes

\* buffer_or_overflow_tail advancing by the whole buffer.
BufferTailAdvancingTwice ==
    /\ chunk # <<>> /\ NoNewline(chunk)
    /\ ~Overflows
    /\ buffer' = buffer \o chunk
    /\ cursor' = cursor + Len(buffer')
    /\ chunk' = <<>>
    /\ UNCHANGED <<source, rawFallback, outputs, cuts, finished>>

\* The last iteration of ingest_chunk when the rest has no newline and fits.
BufferTail ==
    /\ chunk # <<>> /\ NoNewline(chunk)
    /\ ~Overflows
    /\ buffer' = buffer \o chunk
    /\ cursor' = cursor + Len(chunk)
    /\ chunk' = <<>>
    /\ UNCHANGED <<source, rawFallback, outputs, cuts, finished>>

\* flush_buffer_for_overflow with the pending bytes of the chunk left out.
OverflowTailWithoutPending ==
    /\ chunk # <<>> /\ NoNewline(chunk)
    /\ Overflows
    /\ cursor' = cursor + Len(chunk)
    /\ Emit(Forward(buffer), cursor')
    /\ buffer' = <<>>
    /\ rawFallback' = TRUE
    /\ chunk' = <<>>
    /\ UNCHANGED <<source, finished>>

\* The last iteration when the rest does not fit: flush and fall back for good.
OverflowTail ==
    /\ chunk # <<>> /\ NoNewline(chunk)
    /\ Overflows
    /\ cursor' = cursor + Len(chunk)
    /\ Emit(Forward(buffer \o chunk), cursor')
    /\ buffer' = <<>>
    /\ rawFallback' = TRUE
    /\ chunk' = <<>>
    /\ UNCHANGED <<source, finished>>

\* finish when the residue is flushed instead of dropped.
FinishForwardingResidue ==
    /\ ~finished /\ chunk = <<>>
    /\ finished' = TRUE
    /\ buffer' = <<>>
    /\ IF buffer = <<>> THEN UNCHANGED <<outputs, cuts>> ELSE Emit(Forward(buffer), cursor)
    /\ UNCHANGED <<source, cursor, chunk, rawFallback>>

\* finish: the unclassified residue is dropped.
Finish ==
    /\ ~finished /\ chunk = <<>>
    /\ finished' = TRUE
    /\ buffer' = <<>>
    /\ UNCHANGED <<source, cursor, chunk, rawFallback, outputs, cuts>>

Scan == (\E i \in 1..Len(chunk) : CompleteFrame(i)) \/ BufferTail \/ OverflowTail

FrameNext ==
    \/ \E k \in 1..MaxChunkBytes : Ingest(k) \/ IngestRaw(k)
    \/ Scan
    \/ Finish

FrameSpec == FrameInit /\ [][FrameNext]_frameVars

----------------------------------------------------------------------------
(* Properties.                                                             *)

OutputKinds == {"Forward", "BlockNotification", "BlockRequest"}

\* Type correctness of the assembler, with the bounds of its indices.
FrameTypeOK ==
    /\ source \in Seq(Byte)
    /\ cursor \in 0..Len(source)
    /\ chunk \in Seq(Byte)
    /\ buffer \in Seq(Byte)
    /\ rawFallback \in BOOLEAN
    /\ outputs \in Seq([kind : OutputKinds, bytes : Seq(Byte)])
    /\ cuts \in Seq(0..Len(source))
    /\ finished \in BOOLEAN

\* Where output k starts, and where the last one ends, given the cuts.
StartOf(k, ends) == IF k = 1 THEN 0 ELSE ends[k - 1]
EndOf(ends) == IF ends = <<>> THEN 0 ELSE ends[Len(ends)]

LastCut == EndOf(cuts)

IsLine(bytes) == bytes # <<>> /\ FirstNewlineAt(bytes, Len(bytes))

\* More bytes than the limit without a newline.
Overlong(bytes) == Len(bytes) > MaxFrameBytes /\ NoNewline(bytes)

\* The pieces between the cuts, up to a position, are the outputs.
Tiles(stream, outs, ends, upTo) ==
    /\ Len(ends) = Len(outs)
    /\ \A k \in 1..Len(outs) :
          /\ StartOf(k, ends) < ends[k] /\ ends[k] <= upTo
          /\ outs[k].bytes = SubSeq(stream, StartOf(k, ends) + 1, ends[k])

\* Output k is a decided line, or passes behind an overlong output.
Justified(k, outs, fallback) ==
    \/ /\ IsLine(outs[k].bytes)
       /\ outs[k] = ClassifyFrame(outs[k].bytes)
    \/ /\ fallback /\ outs[k].kind = "Forward"
       /\ \E j \in 1..k : Overlong(outs[j].bytes)

\* No byte is lost, repeated, reordered or rewritten, however the daemon cuts
\* the stream: the outputs tile the scanned part of the stream, and what is
\* buffered is exactly the part after the last output (acp_frame.rs:14-21).
Verbatim ==
    /\ Tiles(source, outputs, cuts, cursor)
    /\ ~finished => buffer = SubSeq(source, LastCut + 1, cursor)

\* Before the fallback, every output is one whole line, and its verdict is the
\* policy's verdict on that line: chunk boundaries never decide what is denied.
\* Only behind an overlong output does anything else pass (acp_frame.rs:118-175).
LineDecisions == \A k \in 1..Len(outputs) : Justified(k, outputs, rawFallback)

\* What waits for its newline never exceeds MAX_RUNTIME_FRAME_BYTES and never
\* holds a newline, so no complete frame is left waiting (acp_frame.rs:17-21).
BufferBounded == Len(buffer) <= MaxFrameBytes /\ NoNewline(buffer)

\* Where the loop stands in the stream, and what the fallback leaves behind.
Position ==
    /\ LastCut <= cursor
    /\ cursor + Len(chunk) <= Len(source)
    /\ chunk = SubSeq(source, cursor + 1, cursor + Len(chunk))
    /\ finished \/ rawFallback => chunk = <<>> /\ buffer = <<>>
    /\ rawFallback => /\ LastCut = cursor
                      /\ \E j \in 1..Len(outputs) : Overlong(outputs[j].bytes)

\* The inductive invariant of the assembler.
FrameInv ==
    FrameTypeOK /\ Position /\ Verbatim /\ LineDecisions /\ BufferBounded

\* The assembler implements the chunk-free filter of AcpLines.
Lines == INSTANCE AcpLines
    WITH position <- LastCut, emitted <- outputs, raw <- rawFallback, stopped <- finished

ImplementsLines == Lines!Spec

=============================================================================
