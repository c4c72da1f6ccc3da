--------------------------- MODULE AcpFrame_proofs ---------------------------
(***************************************************************************)
(* The assembler's invariants, and that it implements AcpLines, for every  *)
(* set of streams, every limit and every way to cut a stream into chunks.  *)
(***************************************************************************)
EXTENDS AcpFrame, SequenceTheorems, TLAPS

----------------------------------------------------------------------------
(* Facts about one step.                                                   *)

\* The three verdicts are the three kinds of output.
LEMMA EvaluateKind == \A message : Evaluate(message) \in OutputKinds
  BY DEF Evaluate, OutputKinds

\* A piece of the stream, and where its elements come from.
LEMMA PieceIs ==
    ASSUME NEW s \in Seq(Byte), NEW a \in Nat, NEW b \in Nat, a <= b, b <= Len(s)
    PROVE  /\ SubSeq(s, a + 1, b) \in Seq(Byte)
           /\ Len(SubSeq(s, a + 1, b)) = b - a
           /\ \A i \in 1..(b - a) : SubSeq(s, a + 1, b)[i] = s[a + i]
  OBVIOUS

\* What a concatenation is, element by element.
LEMMA JoinIs ==
    ASSUME NEW front \in Seq(Byte), NEW rest \in Seq(Byte)
    PROVE  /\ front \o rest \in Seq(Byte)
           /\ Len(front \o rest) = Len(front) + Len(rest)
           /\ \A i \in 1..Len(front) : (front \o rest)[i] = front[i]
           /\ \A i \in 1..Len(rest) : (front \o rest)[Len(front) + i] = rest[i]
  BY ConcatProperties

\* No newline comes from joining pieces that have none.
LEMMA JoinNoNewline ==
    ASSUME NEW front \in Seq(Byte), NEW rest \in Seq(Byte), NoNewline(front), NoNewline(rest)
    PROVE  NoNewline(front \o rest)
  <1> SUFFICES ASSUME NEW i \in 1..Len(front \o rest) PROVE (front \o rest)[i] # NL
    BY DEF NoNewline
  <1>1. CASE i \in 1..Len(front)
    BY <1>1, JoinIs DEF NoNewline
  <1>2. CASE i \notin 1..Len(front)
    <2>1. i - Len(front) \in 1..Len(rest) /\ Len(front) + (i - Len(front)) = i
      BY <1>2, JoinIs
    <2>2. (front \o rest)[i] = rest[i - Len(front)]
      BY <2>1, JoinIs
    <2> QED
      BY <2>1, <2>2 DEF NoNewline
  <1> QED
    BY <1>1, <1>2

\* A buffered head without newlines and the rest of its frame make a line.
LEMMA JoinLine ==
    ASSUME NEW front \in Seq(Byte), NEW rest \in Seq(Byte), NoNewline(front),
           rest # <<>>, FirstNewlineAt(rest, Len(rest))
    PROVE  IsLine(front \o rest)
  <1> DEFINE line == front \o rest
  <1>1. /\ line \in Seq(Byte) /\ Len(line) = Len(front) + Len(rest)
        /\ \A i \in 1..Len(front) : line[i] = front[i]
        /\ \A i \in 1..Len(rest) : line[Len(front) + i] = rest[i]
    BY JoinIs
  <1>2. Len(front) \in Nat /\ Len(rest) \in Nat /\ Len(rest) > 0
    OBVIOUS
  <1> HIDE DEF line
  <1>3. line # <<>>
    BY <1>1, <1>2
  <1>4. line[Len(line)] = NL
    <2>1. Len(rest) \in 1..Len(rest)
      BY <1>2
    <2> QED
      BY <1>1, <2>1 DEF FirstNewlineAt
  <1>5. ASSUME NEW i \in 1..(Len(line) - 1) PROVE line[i] # NL
    <2>1. CASE i \in 1..Len(front)
      BY <1>1, <2>1 DEF NoNewline
    <2>2. CASE i \notin 1..Len(front)
      <3>1. i - Len(front) \in 1..(Len(rest) - 1) /\ Len(front) + (i - Len(front)) = i
        BY <1>1, <1>2, <2>2
      <3>2. i - Len(front) \in 1..Len(rest)
        BY <1>2, <3>1
      <3>3. line[i] = rest[i - Len(front)]
        BY <1>1, <3>1, <3>2
      <3> QED
        BY <3>1, <3>3 DEF FirstNewlineAt
    <2> QED
      BY <2>1, <2>2
  <1> QED
    BY <1>3, <1>4, <1>5 DEF IsLine, FirstNewlineAt, line

\* The last cut is a position in the stream.
LEMMA LastCutType ==
    ASSUME FrameTypeOK
    PROVE  /\ LastCut \in 0..Len(source)
           /\ Len(source) \in Nat /\ Len(chunk) \in Nat /\ cursor \in Nat
           /\ Len(outputs) \in Nat /\ Len(cuts) \in Nat
  <1>1. source \in Seq(Byte) /\ chunk \in Seq(Byte) /\ cuts \in Seq(0..Len(source))
    BY DEF FrameTypeOK
  <1>2. Len(source) \in Nat /\ Len(chunk) \in Nat /\ Len(cuts) \in Nat
    BY <1>1
  <1>3. Len(outputs) \in Nat /\ cursor \in Nat
    BY <1>2 DEF FrameTypeOK
  <1>4. CASE cuts = <<>>
    BY <1>2, <1>3, <1>4 DEF LastCut, EndOf
  <1>5. CASE cuts # <<>>
    <2>1. Len(cuts) \in 1..Len(cuts)
      BY <1>1, <1>2, <1>5
    <2> QED
      BY <1>1, <1>2, <1>3, <1>5, <2>1 DEF LastCut, EndOf
  <1> QED
    BY <1>4, <1>5

\* What one iteration of the loop can emit, and what it leaves in the chunk, are
\* pieces of the stream: chunk boundaries are nowhere in the output.
LEMMA NextPiece ==
    ASSUME FrameInv, NEW i \in 1..Len(chunk)
    PROVE  /\ ~finished /\ ~rawFallback
           /\ cursor + i \in Nat /\ cursor + i <= Len(source) /\ LastCut < cursor + i
           /\ SubSeq(chunk, 1, i) = SubSeq(source, cursor + 1, cursor + i)
           /\ buffer \o SubSeq(chunk, 1, i) = SubSeq(source, LastCut + 1, cursor + i)
           /\ SubSeq(chunk, i + 1, Len(chunk))
                = SubSeq(source, cursor + i + 1, cursor + Len(chunk))
  <1> USE DEF FrameInv
  <1>1. /\ source \in Seq(Byte) /\ chunk \in Seq(Byte) /\ buffer \in Seq(Byte)
        /\ cursor \in Nat /\ LastCut \in Nat /\ LastCut <= cursor
        /\ cursor + Len(chunk) <= Len(source)
        /\ Len(chunk) \in Nat /\ Len(source) \in Nat
    BY LastCutType DEF FrameTypeOK, Position
  <1>2. chunk # <<>>
    BY <1>1
  <1>3. ~finished /\ ~rawFallback
    BY <1>2 DEF Position
  <1>4. cursor + i \in Nat /\ cursor + i <= Len(source) /\ LastCut < cursor + i
    BY <1>1
  <1>5. chunk = SubSeq(source, cursor + 1, cursor + Len(chunk))
    BY DEF Position
  <1>6. ASSUME NEW k \in 1..Len(chunk) PROVE chunk[k] = source[cursor + k]
    <2>1. cursor + Len(chunk) \in Nat /\ k \in 1..((cursor + Len(chunk)) - cursor)
      BY <1>1
    <2>2. SubSeq(source, cursor + 1, cursor + Len(chunk))[k] = source[cursor + k]
      BY <1>1, <2>1, PieceIs
    <2> QED
      BY <1>5, <2>2
  <1>7. SubSeq(chunk, 1, i) = SubSeq(source, cursor + 1, cursor + i)
    <2> DEFINE left == SubSeq(chunk, 0 + 1, i)
               right == SubSeq(source, cursor + 1, cursor + i)
    <2>1. i \in Nat /\ i <= Len(chunk) /\ (cursor + i) - cursor = i /\ i - 0 = i
      BY <1>1
    <2>2. left \in Seq(Byte) /\ Len(left) = i /\ \A k \in 1..i : left[k] = chunk[0 + k]
      BY <1>1, <2>1, PieceIs
    <2>3. right \in Seq(Byte) /\ Len(right) = i /\ \A k \in 1..i : right[k] = source[cursor + k]
      BY <1>1, <1>4, <2>1, PieceIs
    <2> HIDE DEF left, right
    <2>4. ASSUME NEW k \in 1..i PROVE left[k] = right[k]
      <3>1. k \in 1..Len(chunk) /\ 0 + k = k
        BY <1>1, <2>1
      <3>2. left[k] = chunk[k] /\ right[k] = source[cursor + k]
        BY <2>2, <2>3, <3>1
      <3> QED
        BY <1>6, <3>1, <3>2
    <2>5. left = right
      BY <2>2, <2>3, <2>4, SeqEqual
    <2> QED
      <3>1. 0 + 1 = 1
        OBVIOUS
      <3> QED
        BY <2>5, <3>1 DEF left, right
  <1>8. SubSeq(chunk, i + 1, Len(chunk)) = SubSeq(source, cursor + i + 1, cursor + Len(chunk))
    <2> DEFINE n == Len(chunk) - i
               left == SubSeq(chunk, i + 1, Len(chunk))
               right == SubSeq(source, cursor + i + 1, cursor + Len(chunk))
    <2>1. /\ i \in Nat /\ i <= Len(chunk) /\ n \in Nat
          /\ cursor + i \in Nat /\ cursor + Len(chunk) \in Nat
          /\ cursor + i <= cursor + Len(chunk)
          /\ (cursor + Len(chunk)) - (cursor + i) = n /\ Len(chunk) - i = n
      BY <1>1
    <2>2. left \in Seq(Byte) /\ Len(left) = n /\ \A k \in 1..n : left[k] = chunk[i + k]
      BY <1>1, <2>1, PieceIs
    <2>3. /\ right \in Seq(Byte) /\ Len(right) = n
          /\ \A k \in 1..n : right[k] = source[(cursor + i) + k]
      <3>1. PICK a \in Nat, b \in Nat : a = cursor + i /\ b = cursor + Len(chunk)
        BY <2>1
      <3>2. a <= b /\ b <= Len(source) /\ b - a = n
        BY <1>1, <2>1, <3>1
      <3>3. /\ SubSeq(source, a + 1, b) \in Seq(Byte) /\ Len(SubSeq(source, a + 1, b)) = b - a
            /\ \A k \in 1..(b - a) : SubSeq(source, a + 1, b)[k] = source[a + k]
        BY <1>1, <3>2, PieceIs
      <3> QED
        BY <3>1, <3>2, <3>3
    <2>4. ASSUME NEW k \in 1..n PROVE left[k] = right[k]
      <3>1. i + k \in 1..Len(chunk) /\ cursor + (i + k) = (cursor + i) + k
        BY <1>1, <2>1
      <3>2. left[k] = chunk[i + k] /\ right[k] = source[(cursor + i) + k]
        BY <2>2, <2>3
      <3>3. chunk[i + k] = source[cursor + (i + k)]
        BY <1>6, <3>1
      <3> QED
        BY <3>1, <3>2, <3>3
    <2> HIDE DEF left, right, n
    <2>5. left = right
      BY <2>2, <2>3, <2>4, SeqEqual
    <2> QED
      BY <2>5 DEF left, right
  <1>9. buffer = SubSeq(source, LastCut + 1, cursor)
    BY <1>3 DEF Verbatim
  <1>10. buffer \o SubSeq(chunk, 1, i) = SubSeq(source, LastCut + 1, cursor + i)
    <2>1. LastCut + 1 \in 1..(Len(source) + 1) /\ cursor \in ((LastCut + 1) - 1)..Len(source)
          /\ cursor + i \in cursor..Len(source)
      BY <1>1, <1>4
    <2> QED
      BY <1>1, <1>7, <1>9, <2>1, ConcatAdjacentSubSeq
  <1> QED
    BY <1>3, <1>4, <1>7, <1>8, <1>10

\* One more piece, from the last cut on, keeps the tiling.
LEMMA TilesAppend ==
    ASSUME NEW stream \in Seq(Byte), NEW upTo \in Nat,
           NEW outs \in Seq([kind : OutputKinds, bytes : Seq(Byte)]),
           NEW ends \in Seq(0..Len(stream)), Tiles(stream, outs, ends, upTo),
           NEW to \in Nat, EndOf(ends) < to, upTo <= to, to <= Len(stream),
           NEW output \in [kind : OutputKinds, bytes : Seq(Byte)],
           output.bytes = SubSeq(stream, EndOf(ends) + 1, to)
    PROVE  /\ Append(outs, output) \in Seq([kind : OutputKinds, bytes : Seq(Byte)])
           /\ Append(ends, to) \in Seq(0..Len(stream))
           /\ EndOf(Append(ends, to)) = to
           /\ Tiles(stream, Append(outs, output), Append(ends, to), to)
  <1> DEFINE n == Len(outs)
             more == Append(outs, output)
             moreEnds == Append(ends, to)
             P == 0..Len(stream)
  <1>1. n \in Nat /\ Len(ends) = n /\ P \subseteq Nat /\ to \in P
    BY DEF Tiles
  <1>2. EndOf(ends) \in Nat /\ \A k \in 1..n : ends[k] \in Nat
    <2>1. \A k \in 1..Len(ends) : ends[k] \in P
      BY ElementOfSeq
    <2>2. \A k \in 1..n : ends[k] \in Nat
      BY <1>1, <2>1
    <2>3. CASE ends = <<>>
      BY <2>2, <2>3 DEF EndOf
    <2>4. CASE ends # <<>>
      <3>1. Len(ends) \in 1..Len(ends)
        BY <2>4
      <3>2. ends[Len(ends)] \in Nat
        BY <2>1, <3>1
      <3> QED
        BY <2>2, <2>4, <3>2 DEF EndOf
    <2> QED
      BY <2>3, <2>4
  <1>3. output \in [kind : OutputKinds, bytes : Seq(Byte)]
    OBVIOUS
  <1>4. /\ more \in Seq([kind : OutputKinds, bytes : Seq(Byte)])
        /\ Len(more) = n + 1 /\ more[n + 1] = output
        /\ \A k \in 1..n : more[k] = outs[k]
    BY <1>3, AppendProperties
  <1>5. /\ moreEnds \in Seq(P)
        /\ Len(moreEnds) = n + 1 /\ moreEnds[n + 1] = to /\ moreEnds # <<>>
        /\ \A k \in 1..n : moreEnds[k] = ends[k]
    <2> ends \in Seq(P) /\ to \in P
      BY <1>1
    <2> HIDE DEF P
    <2>1. /\ moreEnds \in Seq(P) /\ moreEnds # <<>>
          /\ Len(moreEnds) = Len(ends) + 1 /\ moreEnds[Len(ends) + 1] = to
          /\ \A k \in 1..Len(ends) : moreEnds[k] = ends[k]
      BY AppendProperties
    <2> QED
      BY <1>1, <2>1
  <1> HIDE DEF n, more, moreEnds
  <1>6. EndOf(moreEnds) = to
    BY <1>5 DEF EndOf
  <1>7. \A k \in 1..n : StartOf(k, moreEnds) = StartOf(k, ends)
    BY <1>1, <1>5 DEF StartOf
  <1>8. StartOf(n + 1, moreEnds) = EndOf(ends)
    <2>1. CASE n = 0
      BY <1>1, <2>1 DEF StartOf, EndOf
    <2>2. CASE n # 0
      BY <1>1, <1>5, <2>2 DEF StartOf, EndOf
    <2> QED
      BY <2>1, <2>2
  <1>9. ASSUME NEW k \in 1..n
        PROVE  /\ StartOf(k, moreEnds) < moreEnds[k] /\ moreEnds[k] <= to
               /\ more[k].bytes = SubSeq(stream, StartOf(k, moreEnds) + 1, moreEnds[k])
    <2>1. /\ StartOf(k, ends) < ends[k] /\ ends[k] <= upTo
          /\ outs[k].bytes = SubSeq(stream, StartOf(k, ends) + 1, ends[k])
      BY DEF Tiles, n
    <2>2. ends[k] \in Nat
      BY <1>2 DEF n
    <2>3. StartOf(k, moreEnds) = StartOf(k, ends) /\ moreEnds[k] = ends[k] /\ more[k] = outs[k]
      BY <1>4, <1>5, <1>7
    <2>4. moreEnds[k] <= to
      BY <2>1, <2>2, <2>3
    <2>5. StartOf(k, moreEnds) < moreEnds[k]
      BY <2>1, <2>3
    <2>6. more[k].bytes = SubSeq(stream, StartOf(k, moreEnds) + 1, moreEnds[k])
      BY <2>1, <2>3, Zenon
    <2> QED
      BY <2>4, <2>5, <2>6
  <1>10. /\ StartOf(n + 1, moreEnds) < moreEnds[n + 1] /\ moreEnds[n + 1] <= to
         /\ more[n + 1].bytes = SubSeq(stream, StartOf(n + 1, moreEnds) + 1, moreEnds[n + 1])
    <2>1. output.bytes = SubSeq(stream, EndOf(ends) + 1, to)
      OBVIOUS
    <2>2. more[n + 1].bytes = SubSeq(stream, StartOf(n + 1, moreEnds) + 1, moreEnds[n + 1])
      BY <1>4, <1>5, <1>8, <2>1, Zenon
    <2> QED
      BY <1>5, <1>8, <2>2
  <1>11. Tiles(stream, more, moreEnds, to)
    <2>1. \A k \in 1..(n + 1) : k \in 1..n \/ k = n + 1
      BY <1>1
    <2> QED
      BY <1>4, <1>5, <1>9, <1>10, <2>1 DEF Tiles
  <1> QED
    BY <1>4, <1>5, <1>6, <1>11 DEF more, moreEnds

\* One more justified output keeps the others justified.
LEMMA JustifiedAppend ==
    ASSUME NEW S, NEW outs \in Seq(S), NEW output \in S,
           NEW before \in BOOLEAN, NEW after \in BOOLEAN, before => after,
           \A k \in 1..Len(outs) : Justified(k, outs, before),
           \/ IsLine(output.bytes) /\ output = ClassifyFrame(output.bytes)
           \/ /\ after /\ output.kind = "Forward"
              /\ Overlong(output.bytes) \/ \E j \in 1..Len(outs) : Overlong(outs[j].bytes)
    PROVE  \A k \in 1..Len(Append(outs, output)) : Justified(k, Append(outs, output), after)
  <1> DEFINE n == Len(outs)
             more == Append(outs, output)
  <1>1. /\ n \in Nat /\ Len(more) = n + 1 /\ more[n + 1] = output
        /\ \A k \in 1..n : more[k] = outs[k]
    BY AppendProperties
  <1>2. \A k \in 1..n : Justified(k, outs, before)
    OBVIOUS
  <1> HIDE DEF n, more
  <1>3. ASSUME NEW k \in 1..n PROVE Justified(k, more, after)
    <2>1. Justified(k, outs, before)
      BY <1>2
    <2>2. more[k] = outs[k] /\ \A j \in 1..k : more[j] = outs[j]
      BY <1>1
    <2> QED
      BY <2>1, <2>2 DEF Justified
  <1>4. Justified(n + 1, more, after)
    <2>1. CASE IsLine(output.bytes) /\ output = ClassifyFrame(output.bytes)
      BY <2>1, <1>1 DEF Justified
    <2>2. CASE after /\ output.kind = "Forward" /\ Overlong(output.bytes)
      <3>1. n + 1 \in 1..(n + 1) /\ Overlong(more[n + 1].bytes)
        BY <1>1, <2>2
      <3> QED
        BY <1>1, <2>2, <3>1 DEF Justified
    <2>3. CASE /\ after /\ output.kind = "Forward"
               /\ \E j \in 1..Len(outs) : Overlong(outs[j].bytes)
      <3>1. PICK j \in 1..n : Overlong(outs[j].bytes)
        BY <2>3 DEF n
      <3>2. j \in 1..(n + 1) /\ Overlong(more[j].bytes)
        BY <1>1, <3>1
      <3> QED
        BY <1>1, <2>3, <3>2 DEF Justified
    <2> QED
      BY <2>1, <2>2, <2>3
  <1>5. \A k \in 1..(n + 1) : k \in 1..n \/ k = n + 1
    BY <1>1
  <1> QED
    BY <1>1, <1>3, <1>4, <1>5 DEF more

----------------------------------------------------------------------------
(* The inductive invariant.                                                *)

LEMMA InitInv == FrameInit => FrameInv
  <1> SUFFICES ASSUME FrameInit PROVE FrameInv
    OBVIOUS
  <1> USE DEF FrameInit
  <1>1. source \in Seq(Byte) /\ Len(source) \in Nat
    BY SourcesAssumption
  <1>2. LastCut = 0
    BY DEF LastCut, EndOf
  <1>3. FrameTypeOK
    <2>1. /\ chunk \in Seq(Byte) /\ buffer \in Seq(Byte) /\ cuts \in Seq(0..Len(source))
          /\ outputs \in Seq([kind : OutputKinds, bytes : Seq(Byte)])
      BY EmptySeq
    <2>2. cursor \in 0..Len(source)
      BY <1>1
    <2>3. rawFallback \in BOOLEAN /\ finished \in BOOLEAN
      OBVIOUS
    <2> QED
      BY <1>1, <2>1, <2>2, <2>3 DEF FrameTypeOK
  <1>4. SubSeq(source, 1, 0) = <<>>
    BY <1>1, SubSeqEmpty
  <1>5. Position
    BY <1>1, <1>2, <1>4 DEF Position
  <1>6. Verbatim
    BY <1>2, <1>4 DEF Verbatim, Tiles
  <1>7. LineDecisions
    BY DEF LineDecisions
  <1>8. BufferBounded
    BY FrameAssumption DEF BufferBounded, NoNewline
  <1> QED
    BY <1>3, <1>5, <1>6, <1>7, <1>8 DEF FrameInv

\* A new chunk: nothing moves but the chunk.
LEMMA IngestInv ==
    ASSUME FrameInv, NEW k \in 1..MaxChunkBytes, Ingest(k)
    PROVE  FrameInv'
  <1> USE DEF FrameInv
  <1>1. /\ source \in Seq(Byte) /\ cursor \in Nat /\ Len(source) \in Nat /\ k \in Nat
        /\ cursor + k \in Nat /\ cursor + k <= Len(source)
    BY LastCutType, FrameAssumption DEF FrameTypeOK, Ingest
  <1>2. /\ source' = source /\ cursor' = cursor /\ buffer' = buffer
        /\ rawFallback' = rawFallback /\ outputs' = outputs /\ cuts' = cuts
        /\ finished' = finished /\ ~finished /\ ~rawFallback
        /\ chunk' = SubSeq(source, cursor + 1, cursor + k)
    BY DEF Ingest
  <1>3. chunk' \in Seq(Byte) /\ Len(chunk') = k
    BY <1>1, <1>2, PieceIs
  <1>4. FrameTypeOK'
    BY <1>2, <1>3 DEF FrameTypeOK
  <1>5. LastCut' = LastCut
    BY <1>2 DEF LastCut
  <1>6. Position'
    BY <1>1, <1>2, <1>3, <1>5 DEF Position
  <1>7. Verbatim'
    BY <1>2, <1>5 DEF Verbatim
  <1>8. LineDecisions' /\ BufferBounded'
    BY <1>2 DEF LineDecisions, BufferBounded
  <1> QED
    BY <1>4, <1>6, <1>7, <1>8

\* The rest has no newline and fits: it joins the buffer.
LEMMA BufferTailInv ==
    ASSUME FrameInv, BufferTail
    PROVE  FrameInv'
  <1> USE DEF FrameInv
  <1>1. /\ chunk # <<>> /\ chunk \in Seq(Byte) /\ buffer \in Seq(Byte)
        /\ cursor \in Nat /\ Len(chunk) \in 1..Len(chunk) /\ Len(source) \in Nat
        /\ Len(buffer) \in Nat
    BY LastCutType DEF FrameTypeOK, BufferTail
  <1>2. /\ source' = source /\ rawFallback' = rawFallback /\ outputs' = outputs
        /\ cuts' = cuts /\ finished' = finished
        /\ buffer' = buffer \o chunk /\ cursor' = cursor + Len(chunk) /\ chunk' = <<>>
        /\ NoNewline(chunk) /\ Len(buffer) + Len(chunk) <= MaxFrameBytes
    BY <1>1, FrameAssumption DEF BufferTail, Overflows
  <1>3. SubSeq(chunk, 1, Len(chunk)) = chunk
    BY <1>1, SubSeqFull
  <1>4. /\ ~finished /\ ~rawFallback /\ cursor' <= Len(source) /\ LastCut < cursor'
        /\ buffer' = SubSeq(source, LastCut + 1, cursor')
    BY <1>1, <1>2, <1>3, NextPiece
  <1>5. buffer' \in Seq(Byte) /\ Len(buffer') = Len(buffer) + Len(chunk)
    BY <1>1, <1>2, JoinIs
  <1>6. LastCut' = LastCut
    BY <1>2 DEF LastCut
  <1>7. FrameTypeOK'
    BY <1>1, <1>2, <1>4, <1>5 DEF FrameTypeOK
  <1>8. Position'
    <2>1. Len(chunk') = 0 /\ SubSeq(source, cursor' + 1, cursor' + 0) = <<>>
      BY <1>1, <1>2, SubSeqEmpty
    <2> QED
      BY <1>1, <1>2, <1>4, <1>6, <2>1, LastCutType DEF Position
  <1>9. Verbatim'
    <2>1. Tiles(source, outputs, cuts, cursor)
      BY DEF Verbatim
    <2>2. \A k \in 1..Len(cuts) : cuts[k] \in Nat
      BY DEF FrameTypeOK
    <2>3. Tiles(source, outputs, cuts, cursor')
      BY <1>1, <1>2, <2>1, <2>2 DEF Tiles
    <2> QED
      BY <1>2, <1>4, <1>6, <2>3 DEF Verbatim
  <1>10. LineDecisions'
    BY <1>2 DEF LineDecisions
  <1>11. BufferBounded'
    <2>1. NoNewline(buffer) /\ NoNewline(chunk)
      BY <1>2 DEF BufferBounded
    <2>2. NoNewline(buffer')
      BY <1>1, <1>2, <2>1, JoinNoNewline
    <2> QED
      BY <1>2, <1>5, <2>2 DEF BufferBounded, NoNewline
  <1> QED
    BY <1>7, <1>8, <1>9, <1>10, <1>11

\* An iteration or a raw chunk that emits one output, up to the new cursor.
LEMMA EmitInv ==
    ASSUME FrameInv, NEW kind \in OutputKinds,
           source' = source, finished' = finished, ~finished,
           NEW to \in Nat, cursor' = to,
           cursor <= to, to <= Len(source), LastCut < to,
           Emit([kind |-> kind, bytes |-> SubSeq(source, LastCut + 1, to)], to),
           buffer' = <<>>, rawFallback' \in BOOLEAN, rawFallback => rawFallback',
           chunk' \in Seq(Byte), to + Len(chunk') <= Len(source),
           chunk' = SubSeq(source, to + 1, to + Len(chunk')),
           rawFallback' => chunk' = <<>>,
           NEW bytes, bytes = SubSeq(source, LastCut + 1, to),
           \/ /\ rawFallback' = rawFallback
              /\ IsLine(bytes) /\ kind = ClassifyFrame(bytes).kind
           \/ rawFallback' /\ kind = "Forward" /\ (rawFallback \/ Overlong(bytes))
    PROVE  FrameInv' /\ LastCut' = cursor'
  <1> DEFINE output == [kind |-> kind, bytes |-> bytes]
             S == [kind : OutputKinds, bytes : Seq(Byte)]
             n == Len(outputs)
  <1> USE DEF FrameInv
  <1>1. /\ source \in Seq(Byte) /\ outputs \in Seq(S) /\ cuts \in Seq(0..Len(source))
        /\ rawFallback \in BOOLEAN /\ finished \in BOOLEAN
        /\ cursor \in Nat /\ Len(source) \in Nat /\ n \in Nat
        /\ 0..Len(source) \subseteq Nat /\ LastCut \in Nat
    BY LastCutType DEF FrameTypeOK
  <1>2. outputs' = Append(outputs, output) /\ cuts' = Append(cuts, to)
    BY DEF Emit
  <1>3. /\ Tiles(source, outputs, cuts, cursor)
        /\ to \in 0..Len(source) /\ EndOf(cuts) < to
        /\ output.bytes = SubSeq(source, EndOf(cuts) + 1, to)
    <2>1. output.bytes = bytes /\ LastCut = EndOf(cuts)
      BY DEF LastCut
    <2>2. to \in 0..Len(source)
      BY <1>1
    <2> QED
      BY <2>1, <2>2 DEF Verbatim
  <1>3a. Len(outputs) = n
    OBVIOUS
  <1> HIDE DEF output, S, n
  <1>4. output \in S
    <2>1. LastCut <= to
      BY <1>1
    <2>2. bytes \in Seq(Byte)
      BY <1>1, <2>1, PieceIs
    <2> QED
      BY <2>2 DEF output, S
  <1>5. /\ outputs' \in Seq(S) /\ cuts' \in Seq(0..Len(source)) /\ EndOf(cuts') = to
        /\ Tiles(source, outputs', cuts', to)
    <2>1. /\ outputs \in Seq([kind : OutputKinds, bytes : Seq(Byte)])
          /\ cuts \in Seq(0..Len(source)) /\ source \in Seq(Byte) /\ cursor \in Nat
          /\ output \in [kind : OutputKinds, bytes : Seq(Byte)]
      BY <1>1, <1>4 DEF S
    <2>2. /\ Append(outputs, output) \in Seq([kind : OutputKinds, bytes : Seq(Byte)])
          /\ Append(cuts, to) \in Seq(0..Len(source))
          /\ EndOf(Append(cuts, to)) = to
          /\ Tiles(source, Append(outputs, output), Append(cuts, to), to)
      BY <2>1, <1>3, TilesAppend
    <2> QED
      BY <1>2, <2>2 DEF S
  <1>6. LastCut' = to
    BY <1>5 DEF LastCut
  <1>7. /\ Len(outputs') = n + 1 /\ outputs'[n + 1] = output
        /\ \A k \in 1..n : outputs'[k] = outputs[k]
    BY <1>1, <1>2, <1>4, AppendProperties DEF n
  <1>8. output.kind = kind /\ output.bytes = bytes
    BY DEF output
  <1>9. IsLine(bytes) /\ kind = ClassifyFrame(bytes).kind => output = ClassifyFrame(output.bytes)
    BY <1>8 DEF output, ClassifyFrame
  <1>10. rawFallback => \E j \in 1..Len(outputs) : Overlong(outputs[j].bytes)
    BY DEF Position, n
  <1>11. \A k \in 1..Len(outputs) : Justified(k, outputs, rawFallback)
    BY DEF LineDecisions
  <1>12. \A k \in 1..Len(outputs') : Justified(k, outputs', rawFallback')
    <2>1. \/ IsLine(output.bytes) /\ output = ClassifyFrame(output.bytes)
          \/ /\ rawFallback' /\ output.kind = "Forward"
             /\ Overlong(output.bytes) \/ \E j \in 1..Len(outputs) : Overlong(outputs[j].bytes)
      BY <1>8, <1>9, <1>10
    <2> QED
      BY <1>1, <1>2, <1>4, <1>11, <2>1, JustifiedAppend
  <1>13. rawFallback' => \E j \in 1..Len(outputs') : Overlong(outputs'[j].bytes)
    <2>1. CASE rawFallback
      <3>1. PICK j \in 1..n : Overlong(outputs[j].bytes)
        BY <1>10, <2>1 DEF n
      <3>2. j \in 1..Len(outputs') /\ outputs'[j] = outputs[j]
        BY <1>1, <1>7, <3>1
      <3>3. Overlong(outputs'[j].bytes)
        BY <3>1, <3>2
      <3> QED
        BY <3>2, <3>3
    <2>2. CASE rawFallback' /\ ~rawFallback
      <3>1. n + 1 \in 1..Len(outputs') /\ outputs'[n + 1].bytes = bytes
        BY <1>1, <1>7, <1>8
      <3>2. Overlong(bytes)
        BY <2>2
      <3> QED
        BY <3>1, <3>2
    <2> QED
      BY <2>1, <2>2
  <1>14. FrameTypeOK'
    BY <1>1, <1>3, <1>5, EmptySeq DEF FrameTypeOK, S
  <1>15. Position'
    <2>1. LastCut' <= to
      BY <1>6
    <2> QED
      BY <1>6, <1>13, <2>1 DEF Position
  <1>16. Verbatim'
    <2>1. to \in Int /\ to + 1 \in Int /\ to < to + 1
      OBVIOUS
    <2>2. SubSeq(source, to + 1, to) = <<>>
      BY <2>1, SubSeqEmpty
    <2> QED
      BY <1>5, <1>6, <2>2 DEF Verbatim
  <1>17. LineDecisions'
    BY <1>12 DEF LineDecisions
  <1>18. BufferBounded'
    BY FrameAssumption DEF BufferBounded, NoNewline
  <1> QED
    BY <1>6, <1>14, <1>15, <1>16, <1>17, <1>18

\* In raw fallback a chunk is one output.
LEMMA IngestRawInv ==
    ASSUME FrameInv, NEW k \in 1..MaxChunkBytes, IngestRaw(k)
    PROVE  FrameInv' /\ LastCut' = cursor' /\ LastCut = cursor
  <1>1. /\ source \in Seq(Byte) /\ cursor \in Nat /\ Len(source) \in Nat /\ LastCut = cursor
        /\ chunk = <<>> /\ buffer = <<>> /\ k \in Nat /\ k > 0 /\ rawFallback /\ ~finished
        /\ cursor + k <= Len(source)
    BY LastCutType, FrameAssumption DEF FrameInv, FrameTypeOK, Position, IngestRaw
  <1>2. PICK to \in Nat : to = cursor + k
    BY <1>1
  <1>3. to <= Len(source) /\ cursor <= to /\ LastCut < to
    BY <1>1, <1>2
  <1>4. /\ source' = source /\ finished' = finished /\ cursor' = to
        /\ buffer' = <<>> /\ rawFallback' = rawFallback /\ chunk' = <<>>
        /\ Emit([kind |-> "Forward", bytes |-> SubSeq(source, LastCut + 1, to)], to)
    BY <1>1, <1>2 DEF IngestRaw, Forward
  <1>5. /\ chunk' \in Seq(Byte) /\ to + Len(chunk') <= Len(source)
        /\ chunk' = SubSeq(source, to + 1, to + Len(chunk'))
    <2>1. Len(chunk') = 0 /\ chunk' \in Seq(Byte) /\ to + 0 = to
      BY <1>4, EmptySeq
    <2>2. SubSeq(source, to + 1, to) = <<>>
      BY SubSeqEmpty
    <2> QED
      BY <1>3, <1>4, <2>1, <2>2
  <1>6. "Forward" \in OutputKinds
    BY DEF OutputKinds
  <1>7. rawFallback' \in BOOLEAN
    BY <1>4 DEF FrameInv, FrameTypeOK
  <1> QED
    BY <1>1, <1>3, <1>4, <1>5, <1>6, <1>7, EmitInv

\* A newline completes the frame: a whole line, decided.
LEMMA CompleteFrameInv ==
    ASSUME FrameInv, NEW i \in 1..Len(chunk), CompleteFrame(i)
    PROVE  /\ FrameInv' /\ LastCut' = cursor + i
           /\ LET line == SubSeq(source, LastCut + 1, cursor + i) IN
              outputs' = Append(outputs, ClassifyFrame(line)) /\ IsLine(line)
  <1>1. /\ source \in Seq(Byte) /\ chunk \in Seq(Byte) /\ buffer \in Seq(Byte)
        /\ cursor \in Nat /\ Len(source) \in Nat /\ Len(chunk) \in Nat /\ LastCut \in Nat
        /\ cursor + Len(chunk) <= Len(source) /\ i \in Nat /\ Len(buffer) \in Nat
    BY LastCutType DEF FrameInv, FrameTypeOK, Position
  <1>2. PICK to \in Nat : to = cursor + i
    BY <1>1
  <1>3. /\ ~finished /\ ~rawFallback /\ to <= Len(source) /\ LastCut < to
        /\ buffer \o SubSeq(chunk, 1, i) = SubSeq(source, LastCut + 1, to)
        /\ SubSeq(chunk, i + 1, Len(chunk)) = SubSeq(source, to + 1, cursor + Len(chunk))
    BY <1>2, NextPiece
  <1> DEFINE bytes == SubSeq(source, LastCut + 1, to)
             head == SubSeq(chunk, 1, i)
  <1>4. /\ source' = source /\ finished' = finished /\ cursor' = to
        /\ buffer' = <<>> /\ rawFallback' = rawFallback
        /\ chunk' = SubSeq(chunk, i + 1, Len(chunk))
        /\ Emit(ClassifyFrame(bytes), to)
    BY <1>2, <1>3 DEF CompleteFrame
  <1>5. /\ chunk' \in Seq(Byte) /\ to + Len(chunk') <= Len(source)
        /\ chunk' = SubSeq(source, to + 1, to + Len(chunk'))
    <2>1. chunk' \in Seq(Byte) /\ Len(chunk') = Len(chunk) - i
      BY <1>1, <1>4, PieceIs
    <2>2. to + Len(chunk') = cursor + Len(chunk)
      BY <1>1, <1>2, <2>1
    <2> QED
      BY <1>1, <1>3, <1>4, <2>1, <2>2
  <1>6. IsLine(bytes)
    <2>1. /\ head \in Seq(Byte) /\ Len(head) = i
          /\ \A j \in 1..i : head[j] = chunk[j]
      <3>1. /\ SubSeq(chunk, 0 + 1, i) \in Seq(Byte) /\ Len(SubSeq(chunk, 0 + 1, i)) = i - 0
            /\ \A j \in 1..(i - 0) : SubSeq(chunk, 0 + 1, i)[j] = chunk[0 + j]
        BY <1>1, PieceIs
      <3>2. 0 + 1 = 1 /\ i - 0 = i /\ \A j \in 1..i : 0 + j = j
        BY <1>1
      <3> QED
        BY <3>1, <3>2
    <2>2. NoNewline(buffer) /\ FirstNewlineAt(chunk, i)
      BY DEF FrameInv, BufferBounded, CompleteFrame
    <2> HIDE DEF head
    <2>3. head # <<>> /\ FirstNewlineAt(head, Len(head))
      <3>1. i \in 1..i /\ \A j \in 1..(i - 1) : j \in 1..i
        BY <1>1
      <3>2. head[i] = NL /\ \A j \in 1..(i - 1) : head[j] # NL
        BY <2>1, <2>2, <3>1 DEF FirstNewlineAt
      <3> QED
        BY <1>1, <2>1, <3>2 DEF FirstNewlineAt
    <2> QED
      BY <1>1, <1>3, <2>1, <2>2, <2>3, JoinLine DEF head
  <1> DEFINE kind == ClassifyFrame(bytes).kind
  <1>7. kind \in OutputKinds /\ ClassifyFrame(bytes) = [kind |-> kind, bytes |-> bytes]
    BY EvaluateKind DEF ClassifyFrame
  <1>8. rawFallback' \in BOOLEAN
    BY <1>4 DEF FrameInv, FrameTypeOK
  <1>9. Emit([kind |-> kind, bytes |-> SubSeq(source, LastCut + 1, to)], to)
    BY <1>4, <1>7
  <1>10. cursor <= to
    BY <1>1, <1>2
  <1> HIDE DEF kind
  <1>11. kind = ClassifyFrame(bytes).kind
    BY DEF kind
  <1> HIDE DEF bytes
  <1>12. bytes = SubSeq(source, LastCut + 1, to)
    BY DEF bytes
  <1>13. FrameInv' /\ LastCut' = cursor'
    BY <1>1, <1>3, <1>4, <1>5, <1>6, <1>7, <1>8, <1>9, <1>10, <1>11, <1>12, EmitInv
  <1> QED
    BY <1>2, <1>4, <1>6, <1>12, <1>13 DEF Emit

\* The rest has no newline and does not fit: an overlong output.
LEMMA OverflowTailInv ==
    ASSUME FrameInv, OverflowTail
    PROVE  /\ FrameInv' /\ LastCut' = cursor + Len(chunk) /\ rawFallback'
           /\ ~finished /\ ~rawFallback
           /\ LET bytes == SubSeq(source, LastCut + 1, cursor + Len(chunk)) IN
              outputs' = Append(outputs, Forward(bytes)) /\ Overlong(bytes)
  <1>1. /\ source \in Seq(Byte) /\ chunk \in Seq(Byte) /\ buffer \in Seq(Byte)
        /\ cursor \in Nat /\ Len(source) \in Nat /\ Len(chunk) \in 1..Len(chunk) /\ LastCut \in Nat
        /\ Len(buffer) \in Nat
    BY LastCutType DEF FrameInv, FrameTypeOK, OverflowTail
  <1>2. PICK to \in Nat : to = cursor + Len(chunk)
    BY <1>1
  <1>3. SubSeq(chunk, 1, Len(chunk)) = chunk
    BY <1>1, SubSeqFull
  <1>4. /\ ~finished /\ ~rawFallback /\ to <= Len(source) /\ LastCut < to /\ cursor <= to
        /\ buffer \o chunk = SubSeq(source, LastCut + 1, to)
    BY <1>1, <1>2, <1>3, NextPiece
  <1>5. PICK bytes : bytes = SubSeq(source, LastCut + 1, to)
    OBVIOUS
  <1>6. /\ source' = source /\ finished' = finished /\ cursor' = to
        /\ buffer' = <<>> /\ rawFallback' = TRUE /\ chunk' = <<>>
        /\ Emit([kind |-> "Forward", bytes |-> SubSeq(source, LastCut + 1, to)], to)
    BY <1>2, <1>4 DEF OverflowTail, Forward
  <1>7. Overlong(bytes)
    <2>1. NoNewline(buffer) /\ NoNewline(chunk) /\ Len(buffer) + Len(chunk) > MaxFrameBytes
      BY DEF FrameInv, BufferBounded, OverflowTail, Overflows
    <2> QED
      BY <1>1, <1>4, <1>5, <2>1, JoinIs, JoinNoNewline DEF Overlong
  <1>8. /\ chunk' \in Seq(Byte) /\ to + Len(chunk') <= Len(source)
        /\ chunk' = SubSeq(source, to + 1, to + Len(chunk'))
    <2>1. Len(chunk') = 0 /\ chunk' \in Seq(Byte) /\ to + 0 = to
      BY <1>6, EmptySeq
    <2>2. SubSeq(source, to + 1, to) = <<>>
      BY SubSeqEmpty
    <2> QED
      BY <1>4, <1>6, <2>1, <2>2
  <1>9. "Forward" \in OutputKinds /\ rawFallback' \in BOOLEAN
    BY <1>6 DEF OutputKinds
  <1>10. FrameInv' /\ LastCut' = cursor'
    BY <1>1, <1>4, <1>5, <1>6, <1>7, <1>8, <1>9, EmitInv
  <1> QED
    BY <1>2, <1>4, <1>5, <1>6, <1>7, <1>10 DEF Emit, Forward

\* End of stream: the residue goes.
LEMMA FinishInv ==
    ASSUME FrameInv, Finish
    PROVE  FrameInv' /\ LastCut' = LastCut
  <1> USE DEF FrameInv
  <1>1. /\ source' = source /\ cursor' = cursor /\ chunk' = chunk /\ rawFallback' = rawFallback
        /\ outputs' = outputs /\ cuts' = cuts
        /\ chunk = <<>> /\ finished' = TRUE /\ buffer' = <<>>
    BY DEF Finish
  <1>2. LastCut' = LastCut
    BY <1>1 DEF LastCut
  <1>3. FrameTypeOK'
    BY <1>1, EmptySeq DEF FrameTypeOK
  <1>4. Position'
    BY <1>1, <1>2 DEF Position
  <1>5. Verbatim'
    BY <1>1 DEF Verbatim
  <1>6. LineDecisions'
    BY <1>1 DEF LineDecisions
  <1>7. BufferBounded'
    BY <1>1, FrameAssumption DEF BufferBounded, NoNewline
  <1> QED
    BY <1>2, <1>3, <1>4, <1>5, <1>6, <1>7

\* A step that leaves the assembler alone.
LEMMA FrameStutterInv ==
    ASSUME FrameInv, UNCHANGED frameVars
    PROVE  FrameInv'
  <1>1. /\ source' = source /\ cursor' = cursor /\ chunk' = chunk /\ buffer' = buffer
        /\ rawFallback' = rawFallback /\ outputs' = outputs /\ cuts' = cuts
        /\ finished' = finished
    BY DEF frameVars
  <1>2. LastCut' = LastCut
    BY <1>1 DEF LastCut
  <1> QED
    BY <1>1, <1>2 DEF FrameInv, FrameTypeOK, Position, Verbatim, LineDecisions, BufferBounded

LEMMA NextInv ==
    ASSUME FrameInv, [FrameNext]_frameVars
    PROVE  FrameInv'
  <1>1. ASSUME NEW k \in 1..MaxChunkBytes, Ingest(k) PROVE FrameInv'
    BY <1>1, IngestInv
  <1>2. ASSUME NEW k \in 1..MaxChunkBytes, IngestRaw(k) PROVE FrameInv'
    BY <1>2, IngestRawInv
  <1>3. ASSUME NEW i \in 1..Len(chunk), CompleteFrame(i) PROVE FrameInv'
    BY <1>3, CompleteFrameInv
  <1>4. CASE BufferTail
    BY <1>4, BufferTailInv
  <1>5. CASE OverflowTail
    BY <1>5, OverflowTailInv
  <1>6. CASE Finish
    BY <1>6, FinishInv
  <1>7. CASE UNCHANGED frameVars
    BY <1>7, FrameStutterInv
  <1> QED
    BY <1>1, <1>2, <1>3, <1>4, <1>5, <1>6, <1>7 DEF FrameNext, Scan

----------------------------------------------------------------------------
(* The theorems.                                                           *)

\* The assembler's inductive invariant holds (acp_frame.rs:118-206).
THEOREM FrameInvariant == FrameSpec => []FrameInv
  <1>1. FrameInit => FrameInv
    BY InitInv
  <1>2. FrameInv /\ [FrameNext]_frameVars => FrameInv'
    BY NextInv
  <1> QED
    BY <1>1, <1>2, PTL DEF FrameSpec

\* Every variable has its type, and every index stays within the stream.
THEOREM FrameTypeCorrect == FrameSpec => []FrameTypeOK
  <1>1. FrameInv => FrameTypeOK
    BY DEF FrameInv
  <1> QED
    BY <1>1, FrameInvariant, PTL

\* The outputs and the buffer tile the scanned stream, for every way the daemon
\* cuts it (acp_frame.rs:14-21).
THEOREM FrameIsVerbatim == FrameSpec => []Verbatim
  <1>1. FrameInv => Verbatim
    BY DEF FrameInv
  <1> QED
    BY <1>1, FrameInvariant, PTL

\* Every output is a whole line with the policy's verdict on it, or passes behind
\* an overlong output (acp_frame.rs:118-175, 215-234).
THEOREM DecisionsAreOfLines == FrameSpec => []LineDecisions
  <1>1. FrameInv => LineDecisions
    BY DEF FrameInv
  <1> QED
    BY <1>1, FrameInvariant, PTL

\* The buffer never holds a newline or more than the limit (acp_frame.rs:125-138).
THEOREM BufferIsBounded == FrameSpec => []BufferBounded
  <1>1. FrameInv => BufferBounded
    BY DEF FrameInv
  <1> QED
    BY <1>1, FrameInvariant, PTL

----------------------------------------------------------------------------
(* The assembler implements the chunk-free filter.                         *)

\* Both modules decide a frame in the same way.
LEMMA SameVerdict == \A frame : Lines!Verdict(frame) = ClassifyFrame(frame).kind
  <1> TAKE frame
  <1>1. Lines!Payload(frame) = Payload(frame)
    BY DEF Lines!Payload, Payload, Lines!LineEnding, LineEnding, Lines!EndsWith, EndsWith
  <1>2. \A message : Lines!Evaluate(message) = Evaluate(message)
    BY DEF Lines!Evaluate, Evaluate, Lines!IsBlocked, IsBlocked, Lines!Matches, Matches,
           Lines!DefaultBlockedFamilies, DefaultBlockedFamilies,
           Lines!NoMethod, NoMethod, Lines!NoId, NoId
  <1> QED
    BY <1>1, <1>2 DEF Lines!Verdict, ClassifyFrame, Message

\* An iteration that completes a frame decides the line that ends there.
LEMMA CompleteFrameDecides ==
    ASSUME FrameInv, NEW i \in 1..Len(chunk), CompleteFrame(i)
    PROVE  Lines!Next
  <1>1. /\ source \in Seq(Byte) /\ cursor \in Nat /\ Len(source) \in Nat /\ LastCut \in Nat
        /\ i \in Nat
    BY LastCutType DEF FrameInv, FrameTypeOK
  <1>2. PICK to \in Nat : to = cursor + i
    BY <1>1
  <1>3. ~finished /\ ~rawFallback /\ to <= Len(source) /\ LastCut < to
    BY <1>2, NextPiece
  <1>4. PICK line : line = SubSeq(source, LastCut + 1, to)
    OBVIOUS
  <1>5. LastCut' = to /\ outputs' = Append(outputs, ClassifyFrame(line)) /\ IsLine(line)
    BY <1>2, <1>4, CompleteFrameInv
  <1>6. source' = source /\ finished' = finished /\ rawFallback' = rawFallback
    BY DEF CompleteFrame
  <1>7. Len(line) = to - LastCut /\ \A k \in 1..(to - LastCut) : line[k] = source[LastCut + k]
    BY <1>1, <1>3, <1>4, PieceIs
  <1>8. source[to] = NL
    <2>1. to - LastCut \in 1..(to - LastCut) /\ LastCut + (to - LastCut) = to
      BY <1>1, <1>3
    <2> QED
      BY <1>5, <1>7, <2>1 DEF IsLine, FirstNewlineAt
  <1>9. ASSUME NEW k \in (LastCut + 1)..(to - 1) PROVE source[k] # NL
    <2>1. /\ k - LastCut \in 1..(to - LastCut) /\ LastCut + (k - LastCut) = k
          /\ k - LastCut \in 1..((to - LastCut) - 1)
      BY <1>1
    <2> QED
      BY <1>5, <1>7, <2>1 DEF IsLine, FirstNewlineAt
  <1>10. ClassifyFrame(line) = [kind |-> Lines!Verdict(line), bytes |-> line]
    BY SameVerdict DEF ClassifyFrame
  <1>11. Lines!Output(Lines!Verdict(Lines!Piece(to)), to)
    BY <1>4, <1>5, <1>6, <1>10 DEF Lines!Output, Lines!Piece
  <1>12. Lines!DecideLine(to)
    BY <1>3, <1>6, <1>8, <1>9, <1>11 DEF Lines!DecideLine
  <1>13. to \in (LastCut + 1)..Len(source)
    BY <1>1, <1>3
  <1> QED
    BY <1>12, <1>13 DEF Lines!Next

\* An iteration that overflows gives up at the end of the chunk.
LEMMA OverflowTailGivesUp ==
    ASSUME FrameInv, OverflowTail
    PROVE  Lines!Next
  <1>1. /\ source \in Seq(Byte) /\ chunk \in Seq(Byte) /\ cursor \in Nat /\ Len(source) \in Nat
        /\ LastCut \in Nat /\ Len(chunk) \in 1..Len(chunk)
    BY LastCutType DEF FrameInv, FrameTypeOK, OverflowTail
  <1>2. PICK to \in Nat : to = cursor + Len(chunk)
    BY <1>1
  <1>3. to <= Len(source) /\ LastCut < to
    BY <1>1, <1>2, NextPiece
  <1>4. PICK bytes : bytes = SubSeq(source, LastCut + 1, to)
    OBVIOUS
  <1>5. /\ LastCut' = to /\ rawFallback' /\ ~finished /\ ~rawFallback
        /\ outputs' = Append(outputs, Forward(bytes)) /\ Overlong(bytes)
    BY <1>2, <1>4, OverflowTailInv
  <1>6. source' = source /\ finished' = finished /\ rawFallback' = TRUE
    BY DEF OverflowTail
  <1>7. Len(bytes) = to - LastCut /\ \A k \in 1..(to - LastCut) : bytes[k] = source[LastCut + k]
    BY <1>1, <1>3, <1>4, PieceIs
  <1>8. ASSUME NEW k \in (LastCut + 1)..to PROVE source[k] # NL
    <2>1. k - LastCut \in 1..(to - LastCut) /\ LastCut + (k - LastCut) = k
      BY <1>1
    <2> QED
      BY <1>5, <1>7, <2>1 DEF Overlong, NoNewline
  <1>9. Lines!Output("Forward", to)
    BY <1>4, <1>5, <1>6 DEF Lines!Output, Lines!Piece, Forward
  <1>10. Lines!GiveUp(to)
    BY <1>5, <1>6, <1>7, <1>8, <1>9 DEF Lines!GiveUp, Overlong
  <1>11. to \in (LastCut + 1)..Len(source)
    BY <1>1, <1>3
  <1> QED
    BY <1>10, <1>11 DEF Lines!Next

\* A chunk in raw fallback passes.
LEMMA IngestRawPasses ==
    ASSUME FrameInv, NEW k \in 1..MaxChunkBytes, IngestRaw(k)
    PROVE  Lines!Next
  <1>1. /\ cursor \in Nat /\ Len(source) \in Nat /\ k \in Nat /\ k > 0
        /\ rawFallback /\ ~finished /\ cursor + k <= Len(source)
    BY LastCutType, FrameAssumption DEF FrameInv, IngestRaw
  <1>2. PICK to \in Nat : to = cursor + k
    BY <1>1
  <1>3. LastCut = cursor /\ LastCut' = to
    BY <1>2, IngestRawInv DEF IngestRaw
  <1>4. /\ source' = source /\ finished' = finished /\ rawFallback' = rawFallback
        /\ outputs' = Append(outputs, Forward(SubSeq(source, LastCut + 1, to)))
    BY <1>2, <1>3 DEF IngestRaw, Emit
  <1>5. Lines!PassRaw(to)
    BY <1>1, <1>3, <1>4 DEF Lines!PassRaw, Lines!Output, Lines!Piece, Forward
  <1>6. to \in (LastCut + 1)..Len(source)
    BY <1>1, <1>2, <1>3
  <1> QED
    BY <1>5, <1>6 DEF Lines!Next

\* What is decided does not depend on how the daemon cuts the stream: the
\* assembler implements the filter that knows no chunks (acp_frame.rs:14-25).
THEOREM FrameImplementsLines == FrameSpec => ImplementsLines
  <1>1. FrameInit => Lines!Init
    BY DEF FrameInit, Lines!Init, LastCut, EndOf
  <1>2. FrameInv /\ [FrameNext]_frameVars => [Lines!Next]_(Lines!vars)
    <2> SUFFICES ASSUME FrameInv, [FrameNext]_frameVars PROVE [Lines!Next]_(Lines!vars)
      OBVIOUS
    <2> USE DEF Lines!vars
    <2>1. ASSUME NEW k \in 1..MaxChunkBytes, Ingest(k) PROVE UNCHANGED Lines!vars
      BY <2>1 DEF Ingest, LastCut
    <2>2. ASSUME NEW k \in 1..MaxChunkBytes, IngestRaw(k) PROVE Lines!Next
      BY <2>2, IngestRawPasses
    <2>3. ASSUME NEW i \in 1..Len(chunk), CompleteFrame(i) PROVE Lines!Next
      BY <2>3, CompleteFrameDecides
    <2>4. CASE BufferTail
      BY <2>4 DEF BufferTail, LastCut
    <2>5. CASE OverflowTail
      BY <2>5, OverflowTailGivesUp
    <2>6. CASE Finish
      BY <2>6, FinishInv DEF Finish, Lines!Next, Lines!Stop
    <2>7. CASE UNCHANGED frameVars
      BY <2>7 DEF frameVars, LastCut
    <2> QED
      BY <2>1, <2>2, <2>3, <2>4, <2>5, <2>6, <2>7 DEF FrameNext, Scan
  <1> QED
    BY <1>1, <1>2, FrameInvariant, PTL DEF FrameSpec, ImplementsLines, Lines!Spec

=============================================================================
