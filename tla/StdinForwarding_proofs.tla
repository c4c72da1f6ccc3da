----------------------- MODULE StdinForwarding_proofs -----------------------
(***************************************************************************)
(* What the stdin task hands on is what it read, for every host, every     *)
(* limit and every buffer.                                                 *)
(***************************************************************************)
EXTENDS StdinForwarding, SequenceTheorems, TLAPS

----------------------------------------------------------------------------
(* Masking the first line of a growing stream.                             *)

\* A stream whose first line is not known to end within the limit is kept.
LEMMA TranslatedOpen ==
    ASSUME NEW bytes,
           \A i \in 1..Len(bytes) : i <= MaxFirstFrameBytes => ~FirstNewlineAt(bytes, i)
    PROVE  Translated(bytes) = bytes
  <1> DEFINE ends == {i \in 1..Len(bytes) : i <= MaxFirstFrameBytes /\ FirstNewlineAt(bytes, i)}
  <1>1. ends = {}
    OBVIOUS
  <1> QED
    BY <1>1 DEF Translated

\* One whose first line ends at i has that line masked.
LEMMA TranslatedLine ==
    ASSUME NEW bytes, Len(bytes) \in Nat, NEW i \in 1..Len(bytes),
           i <= MaxFirstFrameBytes, FirstNewlineAt(bytes, i)
    PROVE  Translated(bytes) = MaskFrame(SubSeq(bytes, 1, i)) \o SubSeq(bytes, i + 1, Len(bytes))
  <1> DEFINE ends == {j \in 1..Len(bytes) : j <= MaxFirstFrameBytes /\ FirstNewlineAt(bytes, j)}
  <1>1. i \in ends
    OBVIOUS
  <1>2. ASSUME NEW j \in ends PROVE j = i
    <2>1. /\ bytes[i] = NL /\ \A n \in 1..(i - 1) : bytes[n] # NL
          /\ bytes[j] = NL /\ \A n \in 1..(j - 1) : bytes[n] # NL
          /\ j \in 1..Len(bytes)
      BY DEF FirstNewlineAt
    <2>2. ~(j < i) /\ ~(i < j)
      BY <2>1
    <2> QED
      BY <2>1, <2>2
  <1>3. ends = {i}
    BY <1>1, <1>2
  <1>4. (CHOOSE j \in ends : TRUE) = i
    BY <1>3
  <1>5. Translated(bytes) =
          IF ends = {} THEN bytes
          ELSE MaskFrame(SubSeq(bytes, 1, CHOOSE j \in ends : TRUE))
               \o SubSeq(bytes, (CHOOSE j \in ends : TRUE) + 1, Len(bytes))
    BY DEF Translated
  <1> HIDE DEF ends
  <1> QED
    BY <1>1, <1>4, <1>5

\* A prefix of a stream, and a prefix of that.
LEMMA PrefixIs ==
    ASSUME NEW s \in Seq(HostByte), NEW n \in Nat, n <= Len(s)
    PROVE  /\ SubSeq(s, 1, n) \in Seq(HostByte) /\ Len(SubSeq(s, 1, n)) = n
           /\ \A i \in 1..n : SubSeq(s, 1, n)[i] = s[i]
  OBVIOUS

LEMMA PieceIs ==
    ASSUME NEW s \in Seq(HostByte), NEW a \in Nat, NEW b \in Nat, a <= b, b <= Len(s)
    PROVE  /\ SubSeq(s, a + 1, b) \in Seq(HostByte)
           /\ Len(SubSeq(s, a + 1, b)) = b - a
           /\ \A i \in 1..(b - a) : SubSeq(s, a + 1, b)[i] = s[a + i]
  OBVIOUS

LEMMA PrefixOfPrefix ==
    ASSUME NEW s \in Seq(HostByte), NEW n \in Nat, n <= Len(s), NEW i \in Nat, i <= n
    PROVE  /\ SubSeq(SubSeq(s, 1, n), 1, i) = SubSeq(s, 1, i)
           /\ SubSeq(SubSeq(s, 1, n), i + 1, n) = SubSeq(s, i + 1, n)
  <1> DEFINE front == SubSeq(s, 1, n)
  <1>1. /\ front \in Seq(HostByte) /\ Len(front) = n
        /\ \A j \in 1..n : front[j] = s[j]
    BY PrefixIs
  <1>2. i <= Len(s) /\ Len(s) \in Nat
    OBVIOUS
  <1>3. /\ SubSeq(s, 1, i) \in Seq(HostByte) /\ Len(SubSeq(s, 1, i)) = i
        /\ \A j \in 1..i : SubSeq(s, 1, i)[j] = s[j]
    BY <1>2, PrefixIs
  <1>4. /\ SubSeq(s, i + 1, n) \in Seq(HostByte) /\ Len(SubSeq(s, i + 1, n)) = n - i
        /\ \A j \in 1..(n - i) : SubSeq(s, i + 1, n)[j] = s[i + j]
    BY <1>2, PieceIs
  <1> HIDE DEF front
  <1>5. /\ SubSeq(front, 1, i) \in Seq(HostByte) /\ Len(SubSeq(front, 1, i)) = i
        /\ \A j \in 1..i : SubSeq(front, 1, i)[j] = front[j]
    BY <1>1, PrefixIs
  <1>6. /\ SubSeq(front, i + 1, n) \in Seq(HostByte) /\ Len(SubSeq(front, i + 1, n)) = n - i
        /\ \A j \in 1..(n - i) : SubSeq(front, i + 1, n)[j] = front[i + j]
    BY <1>1, PieceIs
  <1>7. SubSeq(front, 1, i) = SubSeq(s, 1, i)
    <2>1. \A j \in 1..i : SubSeq(front, 1, i)[j] = SubSeq(s, 1, i)[j]
      BY <1>1, <1>3, <1>5
    <2> QED
      BY <2>1, <1>3, <1>5, SeqEqual
  <1>8. SubSeq(front, i + 1, n) = SubSeq(s, i + 1, n)
    <2>1. \A j \in 1..(n - i) : front[i + j] = s[i + j]
      BY <1>1
    <2>2. \A j \in 1..(n - i) : SubSeq(front, i + 1, n)[j] = SubSeq(s, i + 1, n)[j]
      BY <2>1, <1>4, <1>6
    <2> QED
      BY <2>2, <1>4, <1>6, SeqEqual
  <1> QED
    BY <1>7, <1>8 DEF front

\* Once it is known where the first line ends, or that it does not end within
\* the limit, what is read next is handed on as it is.
LEMMA TranslatedGrows ==
    ASSUME NEW s \in HostStreams, NEW n \in Nat, NEW m \in Nat, n <= m, m <= Len(s),
           \/ \E i \in 1..n : i <= MaxFirstFrameBytes /\ FirstNewlineAt(s, i)
           \/ n >= MaxFirstFrameBytes /\ \A i \in 1..MaxFirstFrameBytes : s[i] # NL
    PROVE  Translated(SubSeq(s, 1, m)) = Translated(SubSeq(s, 1, n)) \o SubSeq(s, n + 1, m)
  <1>1. s \in Seq(HostByte) /\ n <= Len(s) /\ Len(s) \in Nat /\ MaxFirstFrameBytes \in Nat
    BY HostStreamsAssumption, MaskAssumption
  <1> DEFINE short == SubSeq(s, 1, n)
             long == SubSeq(s, 1, m)
  <1>2. /\ short \in Seq(HostByte) /\ Len(short) = n /\ \A i \in 1..n : short[i] = s[i]
        /\ long \in Seq(HostByte) /\ Len(long) = m /\ \A i \in 1..m : long[i] = s[i]
    BY <1>1, PrefixIs
  <1>3. long = short \o SubSeq(s, n + 1, m)
    BY <1>1, ConcatAdjacentSubSeq
  <1>4. SubSeq(s, n + 1, m) \in Seq(HostByte)
    BY <1>1, PieceIs
  <1>5. ASSUME NEW i \in 1..n, i <= MaxFirstFrameBytes, FirstNewlineAt(s, i)
        PROVE  Translated(long) = Translated(short) \o SubSeq(s, n + 1, m)
    <2>0. i \in Nat /\ i <= n /\ i <= m /\ i \in 1..m /\ i \in 1..Len(s)
      BY <1>1
    <2>1. FirstNewlineAt(short, i) /\ FirstNewlineAt(long, i)
      <3>1. s[i] = NL /\ \A j \in 1..(i - 1) : s[j] # NL
        BY <1>5 DEF FirstNewlineAt
      <3>2. \A j \in 1..(i - 1) : j \in 1..n /\ j \in 1..m
        BY <2>0
      <3>3. short[i] = NL /\ long[i] = NL
        BY <1>2, <2>0, <3>1
      <3>4. \A j \in 1..(i - 1) : short[j] # NL /\ long[j] # NL
        BY <1>2, <3>1, <3>2
      <3> QED
        BY <3>3, <3>4 DEF FirstNewlineAt
    <2> DEFINE head == MaskFrame(SubSeq(s, 1, i))
    <2>2. head \in Seq(HostByte)
      BY <2>0, MaskedBytesAssumption
    <2> HIDE DEF short, long
    <2>3. /\ Translated(short) = MaskFrame(SubSeq(short, 1, i)) \o SubSeq(short, i + 1, n)
          /\ Translated(long) = MaskFrame(SubSeq(long, 1, i)) \o SubSeq(long, i + 1, m)
      BY <1>2, <1>5, <2>0, <2>1, TranslatedLine
    <2>4. /\ SubSeq(short, 1, i) = SubSeq(s, 1, i) /\ SubSeq(short, i + 1, n) = SubSeq(s, i + 1, n)
          /\ SubSeq(long, 1, i) = SubSeq(s, 1, i) /\ SubSeq(long, i + 1, m) = SubSeq(s, i + 1, m)
      BY <1>1, <2>0, PrefixOfPrefix DEF short, long
    <2>5. SubSeq(s, i + 1, n) \in Seq(HostByte)
      BY <1>1, <2>0, PieceIs
    <2>6. SubSeq(s, i + 1, n) \o SubSeq(s, n + 1, m) = SubSeq(s, i + 1, m)
      <3>1. i + 1 \in 1..(Len(s) + 1) /\ n \in ((i + 1) - 1)..Len(s) /\ m \in n..Len(s)
        BY <1>1, <2>0
      <3> QED
        BY <1>1, <3>1, ConcatAdjacentSubSeq
    <2> HIDE DEF head
    <2>7. (head \o SubSeq(s, i + 1, n)) \o SubSeq(s, n + 1, m)
            = head \o (SubSeq(s, i + 1, n) \o SubSeq(s, n + 1, m))
      <3>1. PICK middle \in Seq(HostByte) : middle = SubSeq(s, i + 1, n)
        BY <2>5
      <3>2. PICK last \in Seq(HostByte) : last = SubSeq(s, n + 1, m)
        BY <1>4
      <3>3. (head \o middle) \o last = head \o (middle \o last)
        BY <2>2, ConcatAssociative
      <3> QED
        BY <3>1, <3>2, <3>3
    <2> QED
      BY <2>3, <2>4, <2>6, <2>7 DEF head
  <1>6. ASSUME n >= MaxFirstFrameBytes, \A i \in 1..MaxFirstFrameBytes : s[i] # NL
        PROVE  Translated(long) = Translated(short) \o SubSeq(s, n + 1, m)
    <2>1. \A i \in 1..m : i <= MaxFirstFrameBytes => long[i] # NL
      BY <1>1, <1>2, <1>6
    <2>2. \A i \in 1..n : i <= MaxFirstFrameBytes => short[i] # NL
      BY <1>1, <1>2, <1>6
    <2> HIDE DEF short, long
    <2>3. Translated(long) = long
      BY <1>2, <2>1, TranslatedOpen DEF FirstNewlineAt
    <2>4. Translated(short) = short
      BY <1>2, <2>2, TranslatedOpen DEF FirstNewlineAt
    <2> QED
      BY <1>3, <2>3, <2>4
  <1> HIDE DEF short, long
  <1>7. Translated(long) = Translated(short) \o SubSeq(s, n + 1, m)
    BY <1>5, <1>6
  <1> QED
    BY <1>7 DEF short, long

\* What masking makes of a host's stream are bytes of the host.
LEMMA TranslatedType ==
    ASSUME NEW s \in HostStreams
    PROVE  Translated(s) \in Seq(HostByte)
  <1>1. s \in Seq(HostByte) /\ Len(s) \in Nat
    BY HostStreamsAssumption
  <1>2. ASSUME NEW i \in 1..Len(s), i <= MaxFirstFrameBytes, FirstNewlineAt(s, i)
        PROVE  Translated(s) \in Seq(HostByte)
    <2> DEFINE mask == MaskFrame(SubSeq(s, 1, i))
               rest == SubSeq(s, i + 1, Len(s))
    <2>1. mask \in Seq(HostByte) /\ rest \in Seq(HostByte)
      BY <1>1, MaskedBytesAssumption, PieceIs
    <2>2. Translated(s) = mask \o rest
      BY <1>1, <1>2, TranslatedLine
    <2> HIDE DEF mask, rest
    <2> QED
      BY <2>1, <2>2
  <1>3. ASSUME \A i \in 1..Len(s) : i <= MaxFirstFrameBytes => ~FirstNewlineAt(s, i)
        PROVE  Translated(s) \in Seq(HostByte)
    BY <1>1, <1>3, TranslatedOpen
  <1> QED
    BY <1>2, <1>3

----------------------------------------------------------------------------
(* Steps that move nothing.                                                *)

LEMMA ForwardingInit == StdinInit => ForwardingInv
  <1> SUFFICES ASSUME StdinInit PROVE ForwardingInv
    OBVIOUS
  <1>1. host \in HostStreams /\ host \in Seq(HostByte) /\ Len(host) \in Nat
    BY HostStreamsAssumption DEF StdinInit
  <1>2. <<>> \in Seq(HostByte) /\ Len(<<>>) = 0 /\ <<>> \o <<>> = <<>>
    BY EmptySeq, ConcatEmptySeq
  <1>3. SubSeq(host, 1, 0) = <<>>
    BY <1>1
  <1>4. Translated(<<>>) = <<>>
    BY <1>2, TranslatedOpen
  <1>5. Forwarded = <<>>
    BY <1>3, <1>4 DEF Forwarded, StdinInit
  <1>6. MaxFirstFrameBytes \in Nat /\ CopyBufferBytes \in Nat
    BY MaskAssumption, CopyBufferAssumption
  <1>7. StdinTypeOK
    <2>1. fetched \in 0..Len(host) /\ hostRead \in 0..fetched
      BY <1>1 DEF StdinInit
    <2>2. Len(firstFrame) <= MaxFirstFrameBytes /\ stdinPc # "copy"
      BY <1>2, <1>6 DEF StdinInit
    <2>3. firstFrame \in Seq(HostByte) /\ held \in Seq(HostByte) /\ input \in Seq(HostByte)
      BY <1>2 DEF StdinInit
    <2> QED
      BY <1>1, <2>1, <2>2, <2>3 DEF StdinInit, StdinTypeOK
  <1>8. PlaceInv
    BY <1>1 DEF StdinInit, PlaceInv
  <1>9. FirstFrameInv
    BY <1>3 DEF StdinInit, FirstFrameInv
  <1>10. CopiedInv
    BY <1>2, <1>5 DEF StdinInit, CopiedInv, InputIsRead
  <1> QED
    BY <1>7, <1>8, <1>9, <1>10 DEF ForwardingInv

\* A step that leaves every byte where it is, and the reader too.
LEMMA MoveStep ==
    ASSUME ForwardingInv,
           host' = host, rewrites' = rewrites, stdinDisabled' = stdinDisabled,
           hostRead' = hostRead, firstFrame' = firstFrame, held' = held, input' = input,
           reading' = reading, fetched' = fetched, hostEnd' = hostEnd,
           stdinAbort' \in BOOLEAN,
           \/ /\ stdinPc' = stdinPc /\ stdinEnd' = stdinEnd /\ inputShut' = inputShut
           \/ /\ stdinPc = "off" /\ stdinPc' = IF rewrites THEN "first" ELSE "copy"
              /\ stdinEnd' = stdinEnd /\ inputShut' = inputShut
           \/ /\ stdinPc = "firstWrite" /\ held = <<>> /\ stdinPc' = "copy"
              /\ stdinEnd' = stdinEnd /\ inputShut' = inputShut
           \/ /\ stdinPc = "copy" /\ hostRead = fetched /\ hostEnd = "eof" /\ stdinPc' = "drain"
              /\ stdinEnd' = stdinEnd /\ inputShut' = inputShut
           \/ /\ stdinPc = "drain" /\ held = <<>> /\ stdinPc' = "stopped" /\ stdinEnd' = "eof"
              /\ inputShut' = TRUE
           \/ /\ stdinPc \notin {"off", "stopped"} /\ stdinPc' = "stopped"
              /\ stdinEnd' \in {"error", "cancelled"} /\ inputShut' = inputShut
    PROVE  ForwardingInv'
  <1>1. Len(<<>>) = 0 /\ CopyBufferBytes \in Nat
    BY EmptySeq, CopyBufferAssumption
  <1>2. /\ Forwarded' = Forwarded
        /\ FirstLineKnown' <=> FirstLineKnown
    BY DEF Forwarded, FirstLineKnown
  <1>3. StdinTypeOK'
    <2>1. StdinTypeOK
      BY DEF ForwardingInv
    <2>2. stdinPc' = "copy" => Len(held') <= CopyBufferBytes
      <3>1. stdinPc' = "copy" => stdinPc = "copy" \/ held = <<>>
        BY DEF ForwardingInv, FirstFrameInv
      <3> QED
        BY <1>1, <2>1, <3>1 DEF StdinTypeOK
    <2>3. /\ stdinPc' \in {"off", "first", "firstWrite", "copy", "drain", "stopped"}
          /\ stdinEnd' \in {"running", "eof", "error", "cancelled"}
          /\ inputShut' \in BOOLEAN
      BY <2>1 DEF StdinTypeOK
    <2> QED
      BY <2>1, <2>2, <2>3 DEF StdinTypeOK
  <1>4. PlaceInv'
    BY DEF ForwardingInv, PlaceInv
  <1>5. FirstFrameInv'
    BY <1>2 DEF ForwardingInv, PlaceInv, FirstFrameInv
  <1>6. CopiedInv'
    <2>1. stdinPc' = "stopped" /\ input # <<>> /\ rewrites => FirstLineKnown
      <3>1. stdinPc' = "stopped" => stdinPc \in {"first", "firstWrite", "copy", "drain", "stopped"}
        BY DEF ForwardingInv, StdinTypeOK
      <3>2. stdinPc = "first" => input = <<>>
        BY DEF ForwardingInv, FirstFrameInv
      <3>3. stdinPc \in {"firstWrite", "copy", "drain"} /\ rewrites => FirstLineKnown
        BY DEF ForwardingInv, FirstFrameInv
      <3>4. stdinPc = "stopped" /\ input # <<>> /\ rewrites => FirstLineKnown
        BY DEF ForwardingInv, CopiedInv
      <3> QED
        BY <3>1, <3>2, <3>3, <3>4
    <2>2. /\ stdinPc' \in {"off", "firstWrite", "copy", "drain"} => input \o held = Forwarded
          /\ inputShut' => held = <<>> /\ input \o held = Forwarded
          /\ \/ input \o held = Forwarded
             \/ /\ input = <<>> /\ held = <<>> /\ rewrites /\ stdinPc' \in {"first", "stopped"}
                /\ firstFrame = SubSeq(host, 1, hostRead)
      BY DEF ForwardingInv, PlaceInv, FirstFrameInv, CopiedInv, InputIsRead
    <2> QED
      BY <1>2, <2>1, <2>2 DEF CopiedInv, InputIsRead
  <1> QED
    BY <1>3, <1>4, <1>5, <1>6 DEF ForwardingInv

\* A step of the reader: the task notices nothing yet.
LEMMA ReaderStep ==
    ASSUME ForwardingInv,
           host' = host, rewrites' = rewrites, stdinDisabled' = stdinDisabled,
           hostRead' = hostRead, firstFrame' = firstFrame, held' = held, input' = input,
           stdinPc' = stdinPc, stdinEnd' = stdinEnd, inputShut' = inputShut,
           stdinAbort' = stdinAbort,
           reading' \in BOOLEAN, hostEnd' \in {"open", "eof", "error"},
           fetched' \in fetched..Len(host), hostEnd' = "eof" => fetched' = Len(host)
    PROVE  ForwardingInv'
  <1>1. /\ Forwarded' = Forwarded
        /\ FirstLineKnown' <=> FirstLineKnown
    BY DEF Forwarded, FirstLineKnown
  <1>2. StdinTypeOK'
    <2>1. StdinTypeOK
      BY DEF ForwardingInv
    <2>2. fetched \in Nat /\ hostRead \in Nat /\ Len(host) \in Nat /\ hostRead <= fetched
      BY <2>1 DEF StdinTypeOK
    <2>3. fetched' \in 0..Len(host') /\ hostRead' \in 0..fetched'
      BY <2>2
    <2> QED
      BY <2>1, <2>3 DEF StdinTypeOK
  <1>3. PlaceInv'
    BY DEF ForwardingInv, PlaceInv
  <1>4. FirstFrameInv'
    BY <1>1 DEF ForwardingInv, FirstFrameInv
  <1>5. CopiedInv'
    BY <1>1 DEF ForwardingInv, CopiedInv, InputIsRead
  <1> QED
    BY <1>2, <1>3, <1>4, <1>5 DEF ForwardingInv

----------------------------------------------------------------------------
(* Steps that move bytes.                                                  *)

\* The numbers and sequences the steps below are about.
LEMMA Counts ==
    ASSUME ForwardingInv
    PROVE  /\ host \in HostStreams /\ host \in Seq(HostByte) /\ Len(host) \in Nat
           /\ fetched \in Nat /\ fetched <= Len(host)
           /\ hostRead \in Nat /\ hostRead <= fetched
           /\ firstFrame \in Seq(HostByte) /\ held \in Seq(HostByte) /\ input \in Seq(HostByte)
           /\ Len(firstFrame) \in Nat /\ Len(held) \in Nat
           /\ MaxFirstFrameBytes \in Nat /\ MaxFirstFrameBytes > 0
           /\ CopyBufferBytes \in Nat
           /\ SubSeq(host, 1, hostRead) \in Seq(HostByte)
           /\ Len(SubSeq(host, 1, hostRead)) = hostRead
           /\ \A i \in 1..hostRead : SubSeq(host, 1, hostRead)[i] = host[i]
  <1>1. host \in HostStreams /\ StdinTypeOK
    BY DEF ForwardingInv, PlaceInv
  <1>2. /\ host \in Seq(HostByte) /\ fetched \in 0..Len(host) /\ hostRead \in 0..fetched
        /\ firstFrame \in Seq(HostByte) /\ held \in Seq(HostByte) /\ input \in Seq(HostByte)
    BY <1>1 DEF StdinTypeOK
  <1>3. hostRead \in Nat /\ hostRead <= fetched /\ fetched <= Len(host) /\ fetched \in Nat /\ Len(host) \in Nat
    BY <1>2
  <1>4. /\ SubSeq(host, 1, hostRead) \in Seq(HostByte) /\ Len(SubSeq(host, 1, hostRead)) = hostRead
        /\ \A i \in 1..hostRead : SubSeq(host, 1, hostRead)[i] = host[i]
    BY <1>2, <1>3, PrefixIs
  <1> QED
    BY <1>1, <1>2, <1>3, <1>4, MaskAssumption, CopyBufferAssumption

\* Of these, the numbers alone.
LEMMA Positions ==
    ASSUME ForwardingInv
    PROVE  /\ Len(host) \in Nat /\ fetched \in Nat /\ fetched <= Len(host)
           /\ hostRead \in Nat /\ hostRead <= fetched
           /\ Len(held) \in Nat
  BY Counts

\* What a read of k bytes takes.
LEMMA HostBytesIs ==
    ASSUME ForwardingInv, NEW k \in Nat, k > 0, hostRead + k <= fetched
    PROVE  /\ HostBytes(k) \in Seq(HostByte) /\ Len(HostBytes(k)) = k
           /\ \A i \in 1..k : HostBytes(k)[i] = host[hostRead + i]
           /\ SubSeq(host, 1, hostRead) \o HostBytes(k) = SubSeq(host, 1, hostRead + k)
           /\ hostRead + k \in Nat /\ hostRead + k <= Len(host) /\ hostRead + k \in 1..Len(host)
  <1>1. PICK to \in Nat : to = hostRead + k
    BY Counts
  <1>2. hostRead <= to /\ to <= Len(host) /\ to - hostRead = k /\ to \in 1..Len(host)
    BY <1>1, Counts
  <1>3. /\ SubSeq(host, hostRead + 1, to) \in Seq(HostByte)
        /\ Len(SubSeq(host, hostRead + 1, to)) = to - hostRead
        /\ \A i \in 1..(to - hostRead) : SubSeq(host, hostRead + 1, to)[i] = host[hostRead + i]
    <2>1. host \in Seq(HostByte) /\ hostRead \in Nat
      BY Counts
    <2> QED
      BY <1>2, <2>1, PieceIs
  <1>4. SubSeq(host, 1, hostRead) \o SubSeq(host, hostRead + 1, to) = SubSeq(host, 1, to)
    <2>1. 1 \in 1..(Len(host) + 1) /\ hostRead \in (1 - 1)..Len(host) /\ to \in hostRead..Len(host)
      BY <1>2, Counts
    <2> QED
      BY <2>1, Counts, ConcatAdjacentSubSeq
  <1> QED
    BY <1>1, <1>2, <1>3, <1>4 DEF HostBytes

\* A read into the first frame.
LEMMA ReadFirstFrameStep ==
    ASSUME ForwardingInv, NEW k \in Nat, k > 0, ReadFirstFrame(k)
    PROVE  ForwardingInv'
  <1>1. /\ stdinPc = "first" /\ hostRead + k <= fetched
        /\ Len(firstFrame) + k <= MaxFirstFrameBytes
        /\ \A i \in 1..(k - 1) : HostBytes(k)[i] # NL
        /\ hostRead' = hostRead + k /\ firstFrame' = firstFrame \o HostBytes(k)
        /\ stdinEnd' = stdinEnd /\ input' = input /\ inputShut' = inputShut
        /\ stdinAbort' = stdinAbort /\ reading' = reading /\ fetched' = fetched
        /\ hostEnd' = hostEnd /\ stdinDisabled' = stdinDisabled /\ rewrites' = rewrites /\ host' = host
    BY DEF ReadFirstFrame, readerVars, choiceVars
  <1>2. /\ input = <<>> /\ held = <<>> /\ firstFrame = SubSeq(host, 1, hostRead) /\ rewrites
        /\ \A i \in 1..hostRead : host[i] # NL
    BY <1>1 DEF ForwardingInv, FirstFrameInv
  <1>3. PICK to \in Nat : to = hostRead + k /\ to <= Len(host) /\ to \in 1..Len(host)
    BY <1>1, HostBytesIs
  <1>4. /\ firstFrame' = SubSeq(host, 1, to) /\ hostRead' = to
        /\ SubSeq(host, 1, to) \in Seq(HostByte) /\ Len(SubSeq(host, 1, to)) = to
        /\ \A i \in 1..to : SubSeq(host, 1, to)[i] = host[i]
    BY <1>1, <1>2, <1>3, HostBytesIs, Counts, PrefixIs
  <1>5. \A i \in 1..(to - 1) : host[i] # NL
    <2>1. ASSUME NEW i \in 1..(to - 1) PROVE host[i] # NL
      <3>1. CASE i <= hostRead
        BY <1>2, <1>3, <3>1, Counts
      <3>2. CASE i > hostRead
        <4>1. PICK j \in Nat : i = hostRead + j /\ j \in 1..(k - 1) /\ j \in 1..k
          <5>1. hostRead \in Nat /\ to = hostRead + k
            BY <1>3, Positions
          <5>2. i \in Int /\ i < hostRead + k
            BY <5>1
          <5>3. i - hostRead \in Nat /\ i = hostRead + (i - hostRead)
            BY <3>2, <5>1, <5>2
          <5>4. i - hostRead \in 1..(k - 1) /\ i - hostRead \in 1..k
            BY <3>2, <5>1, <5>2
          <5> QED
            BY <5>3, <5>4
        <4> QED
          BY <1>1, <4>1, HostBytesIs
      <3> QED
        BY <3>1, <3>2, Counts
    <2> QED
      BY <2>1
  <1>6. to <= MaxFirstFrameBytes /\ hostRead' \in 0..fetched /\ fetched \in 0..Len(host)
    BY <1>1, <1>2, <1>3, Counts
  <1>7. input \o held = <<>> /\ Len(<<>>) = 0 /\ <<>> \in Seq(HostByte)
    BY <1>2, EmptySeq, ConcatEmptySeq
  <1>8. ~inputShut /\ ~inputShut'
    BY <1>1 DEF ForwardingInv, PlaceInv
  <1>9. PlaceInv' <=> (stdinPc' = "stopped" <=> stdinEnd # "running") /\ (stdinPc' = "drain" => to = Len(host))
    BY <1>1, <1>4, <1>8 DEF ForwardingInv, PlaceInv
  <1>10. CASE FirstFrameComplete(firstFrame')
    <2>1. stdinPc' = "firstWrite" /\ held' = MaskFrame(firstFrame')
      BY <1>10 DEF ReadFirstFrame
    <2>2. host[to] = NL
      BY <1>3, <1>4, <1>10 DEF FirstFrameComplete
    <2>3. FirstNewlineAt(SubSeq(host, 1, to), to) /\ FirstNewlineAt(host, to)
      <3>1. \A i \in 1..(to - 1) : i \in 1..to
        BY <1>3
      <3>2. to \in 1..to
        BY <1>3
      <3> QED
        BY <1>4, <1>5, <2>2, <3>1, <3>2 DEF FirstNewlineAt
    <2>4. held' \in Seq(HostByte)
      BY <1>3, <1>4, <2>1, Counts, MaskedBytesAssumption
    <2>5. Translated(SubSeq(host, 1, to)) = held'
      <3>1. /\ SubSeq(SubSeq(host, 1, to), 1, to) = SubSeq(host, 1, to)
            /\ SubSeq(SubSeq(host, 1, to), to + 1, to) = <<>>
        BY <1>3, <1>4
      <3>2. Translated(SubSeq(host, 1, to)) =
              MaskFrame(SubSeq(SubSeq(host, 1, to), 1, to)) \o SubSeq(SubSeq(host, 1, to), to + 1, to)
        <4>1. PICK s \in Seq(HostByte) : s = SubSeq(host, 1, to) /\ Len(s) = to
          BY <1>4
        <4>2. FirstNewlineAt(s, to) /\ to \in 1..Len(s) /\ Len(s) \in Nat
          BY <1>3, <2>3, <4>1
        <4>3. Translated(s) = MaskFrame(SubSeq(s, 1, to)) \o SubSeq(s, to + 1, Len(s))
          BY <1>6, <4>2, TranslatedLine
        <4> QED
          BY <4>1, <4>3
      <3>3. held' \o <<>> = held'
        BY <2>4, ConcatEmptySeq
      <3> QED
        BY <1>4, <2>1, <3>1, <3>2, <3>3
    <2>6. Forwarded' = held'
      BY <1>1, <1>2, <1>4, <2>5 DEF Forwarded
    <2>7. input' \o held' = held'
      BY <1>1, <1>2, <2>4, ConcatEmptySeq
    <2>8. StdinTypeOK'
      BY <1>1, <1>4, <1>6, <2>1, <2>4 DEF ForwardingInv, StdinTypeOK
    <2>9. PlaceInv'
      BY <1>1, <1>9, <2>1 DEF ForwardingInv, PlaceInv
    <2>10. FirstFrameInv'
      <3>1. \E i \in 1..to : i <= MaxFirstFrameBytes /\ FirstNewlineAt(host, i)
        BY <1>3, <1>6, <2>3
      <3> QED
        BY <1>1, <1>2, <1>4, <2>1, <3>1 DEF FirstFrameInv, FirstLineKnown
    <2>11. CopiedInv'
      BY <1>8, <2>1, <2>6, <2>7 DEF CopiedInv, InputIsRead
    <2> QED
      BY <2>8, <2>9, <2>10, <2>11 DEF ForwardingInv
  <1>11. CASE ~FirstFrameComplete(firstFrame')
    <2>1. stdinPc' = stdinPc /\ held' = held
      BY <1>11 DEF ReadFirstFrame
    <2>2. host[to] # NL
      <3>1. firstFrame' # <<>>
        BY <1>3, <1>4, EmptySeq
      <3> QED
        BY <1>3, <1>4, <1>11, <3>1 DEF FirstFrameComplete
    <2>3. \A i \in 1..to : host[i] # NL
      BY <1>3, <1>5, <2>2
    <2>5. StdinTypeOK'
      BY <1>1, <1>2, <1>4, <1>6, <1>7, <2>1 DEF ForwardingInv, StdinTypeOK
    <2>6. PlaceInv'
      BY <1>1, <1>9, <2>1 DEF ForwardingInv, PlaceInv
    <2>7. FirstFrameInv'
      BY <1>1, <1>2, <1>4, <2>1, <2>3 DEF FirstFrameInv
    <2>8. CopiedInv'
      BY <1>1, <1>2, <1>4, <1>8, <2>1 DEF CopiedInv, InputIsRead
    <2> QED
      BY <2>5, <2>6, <2>7, <2>8 DEF ForwardingInv
  <1> QED
    BY <1>10, <1>11

\* The first frame, unfinished or too long, handed on as it is.
LEMMA FirstFrameUnchangedStep ==
    ASSUME ForwardingInv, FirstFrameUnchanged
    PROVE  ForwardingInv'
  <1>1. /\ stdinPc = "first" /\ stdinPc' = "firstWrite" /\ held' = firstFrame
        /\ FirstFrameFull(firstFrame) \/ (hostRead = fetched /\ hostEnd = "eof")
        /\ hostRead' = hostRead /\ firstFrame' = firstFrame
        /\ stdinEnd' = stdinEnd /\ input' = input /\ inputShut' = inputShut
        /\ stdinAbort' = stdinAbort /\ reading' = reading /\ fetched' = fetched
        /\ hostEnd' = hostEnd /\ stdinDisabled' = stdinDisabled /\ rewrites' = rewrites /\ host' = host
    BY DEF FirstFrameUnchanged, ReaderEmpty, readerVars, choiceVars
  <1>2. /\ input = <<>> /\ firstFrame = SubSeq(host, 1, hostRead) /\ rewrites
        /\ \A i \in 1..hostRead : host[i] # NL
    BY <1>1 DEF ForwardingInv, FirstFrameInv
  <1>3. Forwarded' = firstFrame
    <2>1. PICK s \in Seq(HostByte) : s = SubSeq(host, 1, hostRead) /\ Len(s) = hostRead
                                     /\ \A i \in 1..hostRead : s[i] = host[i]
      BY Counts
    <2>2. \A i \in 1..Len(s) : ~FirstNewlineAt(s, i)
      BY <1>2, <2>1 DEF FirstNewlineAt
    <2>3. Translated(s) = s
      BY <2>2, TranslatedOpen
    <2> QED
      BY <1>1, <1>2, <2>1, <2>3 DEF Forwarded
  <1>4. input' \o held' = firstFrame
    BY <1>1, <1>2, Counts, ConcatEmptySeq
  <1>5. hostRead = Len(host) \/ hostRead >= MaxFirstFrameBytes
    <2>1. CASE FirstFrameFull(firstFrame)
      BY <1>2, <2>1, Counts DEF FirstFrameFull
    <2>2. CASE hostRead = fetched /\ hostEnd = "eof"
      BY <2>2 DEF ForwardingInv, PlaceInv
    <2> QED
      BY <1>1, <2>1, <2>2
  <1>6. FirstLineKnown'
    <2>1. hostRead = Len(host) \/ (hostRead >= MaxFirstFrameBytes /\ \A i \in 1..MaxFirstFrameBytes : host[i] # NL)
      BY <1>2, <1>5, Counts
    <2> QED
      BY <1>1, <2>1 DEF FirstLineKnown
  <1>7. ~inputShut /\ ~inputShut'
    BY <1>1 DEF ForwardingInv, PlaceInv
  <1>8. StdinTypeOK'
    BY <1>1 DEF ForwardingInv, StdinTypeOK
  <1>9. PlaceInv'
    BY <1>1 DEF ForwardingInv, PlaceInv
  <1>10. FirstFrameInv'
    BY <1>1, <1>2, <1>6 DEF FirstFrameInv
  <1>11. CopiedInv'
    BY <1>1, <1>3, <1>4, <1>7 DEF CopiedInv, InputIsRead
  <1> QED
    BY <1>8, <1>9, <1>10, <1>11 DEF ForwardingInv

\* A read of the copy.
LEMMA CopyReadStep ==
    ASSUME ForwardingInv, NEW k \in Nat, k > 0, CopyRead(k)
    PROVE  ForwardingInv'
  <1>1. /\ stdinPc = "copy" /\ stdinPc' = "copy" /\ hostRead + k <= fetched
        /\ Len(held) + k <= CopyBufferBytes
        /\ hostRead' = hostRead + k /\ held' = held \o HostBytes(k)
        /\ firstFrame' = firstFrame
        /\ stdinEnd' = stdinEnd /\ input' = input /\ inputShut' = inputShut
        /\ stdinAbort' = stdinAbort /\ reading' = reading /\ fetched' = fetched
        /\ hostEnd' = hostEnd /\ stdinDisabled' = stdinDisabled /\ rewrites' = rewrites /\ host' = host
    BY DEF CopyRead, readerVars, choiceVars
  <1>2. PICK piece \in Seq(HostByte) : piece = HostBytes(k) /\ Len(piece) = k
    BY <1>1, HostBytesIs
  <1>3. PICK to \in Nat : to = hostRead + k /\ to <= Len(host) /\ to \in 1..Len(host)
    BY <1>1, HostBytesIs
  <1>4. held' \in Seq(HostByte) /\ Len(held') <= CopyBufferBytes
    <2>1. held \o piece \in Seq(HostByte) /\ Len(held \o piece) = Len(held) + Len(piece)
      BY Counts, ConcatProperties
    <2> QED
      BY <1>1, <1>2, <2>1
  <1>5. Forwarded' = Forwarded \o piece
    <2>1. CASE ~rewrites
      BY <1>1, <1>2, <1>3, <2>1, HostBytesIs DEF Forwarded
    <2>2. CASE rewrites
      <3>1. FirstLineKnown /\ hostRead # Len(host)
        BY <1>1, <1>3, <2>2, Counts DEF ForwardingInv, FirstFrameInv
      <3>2. \/ \E i \in 1..hostRead : i <= MaxFirstFrameBytes /\ FirstNewlineAt(host, i)
            \/ hostRead >= MaxFirstFrameBytes /\ \A i \in 1..MaxFirstFrameBytes : host[i] # NL
        BY <3>1 DEF FirstLineKnown
      <3>3. hostRead <= to
        BY <1>3, Counts
      <3>4. Translated(SubSeq(host, 1, to)) = Translated(SubSeq(host, 1, hostRead)) \o SubSeq(host, hostRead + 1, to)
        BY <1>3, <3>2, <3>3, Counts, TranslatedGrows
      <3> QED
        BY <1>1, <1>2, <1>3, <2>2, <3>4 DEF Forwarded, HostBytes
    <2> QED
      BY <2>1, <2>2
  <1>6. input' \o held' = Forwarded'
    <2>1. (input \o held) \o piece = input \o (held \o piece)
      <3>1. input \in Seq(HostByte) /\ held \in Seq(HostByte)
        BY Counts
      <3> QED
        BY <3>1, ConcatAssociative
    <2>2. input \o held = Forwarded
      BY <1>1 DEF ForwardingInv, CopiedInv
    <2> QED
      BY <1>1, <1>2, <1>5, <2>1, <2>2
  <1>7. rewrites => FirstLineKnown'
    <2>1. SUFFICES ASSUME rewrites PROVE FirstLineKnown'
      OBVIOUS
    <2>2. FirstLineKnown /\ hostRead # Len(host)
      BY <1>1, <1>3, <2>1, Counts DEF ForwardingInv, FirstFrameInv
    <2>3. \/ \E i \in 1..to : i <= MaxFirstFrameBytes /\ FirstNewlineAt(host, i)
          \/ to >= MaxFirstFrameBytes /\ \A i \in 1..MaxFirstFrameBytes : host[i] # NL
      <3>1. 1..hostRead \subseteq 1..to /\ (hostRead >= MaxFirstFrameBytes => to >= MaxFirstFrameBytes)
        BY <1>3, Counts
      <3> QED
        BY <2>2, <3>1 DEF FirstLineKnown
    <2> QED
      BY <1>1, <1>3, <2>3 DEF FirstLineKnown
  <1>8. ~inputShut /\ ~inputShut'
    BY <1>1 DEF ForwardingInv, PlaceInv
  <1>9. hostRead' \in 0..fetched
    BY <1>1, Counts
  <1>10. StdinTypeOK'
    BY <1>1, <1>4, <1>9 DEF ForwardingInv, StdinTypeOK
  <1>11. PlaceInv'
    BY <1>1, <1>8 DEF ForwardingInv, PlaceInv
  <1>12. FirstFrameInv'
    BY <1>1, <1>7 DEF FirstFrameInv
  <1>13. CopiedInv'
    BY <1>1, <1>6, <1>8 DEF CopiedInv, InputIsRead
  <1> QED
    BY <1>10, <1>11, <1>12, <1>13 DEF ForwardingInv

\* A write to container stdin.
LEMMA WriteHeldStep ==
    ASSUME ForwardingInv, NEW k \in Nat, WriteHeld(k)
    PROVE  ForwardingInv'
  <1>1. /\ stdinPc \in {"firstWrite", "copy", "drain"} /\ stdinPc' = stdinPc /\ k <= Len(held)
        /\ input' = input \o SubSeq(held, 1, k) /\ held' = SubSeq(held, k + 1, Len(held))
        /\ hostRead' = hostRead /\ firstFrame' = firstFrame
        /\ stdinEnd' = stdinEnd /\ inputShut' = inputShut
        /\ stdinAbort' = stdinAbort /\ reading' = reading /\ fetched' = fetched
        /\ hostEnd' = hostEnd /\ stdinDisabled' = stdinDisabled /\ rewrites' = rewrites /\ host' = host
    BY DEF WriteHeld, readerVars, choiceVars
  <1>2. PICK front \in Seq(HostByte) : front = SubSeq(held, 1, k)
    BY <1>1, Counts, PrefixIs
  <1>3. PICK rest \in Seq(HostByte) : rest = SubSeq(held, k + 1, Len(held)) /\ Len(rest) <= Len(held)
    <2>1. PICK n \in Nat : n = Len(held)
      BY Positions
    <2>2. held \in Seq(HostByte) /\ k <= n /\ n <= Len(held)
      BY <1>1, <2>1, Counts
    <2>3. SubSeq(held, k + 1, n) \in Seq(HostByte) /\ Len(SubSeq(held, k + 1, n)) = n - k
      BY <2>2, PieceIs
    <2>4. n - k <= n
      OBVIOUS
    <2> QED
      BY <2>1, <2>3, <2>4
  <1>4. front \o rest = held
    <2>1. 1 \in 1..(Len(held) + 1) /\ k \in (1 - 1)..Len(held) /\ Len(held) \in k..Len(held)
      BY <1>1, Positions
    <2>2. SubSeq(held, 1, k) \o SubSeq(held, k + 1, Len(held)) = SubSeq(held, 1, Len(held))
      BY <2>1, Counts, ConcatAdjacentSubSeq
    <2> QED
      BY <1>2, <1>3, <2>2, Counts, SubSeqFull
  <1>5. input' \o held' = input \o held
    <2>1. (input \o front) \o rest = input \o (front \o rest)
      <3>1. input \in Seq(HostByte)
        BY Counts
      <3> QED
        BY <3>1, ConcatAssociative
    <2> QED
      BY <1>1, <1>2, <1>3, <1>4, <2>1
  <1>6. input' \in Seq(HostByte) /\ held' \in Seq(HostByte)
    BY <1>1, <1>2, <1>3, Counts, ConcatProperties
  <1>7. stdinPc = "copy" => Len(held') <= CopyBufferBytes
    <2>1. stdinPc = "copy" => Len(held) <= CopyBufferBytes
      BY DEF ForwardingInv, StdinTypeOK
    <2>2. Len(rest) \in Nat
      BY LenProperties
    <2> QED
      BY <1>1, <1>3, <2>1, <2>2, Counts
  <1>8. ~inputShut /\ ~inputShut'
    BY <1>1 DEF ForwardingInv, PlaceInv
  <1>9. Forwarded' = Forwarded /\ (FirstLineKnown' <=> FirstLineKnown)
    BY <1>1 DEF Forwarded, FirstLineKnown
  <1>10. StdinTypeOK'
    BY <1>1, <1>6, <1>7 DEF ForwardingInv, StdinTypeOK
  <1>11. PlaceInv'
    BY <1>1 DEF ForwardingInv, PlaceInv
  <1>12. FirstFrameInv'
    BY <1>1, <1>9 DEF ForwardingInv, FirstFrameInv
  <1>13. CopiedInv'
    BY <1>1, <1>5, <1>8, <1>9 DEF ForwardingInv, CopiedInv, InputIsRead
  <1> QED
    BY <1>10, <1>11, <1>12, <1>13 DEF ForwardingInv

----------------------------------------------------------------------------
(* The task and the host.                                                  *)

\* Every step of the task or the host keeps the invariant.
LEMMA ForwardingStep ==
    ASSUME ForwardingInv, StdinTask \/ Host
    PROVE  ForwardingInv'
  <1>1. ASSUME NEW k \in 1..Len(host), ReadFirstFrame(k) PROVE ForwardingInv'
    BY <1>1, ReadFirstFrameStep, Counts
  <1>2. ASSUME NEW k \in 1..Len(host), CopyRead(k) PROVE ForwardingInv'
    BY <1>2, CopyReadStep, Counts
  <1>3. ASSUME NEW k \in 1..Len(held), WriteHeld(k) PROVE ForwardingInv'
    BY <1>3, WriteHeldStep, Counts
  <1>4. CASE FirstFrameUnchanged
    BY <1>4, FirstFrameUnchangedStep
  <1>5. CASE FirstFrameWritten \/ CopyEof
    <2>1. stdinAbort' \in BOOLEAN
      BY <1>5 DEF FirstFrameWritten, CopyEof, ForwardingInv, StdinTypeOK
    <2> QED
      BY <1>5, <2>1, MoveStep DEF FirstFrameWritten, CopyEof, ReaderEmpty, readerVars, choiceVars
  <1>6. CASE ShutInput
    <2>1. stdinAbort' \in BOOLEAN
      BY <1>6 DEF ShutInput, StopStdin, ForwardingInv, StdinTypeOK
    <2> QED
      BY <1>6, <2>1, MoveStep DEF ShutInput, StopStdin, readerVars, choiceVars
  <1>7. CASE StdinFails
    <2>1. stdinAbort' \in BOOLEAN
      BY <1>7 DEF StdinFails, StopStdin, ForwardingInv, StdinTypeOK
    <2>2. stdinPc \notin {"off", "stopped"}
      BY <1>7 DEF StdinFails, AtRead
    <2> QED
      BY <1>7, <2>1, <2>2, MoveStep DEF StdinFails, StopStdin, readerVars, choiceVars
  <1>8. CASE StdinCancelled
    <2>1. stdinAbort' \in BOOLEAN
      BY <1>8 DEF StdinCancelled, CancelStdin, StopStdin, ForwardingInv, StdinTypeOK
    <2> QED
      BY <1>8, <2>1, MoveStep
      DEF StdinCancelled, CancelStdin, StdinAlive, StopStdin, readerVars, choiceVars
  <1>9. CASE StartRead
    <2>1. /\ reading' = TRUE /\ fetched' \in fetched..Len(host) /\ hostEnd' = hostEnd
          /\ hostEnd \in {"open", "eof", "error"} /\ hostEnd # "eof"
      BY <1>9, Counts DEF StartRead
    <2> QED
      BY <1>9, <2>1, ReaderStep DEF StartRead, copyVars, choiceVars
  <1>10. ASSUME NEW k \in 1..Len(host), HostSends(k) PROVE ForwardingInv'
    <2>1. /\ reading' = FALSE /\ fetched' \in fetched..Len(host) /\ hostEnd' = hostEnd
          /\ hostEnd \in {"open", "eof", "error"}
      BY <1>10, Counts DEF HostSends, ForwardingInv, StdinTypeOK
    <2>2. hostEnd # "eof"
      BY <1>10, Counts DEF HostSends, ForwardingInv, PlaceInv
    <2> QED
      BY <1>10, <2>1, <2>2, ReaderStep DEF HostSends, copyVars, choiceVars
  <1>11. ASSUME NEW how \in {"eof", "error"}, HostEnds(how) PROVE ForwardingInv'
    <2>1. /\ reading' = FALSE /\ fetched' \in fetched..Len(host) /\ hostEnd' = how
          /\ how = "eof" => fetched' = Len(host)
      BY <1>11, Counts DEF HostEnds
    <2> QED
      BY <1>11, <2>1, ReaderStep DEF HostEnds, copyVars, choiceVars
  <1> QED
    BY <1>1, <1>2, <1>3, <1>4, <1>5, <1>6, <1>7, <1>8, <1>9, <1>10, <1>11 DEF StdinTask, Host

\* So do the steps by which the call starts, aborts and drops the task.
LEMMA SpawnStep ==
    ASSUME ForwardingInv, SpawnStdin
    PROVE  ForwardingInv'
  <1>1. stdinAbort' \in BOOLEAN
    BY DEF SpawnStdin, ForwardingInv, StdinTypeOK
  <1> QED
    BY <1>1, MoveStep DEF SpawnStdin, readerVars, choiceVars

LEMMA AbortStep ==
    ASSUME ForwardingInv, AbortStdin
    PROVE  ForwardingInv'
  BY MoveStep DEF AbortStdin, copyVars, readerVars, choiceVars

LEMMA CancelStep ==
    ASSUME ForwardingInv, CancelStdin
    PROVE  ForwardingInv'
  <1>1. stdinAbort' \in BOOLEAN
    BY DEF CancelStdin, StopStdin, ForwardingInv, StdinTypeOK
  <1> QED
    BY <1>1, MoveStep DEF CancelStdin, StdinAlive, StopStdin, readerVars, choiceVars

LEMMA IdleStep ==
    ASSUME ForwardingInv, UNCHANGED stdinVars
    PROVE  ForwardingInv'
  <1>1. stdinAbort' \in BOOLEAN
    BY DEF stdinVars, ForwardingInv, StdinTypeOK
  <1> QED
    BY <1>1, MoveStep DEF stdinVars, copyVars, readerVars, choiceVars

----------------------------------------------------------------------------
(* The whole of the host's stream.                                         *)

LEMMA PrefixOfJoin ==
    ASSUME NEW a \in Seq(HostByte), NEW b \in Seq(HostByte)
    PROVE  IsPrefix(a, a \o b)
  <1>1. /\ a \o b \in Seq(HostByte) /\ Len(a \o b) = Len(a) + Len(b) /\ Len(a) \in Nat /\ Len(b) \in Nat
        /\ \A i \in 1..Len(a) : (a \o b)[i] = a[i]
    BY ConcatProperties
  <1>2. SubSeq(a, 1, Len(a)) = SubSeq(a \o b, 1, Len(a))
    BY <1>1
  <1> QED
    BY <1>1, <1>2 DEF IsPrefix

\* What is yet to be read follows what was handed on, once something was.
LEMMA RestFollows ==
    ASSUME ForwardingInv, input # <<>>
    PROVE  \E rest \in Seq(HostByte) : AllForwarded = Forwarded \o rest
  <1>1. SubSeq(host, 1, Len(host)) = host /\ SubSeq(host, 1, hostRead) \in Seq(HostByte)
    BY Counts
  <1>2. SubSeq(host, hostRead + 1, Len(host)) \in Seq(HostByte) /\ hostRead <= Len(host)
    BY Counts, PieceIs
  <1>3. CASE ~rewrites
    <2>1. host = SubSeq(host, 1, hostRead) \o SubSeq(host, hostRead + 1, Len(host))
      <3>1. 1 \in 1..(Len(host) + 1) /\ hostRead \in (1 - 1)..Len(host) /\ Len(host) \in hostRead..Len(host)
        BY <1>2, Positions
      <3> QED
        BY <1>1, <3>1, Counts, ConcatAdjacentSubSeq
    <2> QED
      BY <1>2, <1>3, <2>1 DEF AllForwarded, Forwarded
  <1>4. CASE rewrites
    <2>1. FirstLineKnown
      <3>1. stdinPc \in {"off", "first", "firstWrite", "copy", "drain", "stopped"}
        BY DEF ForwardingInv, StdinTypeOK
      <3> QED
        BY <1>4, <3>1 DEF ForwardingInv, FirstFrameInv, CopiedInv
    <2>2. CASE hostRead = Len(host)
      <3>1. AllForwarded = Forwarded
        BY <1>1, <1>4, <2>2 DEF AllForwarded, Forwarded
      <3>2. input \o held = Forwarded
        BY DEF ForwardingInv, CopiedInv, InputIsRead
      <3>3. Forwarded \in Seq(HostByte)
        <4>1. input \in Seq(HostByte) /\ held \in Seq(HostByte)
          BY Counts
        <4>2. input \o held \in Seq(HostByte)
          BY <4>1
        <4> QED
          BY <3>2, <4>2
      <3>4. Forwarded \o <<>> = Forwarded /\ <<>> \in Seq(HostByte)
        BY <3>3, EmptySeq, ConcatEmptySeq
      <3> QED
        BY <3>1, <3>4
    <2>3. CASE hostRead # Len(host)
      <3>1. \/ \E i \in 1..hostRead : i <= MaxFirstFrameBytes /\ FirstNewlineAt(host, i)
            \/ hostRead >= MaxFirstFrameBytes /\ \A i \in 1..MaxFirstFrameBytes : host[i] # NL
        BY <2>1, <2>3 DEF FirstLineKnown
      <3>2. /\ host \in HostStreams /\ hostRead \in Nat /\ Len(host) \in Nat /\ Len(host) <= Len(host)
        BY Counts
      <3>3. Translated(SubSeq(host, 1, Len(host))) =
                Translated(SubSeq(host, 1, hostRead)) \o SubSeq(host, hostRead + 1, Len(host))
        BY <1>2, <3>1, <3>2, TranslatedGrows
      <3> QED
        BY <1>1, <1>2, <1>4, <3>3 DEF AllForwarded, Forwarded
    <2> QED
      BY <2>2, <2>3
  <1> QED
    BY <1>3, <1>4

\* So container stdin is at all times a prefix of what the whole stream becomes, and
\* is all of it when it is shut down.
LEMMA InputIsPrefix ==
    ASSUME ForwardingInv
    PROVE  InputFaithful
  <1>1. input \in Seq(HostByte) /\ held \in Seq(HostByte)
    BY Counts
  <1>2. InputIsRead
    BY DEF ForwardingInv, CopiedInv
  <1>3. IsPrefix(input, AllForwarded)
    <2>1. CASE input = <<>>
      <3>1. Len(AllForwarded) \in Nat
        <4>1. host \in Seq(HostByte)
          BY Counts
        <4>2. CASE ~rewrites
          BY <4>1, <4>2 DEF AllForwarded
        <4>3. CASE rewrites
          <5>1. Translated(host) \in Seq(HostByte)
            BY TranslatedType, Counts
          <5> QED
            BY <4>3, <5>1 DEF AllForwarded
        <4> QED
          BY <4>2, <4>3
      <3>2. Len(input) = 0 /\ SubSeq(input, 1, 0) = <<>> /\ SubSeq(AllForwarded, 1, 0) = <<>>
        BY <2>1, <3>1
      <3> QED
        BY <3>1, <3>2 DEF IsPrefix
    <2>2. CASE input # <<>>
      <3>1. PICK rest \in Seq(HostByte) : AllForwarded = Forwarded \o rest
        BY <2>2, RestFollows
      <3>2. Forwarded = input \o held
        BY <1>2, <2>2 DEF InputIsRead
      <3>3. (input \o held) \o rest = input \o (held \o rest) /\ held \o rest \in Seq(HostByte)
        BY <1>1, ConcatAssociative
      <3>4. IsPrefix(input, input \o (held \o rest))
        BY <1>1, <3>3, PrefixOfJoin
      <3> QED
        BY <3>1, <3>2, <3>3, <3>4
    <2> QED
      BY <2>1, <2>2
  <1>4. inputShut => input = AllForwarded
    <2> SUFFICES ASSUME inputShut PROVE input = AllForwarded
      OBVIOUS
    <2>1. held = <<>> /\ input \o held = Forwarded /\ hostRead = Len(host)
      BY DEF ForwardingInv, CopiedInv, PlaceInv
    <2>2. input \o <<>> = input
      BY <1>1, ConcatEmptySeq
    <2>3. SubSeq(host, 1, Len(host)) = host
      BY Counts
    <2> QED
      BY <2>1, <2>2, <2>3 DEF AllForwarded, Forwarded
  <1> QED
    BY <1>2, <1>3, <1>4 DEF InputFaithful

=============================================================================
