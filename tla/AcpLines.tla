------------------------------- MODULE AcpLines -------------------------------
(***************************************************************************)
(* What the outbound filter promises, without chunks and buffers: a byte   *)
(* stream is consumed line by line, each line with the policy's verdict.   *)
(* It may give up only on a run of more than MaxFrameBytes bytes without a *)
(* newline, and from then on every byte passes.                            *)
(***************************************************************************)
EXTENDS AcpPolicy, Framing

CONSTANTS MaxFrameBytes, Sources, Parse(_)

VARIABLES source, position, emitted, raw, stopped

vars == <<source, position, emitted, raw, stopped>>

\* The bytes up to position "to" that no output holds yet.
Piece(to) == SubSeq(source, position + 1, to)

\* The policy's verdict on a line.
Verdict(line) == Evaluate(Parse(Payload(line)))

Init ==
    /\ source \in Sources
    /\ position = 0
    /\ emitted = <<>>
    /\ raw = FALSE
    /\ stopped = FALSE

Output(kind, to) ==
    /\ emitted' = Append(emitted, [kind |-> kind, bytes |-> Piece(to)])
    /\ position' = to
    /\ UNCHANGED <<source, stopped>>

\* The next line is complete: decide it.
DecideLine(to) ==
    /\ ~stopped /\ ~raw
    /\ source[to] = NL
    /\ \A i \in (position + 1)..(to - 1) : source[i] # NL
    /\ Output(Verdict(Piece(to)), to)
    /\ UNCHANGED raw

\* Too many bytes without a newline: pass them and stop deciding.
GiveUp(to) ==
    /\ ~stopped /\ ~raw
    /\ to - position > MaxFrameBytes
    /\ \A i \in (position + 1)..to : source[i] # NL
    /\ Output("Forward", to)
    /\ raw' = TRUE

PassRaw(to) ==
    /\ ~stopped /\ raw
    /\ Output("Forward", to)
    /\ UNCHANGED raw

\* End of stream: what is not a complete line never comes out.
Stop ==
    /\ ~stopped
    /\ stopped' = TRUE
    /\ UNCHANGED <<source, position, emitted, raw>>

Next ==
    \/ \E to \in (position + 1)..Len(source) : DecideLine(to) \/ GiveUp(to) \/ PassRaw(to)
    \/ Stop

Spec == Init /\ [][Next]_vars

=============================================================================
