------------------------------- MODULE Framing -------------------------------
(***************************************************************************)
(* Newline framing shared by both directions of an ACP session             *)
(* (split_frame_line_ending and trailing_line_ending).                     *)
(***************************************************************************)
EXTENDS Integers, Sequences

CONSTANTS NL, CR    \* "\n" and "\r"

ASSUME LineEndingAssumption == NL # CR

\* The first newline of s is at i.
FirstNewlineAt(s, i) == s[i] = NL /\ \A j \in 1..(i - 1) : s[j] # NL

NoNewline(s) == \A i \in 1..Len(s) : s[i] # NL

EndsWith(frame, ending) ==
    /\ Len(frame) >= Len(ending)
    /\ SubSeq(frame, Len(frame) - Len(ending) + 1, Len(frame)) = ending

LineEnding(frame) ==
    IF EndsWith(frame, <<CR, NL>>) THEN <<CR, NL>>
    ELSE IF EndsWith(frame, <<NL>>) THEN <<NL>> ELSE <<>>

Payload(frame) == SubSeq(frame, 1, Len(frame) - Len(LineEnding(frame)))

=============================================================================
