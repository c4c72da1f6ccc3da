--------------------------- MODULE SessionContract ---------------------------
(***************************************************************************)
(* What an enforced session promises the host, the agent and its caller,   *)
(* without chunks, tasks, a sink or a timeout: the agent's outputs are     *)
(* judged, and acted on one by one in their order; a denied request puts   *)
(* its answer into the one mailbox that host input goes through; the agent *)
(* is given what is in the mailbox, in its order and each piece once.  The *)
(* mailbox may break until it is shut, and is then lost with what is in    *)
(* it.  Container stdin is shut only with an empty mailbox, when no answer *)
(* can come any more.  A success means that all outputs were acted on,     *)
(* that the mailbox is empty because it was given or has broken, and that  *)
(* nothing happens to it any more; not that container stdin was shut.      *)
(***************************************************************************)
EXTENDS Integers, Sequences, SequencesExt

CONSTANTS
    Answer(_),   \* the error response to an output that is a denied request
    Room         \* how much the mailbox holds

VARIABLES
    judged,      \* the outputs of the agent, each with its verdict
    acted,       \* how many of them were shown, dropped or answered
    waiting,     \* the mailbox
    given,       \* what the agent was given
    listening,   \* the agent is still listened to
    broken,      \* the mailbox has broken
    shut,        \* container stdin was shut
    report       \* none, ok or failed

inputVars == <<waiting, given, broken, shut>>
contractVars == <<judged, acted, inputVars, listening, report>>

Init ==
    /\ judged = <<>> /\ acted = 0
    /\ waiting = <<>> /\ given = <<>> /\ broken = FALSE /\ shut = FALSE
    /\ listening = TRUE /\ report = "none"

\* Sequence t is s with one more element.
OneMore(s, t) == Len(t) = Len(s) + 1 /\ IsPrefix(s, t)

\* The mailbox is in use, and takes one more piece.
Open == ~broken /\ ~shut /\ report # "ok"
Takes == Open /\ Len(waiting) < Room

Judge ==
    /\ listening /\ OneMore(judged, judged')
    /\ UNCHANGED <<acted, inputVars, listening, report>>

Act ==
    /\ listening /\ acted < Len(judged)
    /\ acted' = acted + 1
    /\ IF judged[acted'].kind = "BlockRequest" /\ ~broken
       THEN Takes /\ waiting' = Append(waiting, Answer(judged[acted']))
       ELSE UNCHANGED waiting
    /\ UNCHANGED <<judged, given, broken, shut, listening, report>>

\* A piece of host input.
Relay ==
    /\ Takes
    /\ OneMore(waiting, waiting') /\ Last(waiting').kind = "Forward"
    /\ UNCHANGED <<judged, acted, given, broken, shut, listening, report>>

Give ==
    /\ waiting # <<>>
    /\ given' = Append(given, Head(waiting)) /\ waiting' = Tail(waiting)
    /\ UNCHANGED <<judged, acted, broken, shut, listening, report>>

Break ==
    /\ Open
    /\ broken' = TRUE /\ waiting' = <<>>
    /\ UNCHANGED <<judged, acted, given, shut, listening, report>>

StopListening ==
    /\ listening /\ listening' = FALSE
    /\ UNCHANGED <<judged, acted, inputVars, report>>

Shut ==
    /\ ~listening /\ Open /\ waiting = <<>>
    /\ shut' = TRUE
    /\ UNCHANGED <<judged, acted, waiting, given, broken, listening, report>>

Succeed ==
    /\ report = "none" /\ ~listening
    /\ acted = Len(judged) /\ waiting = <<>>
    /\ report' = "ok"
    /\ UNCHANGED <<judged, acted, inputVars, listening>>

Fail ==
    /\ report = "none" /\ ~listening
    /\ report' = "failed"
    /\ UNCHANGED <<judged, acted, inputVars, listening>>

Next ==
    \/ Judge \/ Act \/ Relay \/ Give \/ Break \/ StopListening
    \/ Shut \/ Succeed \/ Fail

Spec == Init /\ [][Next]_contractVars

=============================================================================
