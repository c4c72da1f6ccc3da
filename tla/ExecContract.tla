---------------------------- MODULE ExecContract ----------------------------
(***************************************************************************)
(* What one call of exec promises its caller, without sessions, tasks or   *)
(* daemon calls: the records of the exec reach the host in order, each on  *)
(* the stream where the mode puts it, and an exit code is reported only    *)
(* when it is that of the exec and everything the exec said was shown.     *)
(* A call may fail at any time.                                            *)
(***************************************************************************)
EXTENDS Integers, Sequences

CONSTANTS
    Scripts,    \* the sequences of output records an exec may produce
    ExitCodes

VARIABLES
    mode,       \* Attached, Detached or Protocol
    script,     \* the records the exec produces, if it lives
    exitCode,   \* the code it exited with
    said,       \* how many records it has produced
    shown,      \* how many of them the call is done with
    out,        \* host stdout, as positions in the script
    err,        \* host stderr
    outcome,    \* none, failed or finished
    reported    \* the exit code reported

contractVars == <<mode, script, exitCode, said, shown, out, err, outcome, reported>>

NoCode == <<>>

\* Echoed input belongs on the terminal of an attached session, and nowhere in a
\* protocol session.
OnStdout == {"StdOut", "Console"} \cup (IF mode = "Attached" THEN {"StdIn"} ELSE {})

ContractInit ==
    /\ mode \in {"Attached", "Detached", "Protocol"}
    /\ script \in Scripts /\ exitCode = NoCode
    /\ said = 0 /\ shown = 0 /\ out = <<>> /\ err = <<>>
    /\ outcome = "none" /\ reported = NoCode

Say ==
    /\ exitCode = NoCode /\ said < Len(script)
    /\ said' = said + 1
    /\ UNCHANGED <<mode, script, exitCode, shown, out, err, outcome, reported>>

Exit ==
    /\ exitCode = NoCode
    /\ \E code \in ExitCodes : exitCode' = <<code>>
    /\ UNCHANGED <<mode, script, said, shown, out, err, outcome, reported>>

Show ==
    /\ outcome = "none" /\ mode # "Detached" /\ shown < said
    /\ shown' = shown + 1
    /\ out' = IF script[shown'] \in OnStdout THEN Append(out, shown') ELSE out
    /\ err' = IF script[shown'] = "StdErr" THEN Append(err, shown') ELSE err
    /\ UNCHANGED <<mode, script, exitCode, said, outcome, reported>>

Finish ==
    /\ outcome = "none" /\ exitCode # NoCode
    /\ mode # "Detached" => shown = said
    /\ outcome' = "finished" /\ reported' = exitCode
    /\ UNCHANGED <<mode, script, exitCode, said, shown, out, err>>

Fail ==
    /\ outcome = "none"
    /\ outcome' = "failed"
    /\ UNCHANGED <<mode, script, exitCode, said, shown, out, err, reported>>

ContractSpec == ContractInit /\ [][Say \/ Exit \/ Show \/ Finish \/ Fail]_contractVars

=============================================================================
