---------------------------- MODULE ExecLifecycle ----------------------------
(***************************************************************************)
(* One call of exec, from create_exec to the process exit status           *)
(* (engine/connection/exec/mod.rs, attached.rs, terminal.rs, protocol.rs,  *)
(* protocol_output.rs, protocol_stdin.rs, api/exec.rs, main.rs).           *)
(*                                                                         *)
(* The call creates and starts an exec, runs the session its mode asks     *)
(* for beside the stdin task (StdinForwarding), polls for the exit code    *)
(* and, when it owns its runtime, drops it.  Around it: the daemon and the *)
(* exec process, the host, and a terminal whose size may change at any     *)
(* time.  A protocol session here is one without runtime enforcement;      *)
(* EnforcedSession models the other kind.                                  *)
(***************************************************************************)
EXTENDS StdinForwarding

CONSTANTS
    Scripts,      \* the sequences of output records an exec may produce
    ExitCodes,    \* what it may exit with
    Sizes,        \* sizes of the terminal
    MaxResizes    \* bound: how often the terminal changes its size

Records == {"StdOut", "Console", "StdErr", "StdIn"}
NoCode == <<>>
NoSize == "daemon default"

ASSUME LifecycleAssumption ==
    /\ \A s \in Scripts : s \in Seq(Records)
    /\ ExitCodes \subseteq Int
    /\ NoSize \notin Sizes
    /\ MaxResizes \in Nat

VARIABLES
    \* the call
    mode, tty,    \* of the request
    ownsRuntime,  \* the call creates its runtime (api::exec, or block_on_runtime inside
                  \* a current-thread runtime); else ExecContext::exec borrows one
    pc,           \* create, start, subscribe, size, resize, recv, write,
                  \* end, poll, drop or done
    failure,      \* the error the session will report
    result,       \* none, finished or the error of the call
    reported,     \* exit_code
    \* the exec in the container
    exec,         \* absent, created, running, closed (its output) or exited
    script,       \* the records it produces, if it lives
    exitCode,     \* the code it exited with
    said,         \* how many records it has produced
    \* its output
    shown,        \* how many records the output loop is done with
    out, err,     \* host stdout and stderr, as positions in the script
    \* the terminal
    termSize,     \* its size
    resizes,      \* how often it changed
    listening,    \* SIGWINCH is subscribed to
    winch,        \* a SIGWINCH is pending
    sizeRead,     \* the size read last
    execSize,     \* the size the exec's terminal was given
    sizeUnknown   \* the size could not be read the last time

requestVars == <<mode, tty, ownsRuntime>>
resultVars == <<failure, result, reported>>
execVars == <<exec, script, exitCode, said>>
outputVars == <<shown, out, err>>
termVars == <<termSize, resizes, listening, winch, sizeRead, execSize, sizeUnknown>>
callVars == <<pc, resultVars, outputVars, termVars>>
lifecycleVars == <<requestVars, callVars, execVars>>
vars == <<lifecycleVars, stdinVars>>

\* ExecRequest::with_tty: only attached requests have a terminal; only protocol
\* requests have session options.
RequestOK ==
    /\ tty => mode = "Attached"
    /\ stdinDisabled \/ rewrites => mode = "Protocol"

Init ==
    /\ StdinInit
    /\ mode \in {"Attached", "Detached", "Protocol"} /\ tty \in BOOLEAN
    /\ RequestOK
    /\ ownsRuntime \in BOOLEAN
    /\ pc = "create" /\ failure = "none" /\ result = "none"
    /\ reported = NoCode
    /\ exec = "absent" /\ script \in Scripts /\ exitCode = NoCode /\ said = 0
    /\ shown = 0 /\ out = <<>> /\ err = <<>>
    /\ termSize \in Sizes /\ resizes = 0 /\ listening = FALSE /\ winch = FALSE
    /\ sizeRead = NoSize /\ execSize = NoSize /\ sizeUnknown = FALSE

----------------------------------------------------------------------------
(* Creating and starting the exec.                                         *)

\* The call fails here: what is left is to drop the runtime.
FailCall(error) ==
    /\ result' = error /\ pc' = "drop"
    /\ UNCHANGED <<failure, reported, requestVars, outputVars, termVars>>

CreateExec ==
    /\ pc = "create"
    /\ exec' = "created" /\ pc' = "start"
    /\ UNCHANGED <<requestVars, resultVars, outputVars, termVars>>
    /\ UNCHANGED <<script, exitCode, said, stdinVars>>

CreateExecFails ==
    /\ pc = "create"
    /\ FailCall("create failed")
    /\ UNCHANGED <<execVars, stdinVars>>

\* The daemon starts the exec; an error may come before or after that.
StartExecFails ==
    /\ pc = "start"
    /\ exec' \in {"created", "running"}
    /\ FailCall("start failed")
    /\ UNCHANGED <<script, exitCode, said, stdinVars>>

\* A start result that does not fit the mode.
StartExecMismatched ==
    /\ pc = "start"
    /\ exec' = "running"
    /\ FailCall("mode mismatch")
    /\ UNCHANGED <<script, exitCode, said, stdinVars>>

StartDetached ==
    /\ pc = "start" /\ mode = "Detached"
    /\ exec' = "running" /\ pc' = "poll"
    /\ UNCHANGED <<requestVars, resultVars, outputVars, termVars>>
    /\ UNCHANGED <<script, exitCode, said, stdinVars>>

\* A session starts by spawning the stdin task.
StartSession ==
    /\ pc = "start" /\ mode # "Detached"
    /\ exec' = "running"
    /\ SpawnStdin
    /\ pc' = IF tty THEN "subscribe" ELSE "recv"
    /\ UNCHANGED <<requestVars, resultVars, outputVars, termVars>>
    /\ UNCHANGED <<script, exitCode, said>>

----------------------------------------------------------------------------
(* The terminal: initialize_resize_handling_async and SIGWINCH.            *)

\* The session ends with an error.
FailSession(error) ==
    /\ failure' = error /\ pc' = "end"
    /\ UNCHANGED <<result, reported, requestVars, execVars, stdinVars>>

Subscribe ==
    /\ pc = "subscribe"
    /\ listening' = TRUE /\ pc' = "size"
    /\ UNCHANGED <<requestVars, resultVars, outputVars, execVars, stdinVars>>
    /\ UNCHANGED <<termSize, resizes, winch, sizeRead, execSize, sizeUnknown>>

\* An error that returns past stop_stdin_forwarding_task.
SubscribeFailsAtOnce ==
    /\ pc = "subscribe"
    /\ FailCall("subscribe failed")
    /\ UNCHANGED <<execVars, stdinVars>>

SubscribeFails ==
    /\ pc = "subscribe"
    /\ FailSession("subscribe failed")
    /\ UNCHANGED <<outputVars, termVars>>

\* terminal_size returns the size at this moment.
ReadSize ==
    /\ pc = "size"
    /\ sizeRead' = termSize /\ pc' = "resize"
    /\ UNCHANGED <<requestVars, resultVars, outputVars, execVars, stdinVars>>
    /\ UNCHANGED <<termSize, resizes, listening, winch, execSize, sizeUnknown>>

\* No terminal, or stty says nothing useful: no resize, and no error.
ReadNoSize ==
    /\ pc = "size"
    /\ sizeUnknown' = TRUE /\ pc' = "recv"
    /\ UNCHANGED <<requestVars, resultVars, outputVars, execVars, stdinVars>>
    /\ UNCHANGED <<termSize, resizes, listening, winch, sizeRead, execSize>>

\* A resize that also takes the signals that came while it was under way.
ResizeExecClearing ==
    /\ pc = "resize"
    /\ execSize' = sizeRead /\ sizeUnknown' = FALSE /\ winch' = FALSE /\ pc' = "recv"
    /\ UNCHANGED <<requestVars, resultVars, outputVars, execVars, stdinVars>>
    /\ UNCHANGED <<termSize, resizes, listening, sizeRead>>

\* resize_exec returns, and the output loop starts or goes on.
ResizeExec ==
    /\ pc = "resize"
    /\ execSize' = sizeRead /\ sizeUnknown' = FALSE /\ pc' = "recv"
    /\ UNCHANGED <<requestVars, resultVars, outputVars, execVars, stdinVars>>
    /\ UNCHANGED <<termSize, resizes, listening, winch, sizeRead>>

ResizeExecFails ==
    /\ pc = "resize"
    /\ FailSession("resize failed")
    /\ UNCHANGED <<outputVars, termVars>>

\* The select takes the branch of wait_for_sigwinch.
ReceiveWinch ==
    /\ pc = "recv" /\ listening /\ winch
    /\ winch' = FALSE /\ pc' = "size"
    /\ UNCHANGED <<requestVars, resultVars, outputVars, execVars, stdinVars>>
    /\ UNCHANGED <<termSize, resizes, listening, sizeRead, execSize, sizeUnknown>>

----------------------------------------------------------------------------
(* The output loop. The record being written is the one after those shown. *)

Current == script[shown + 1]

\* The daemon hands over the next record.
ReceiveRecord ==
    /\ pc = "recv" /\ shown < said
    /\ pc' = "write"
    /\ UNCHANGED <<requestVars, resultVars, outputVars, termVars, execVars, stdinVars>>

ShowOn(toOut, toErr) ==
    /\ shown' = shown + 1
    /\ out' = IF Current \in toOut THEN Append(out, shown + 1) ELSE out
    /\ err' = IF Current \in toErr THEN Append(err, shown + 1) ELSE err
    /\ pc' = "recv"
    /\ UNCHANGED <<requestVars, resultVars, termVars, execVars, stdinVars>>

\* write_exec_output_chunk: echoed input goes to stdout.
WriteAttached ==
    /\ pc = "write" /\ mode = "Attached"
    /\ ShowOn({"StdOut", "Console", "StdIn"}, {"StdErr"})

\* The routing of attached sessions used for protocol sessions.
WriteProtocolEchoing ==
    /\ pc = "write" /\ mode = "Protocol"
    /\ ShowOn({"StdOut", "Console", "StdIn"}, {"StdErr"})

\* handle_log_output_chunk: echoed input is dropped.
WriteProtocol ==
    /\ pc = "write" /\ mode = "Protocol"
    /\ ShowOn({"StdOut", "Console"}, {"StdErr"})

\* Host stdout or stderr fails; nothing is written of a dropped record.
WriteFails ==
    /\ pc = "write"
    /\ Current = "StdIn" => mode = "Attached"
    /\ FailSession("output failed")
    /\ UNCHANGED <<outputVars, termVars>>

StreamFails ==
    /\ pc = "recv"
    /\ FailSession("output failed")
    /\ UNCHANGED <<outputVars, termVars>>

\* The daemon ends the stream once the exec has closed its output and all of it
\* was handed over.
StreamEnds ==
    /\ pc = "recv"
    /\ exec \in {"closed", "exited"} /\ shown = said
    /\ pc' = "end"
    /\ UNCHANGED <<requestVars, resultVars, outputVars, termVars, execVars, stdinVars>>

----------------------------------------------------------------------------
(* The end of the session and of the call.                                 *)

\* The error of the session first, then that of stdin, then the exit code.
Conclude(stdinOk) ==
    /\ \/ /\ failure # "none"
          /\ result' = failure /\ pc' = "drop"
       \/ /\ failure = "none" /\ ~stdinOk
          /\ result' = "stdin failed" /\ pc' = "drop"
       \/ /\ failure = "none" /\ stdinOk
          /\ pc' = "poll" /\ UNCHANGED result
    /\ UNCHANGED <<failure, reported>>
    /\ UNCHANGED <<requestVars, outputVars, termVars, execVars>>

\* stop_stdin_forwarding_task: a stopped task is only logged, however it ended.
StopStdinTask ==
    /\ pc = "end" /\ mode = "Attached"
    /\ IF stdinPc = "stopped" THEN UNCHANGED stdinVars ELSE AbortStdin
    /\ Conclude(TRUE)

\* settle_stdin_forwarding_task, when the task stops in time.
SettleJoin ==
    /\ pc = "end" /\ mode = "Protocol"
    /\ stdinPc = "stopped"
    /\ Conclude(stdinEnd # "error")
    /\ UNCHANGED stdinVars

\* A timeout taken for the end of host stdin.
SettleTimeoutForgiving ==
    /\ pc = "end" /\ mode = "Protocol"
    /\ stdinPc # "stopped"
    /\ AbortStdin
    /\ Conclude(TRUE)

\* A grace period that ends only for a disabled stdin.
SettleTimeoutDisabledOnly ==
    /\ pc = "end" /\ mode = "Protocol"
    /\ stdinPc # "stopped" /\ stdinDisabled
    /\ AbortStdin
    /\ Conclude(TRUE)

\* A timeout that drops the handle of the task without aborting it.
SettleTimeoutDetaching ==
    /\ pc = "end" /\ mode = "Protocol"
    /\ stdinPc # "stopped"
    /\ Conclude(stdinDisabled)
    /\ UNCHANGED stdinVars

\* STDIN_SETTLE_TIMEOUT: the task is aborted and not awaited.
SettleTimeout ==
    /\ pc = "end" /\ mode = "Protocol"
    /\ stdinPc # "stopped"
    /\ AbortStdin
    /\ Conclude(stdinDisabled)

\* wait_for_exit_code_async, its last inspect_exec; those before it found a
\* running exec and changed nothing.
InspectExit ==
    /\ pc = "poll" /\ exec = "exited"
    /\ result' = "finished" /\ reported' = exitCode /\ pc' = "drop"
    /\ UNCHANGED <<failure, requestVars, outputVars, termVars, execVars, stdinVars>>

\* It does not say that the exec is running and gives no code, or it fails.
InspectFails ==
    /\ pc = "poll"
    /\ \E error \in {"no exit code", "inspect failed"} : FailCall(error)
    /\ UNCHANGED <<execVars, stdinVars>>

\* A call that owns its runtime drops it, which drops the stdin task and waits for
\* blocking reads to return.
DropRuntime ==
    /\ pc = "drop" /\ ownsRuntime
    /\ ~reading
    /\ pc' = "done"
    /\ IF StdinAlive THEN CancelStdin ELSE UNCHANGED stdinVars
    /\ UNCHANGED <<requestVars, resultVars, outputVars, termVars, execVars>>

\* ExecContext::exec returns to the owner of the runtime.
ReturnToOwner ==
    /\ pc = "drop" /\ ~ownsRuntime
    /\ pc' = "done"
    /\ UNCHANGED <<requestVars, resultVars, outputVars, termVars, execVars, stdinVars>>

\* normalize_process_exit_code without its upper bound.
NormalizeNegativeOnly(code) == IF code < 0 THEN 1 ELSE code

NormalizeProcessExitCode(code) ==
    IF code < 0 THEN 1 ELSE IF code > 255 THEN 255 ELSE code

\* CommandOutcome and main: what the operating system keeps of the exit status.
ProcessStatus ==
    IF result # "finished" THEN 1
    ELSE IF reported = <<0>> THEN 0
    ELSE NormalizeProcessExitCode(reported[1]) % 256

----------------------------------------------------------------------------
(* The exec process, the terminal and the specification.                   *)

ExecSays ==
    /\ exec = "running" /\ said < Len(script)
    /\ said' = said + 1
    /\ UNCHANGED <<requestVars, callVars, exec, script, exitCode, stdinVars>>

ExecCloses ==
    /\ exec = "running"
    /\ exec' = "closed"
    /\ UNCHANGED <<requestVars, callVars, script, exitCode, said, stdinVars>>

ExecExits ==
    /\ exec \in {"running", "closed"}
    /\ exec' = "exited"
    /\ \E code \in ExitCodes : exitCode' = <<code>>
    /\ UNCHANGED <<requestVars, callVars, script, said, stdinVars>>

\* A SIGWINCH that finds no subscription is lost; pending ones are merged.
TerminalResizes ==
    /\ tty /\ resizes < MaxResizes
    /\ resizes' = resizes + 1
    /\ termSize' \in Sizes \ {termSize}
    /\ winch' = listening
    /\ UNCHANGED <<requestVars, pc, resultVars, outputVars, execVars, stdinVars>>
    /\ UNCHANGED <<listening, sizeRead, execSize, sizeUnknown>>

Begin ==
    \/ CreateExec \/ CreateExecFails
    \/ StartExecFails \/ StartExecMismatched \/ StartDetached \/ StartSession

Terminal ==
    \/ Subscribe \/ SubscribeFails \/ ReadSize \/ ReadNoSize
    \/ ResizeExec \/ ResizeExecFails \/ ReceiveWinch

Output ==
    \/ ReceiveRecord \/ WriteAttached \/ WriteProtocol \/ WriteFails
    \/ StreamFails \/ StreamEnds

End ==
    \/ StopStdinTask \/ SettleJoin \/ SettleTimeout
    \/ InspectExit \/ InspectFails \/ DropRuntime \/ ReturnToOwner

Stdin == (StdinTask \/ Host) /\ UNCHANGED lifecycleVars

Environment == ExecSays \/ ExecCloses \/ ExecExits \/ TerminalResizes

Next == Begin \/ Terminal \/ Output \/ End \/ Stdin \/ Environment

Spec == Init /\ [][Next]_vars

\* The daemon answers, the host takes what is written to it, timers fire and the
\* runtime polls its tasks.  Nothing makes the host send or close, the exec read,
\* write or exit, or any call fail.
Fairness ==
    /\ WF_vars(Begin)
    /\ WF_vars(Terminal)
    /\ WF_vars(ReceiveRecord \/ WriteAttached \/ WriteProtocol \/ StreamEnds)
    /\ WF_vars(StopStdinTask \/ SettleJoin \/ SettleTimeout)
    /\ WF_vars(InspectExit \/ DropRuntime \/ ReturnToOwner)
    /\ WF_vars(StdinCancelled /\ UNCHANGED lifecycleVars)

FairSpec == Spec /\ Fairness

----------------------------------------------------------------------------
(* Properties.                                                             *)

Failures == {"subscribe failed", "resize failed", "output failed"}

Results ==
    {"none", "finished", "create failed", "start failed", "mode mismatch",
     "stdin failed", "no exit code", "inspect failed"} \cup Failures

MaybeCode == {NoCode} \cup {<<code>> : code \in ExitCodes}

CallTypeOK ==
    /\ mode \in {"Attached", "Detached", "Protocol"}
    /\ tty \in BOOLEAN /\ ownsRuntime \in BOOLEAN
    /\ pc \in {"create", "start", "subscribe", "size", "resize", "recv", "write",
               "end", "poll", "drop", "done"}
    /\ failure \in {"none"} \cup Failures /\ result \in Results
    /\ reported \in MaybeCode

ExecTypeOK ==
    /\ exec \in {"absent", "created", "running", "closed", "exited"}
    /\ script \in Scripts /\ exitCode \in MaybeCode
    /\ said \in 0..Len(script) /\ shown \in 0..said
    /\ pc = "write" => shown < said
    /\ out \in Seq(1..shown) /\ err \in Seq(1..shown)

TerminalTypeOK ==
    /\ termSize \in Sizes /\ resizes \in 0..MaxResizes
    /\ listening \in BOOLEAN /\ winch \in BOOLEAN /\ sizeUnknown \in BOOLEAN
    /\ sizeRead \in Sizes \cup {NoSize} /\ execSize \in Sizes \cup {NoSize}
    /\ pc = "resize" => sizeRead \in Sizes

\* Type correctness of the call, with what each program point implies.
TypeOK == StdinTypeOK /\ CallTypeOK /\ ExecTypeOK /\ TerminalTypeOK

Contract ==
    INSTANCE ExecContract WITH
        outcome <- IF result \in {"none", "finished"} THEN result ELSE "failed"

\* The call implements the contract: records reach the host once, in order, each
\* on its stream, with echoed input only in attached sessions; an exit code is
\* reported only for an exec that has exited, it is that exec's, and everything
\* the exec said was shown before (exec/mod.rs:332-377).
ImplementsContract == Contract!ContractSpec

\* A protocol session whose exit code is reported has given the exec all of host
\* stdin, with at most the first line masked, and closed it, unless forwarding
\* is disabled (protocol_stdin.rs:111-128).
ProtocolInputComplete ==
    result = "finished" /\ mode = "Protocol" /\ ~stdinDisabled =>
        /\ inputShut /\ hostRead = Len(host)
        /\ input = AllForwarded

\* While output flows, the exec's terminal has the size of the host's, or a signal
\* is pending that will make it so: a change at any moment of the subscription,
\* the first resize or a later one is never missed (attached.rs:269-278, 318-340).
ResizesReachExec ==
    tty /\ pc \in {"recv", "write"} /\ ~sizeUnknown => execSize = termSize \/ winch

\* However the call ends, the stdin task has stopped or was told to
\* (attached.rs:84-109, protocol_stdin.rs:111-158).
StdinReleased == pc \in {"drop", "done"} => ~StdinAlive \/ stdinAbort

\* The process reports success exactly when the exec is known to have exited with
\* 0, for every 64-bit exit code (main.rs:247-258, api/exec.rs:264-270).
StatusTellsSuccess ==
    pc = "done" =>
        (ProcessStatus = 0 <=> result = "finished" /\ exitCode = <<0>>)

\* Once the exec has exited, its exit code or an error is known, even when the
\* host never closes stdin (protocol.rs:47-51).
ExitEndsCall == exec = "exited" ~> pc \in {"drop", "done"}

\* A returned call leaves no stdin task behind, even on a runtime that lives on
\* (attached.rs:98-109, protocol_stdin.rs:150-158).
NoTaskLeft == pc = "done" ~> ~StdinAlive

\* What the session's comments promise of host stdin, that "shutdown should not
\* hang" waiting for a blocked read (attached.rs:105-107), of api::exec as a
\* whole: once the exec has exited, the call returns.
ExitEndsExec == exec = "exited" ~> pc = "done"

----------------------------------------------------------------------------
(* The inductive invariant.                                                *)

InSession == {"subscribe", "size", "resize", "recv", "write", "end"}

\* What each program point says of the request, the result and the stdin task.
CallInv ==
    /\ RequestOK
    /\ result # "none" <=> pc \in {"drop", "done"}
    /\ reported = IF result = "finished" THEN exitCode ELSE NoCode
    /\ failure # "none" => pc \in {"end", "drop", "done"} /\ result \in {"none", failure}
    /\ pc \in {"create", "start"} => stdinPc = "off"
    /\ stdinAbort => pc \in {"poll", "drop", "done"}
    /\ pc \in InSession => mode # "Detached" /\ stdinPc # "off"
    /\ pc \in {"poll", "drop", "done"} => ~StdinAlive \/ stdinAbort
    /\ mode = "Detached" => stdinPc = "off"

\* A session that ends without an error has shown everything, and the exec will
\* say no more.
OutputComplete == exec \in {"closed", "exited"} /\ shown = said

ExecInv ==
    /\ exec = "exited" <=> exitCode # NoCode
    /\ pc \in {"create", "start"} => exec \in {"absent", "created"} /\ said = 0
    /\ pc = "end" /\ failure = "none" => OutputComplete
    /\ pc = "poll" /\ mode # "Detached" => OutputComplete
    /\ result = "finished" => exec = "exited" /\ (mode # "Detached" => OutputComplete)

TerminalInv ==
    /\ tty /\ pc \in {"size", "resize", "recv", "write"} => listening
    /\ listening => tty
    /\ pc = "resize" => sizeRead = termSize \/ winch
    /\ pc \in {"subscribe", "size", "resize"} => tty
    /\ ResizesReachExec

\* What the end of the stdin task says about the call.
StdinInv ==
    /\ stdinEnd = "cancelled" => pc \in {"poll", "drop", "done"}
    /\ pc = "poll" /\ mode = "Protocol" => stdinDisabled \/ stdinEnd = "eof"
    /\ result = "finished" /\ mode = "Protocol" => stdinDisabled \/ stdinEnd = "eof"

LifecycleInv ==
    TypeOK /\ ForwardingInv /\ CallInv /\ ExecInv /\ TerminalInv /\ StdinInv

=============================================================================
