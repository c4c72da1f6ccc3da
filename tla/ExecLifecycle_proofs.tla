------------------------ MODULE ExecLifecycle_proofs ------------------------
(***************************************************************************)
(* The safety of an exec call, for every exec, every host, every set of    *)
(* integer exit codes, every terminal and every buffer.                    *)
(***************************************************************************)
EXTENDS ExecLifecycle, StdinForwarding_proofs

----------------------------------------------------------------------------
(* The stdin task within the call.                                         *)

\* What a step of the task or the host does to its place.
LEMMA TaskPlace ==
    ASSUME ForwardingInv, StdinTask \/ Host
    PROVE  /\ stdinAbort' = stdinAbort /\ stdinDisabled' = stdinDisabled
           /\ rewrites' = rewrites /\ host' = host
           /\ stdinPc \in {"off", "stopped"} => stdinPc' = stdinPc /\ stdinEnd' = stdinEnd
           /\ stdinPc' = "off" => stdinPc = "off"
           /\ stdinEnd' = "cancelled" => stdinEnd = "cancelled" \/ stdinAbort
  BY DEF StdinTask, Host, StartRead, FirstFrameUnchanged, FirstFrameWritten, ReadFirstFrame,
         CopyRead, WriteHeld, CopyEof, ShutInput, StdinFails, StdinCancelled, CancelStdin,
         StopStdin, HostSends, HostEnds, AtRead, StdinAlive, copyVars, readerVars, choiceVars

\* The steps of the call that start, abort or drop it, and all others.
LEMMA CallLeavesStdin ==
    ASSUME [Next]_vars
    PROVE  \/ StdinTask \/ Host
           \/ SpawnStdin \/ AbortStdin \/ CancelStdin
           \/ UNCHANGED stdinVars
  <1>1. CASE Begin
    BY <1>1 DEF Begin, CreateExec, CreateExecFails, StartExecFails, StartExecMismatched,
                StartDetached, StartSession
  <1>2. CASE Terminal
    BY <1>2 DEF Terminal, Subscribe, SubscribeFails, ReadSize, ReadNoSize, ResizeExec,
                ResizeExecFails, ReceiveWinch, FailSession
  <1>3. CASE Output
    BY <1>3 DEF Output, ReceiveRecord, WriteAttached, WriteProtocol, WriteFails, StreamFails,
                StreamEnds, ShowOn, FailSession
  <1>4. CASE End
    BY <1>4 DEF End, StopStdinTask, SettleJoin, SettleTimeout, InspectExit, InspectFails,
                DropRuntime, ReturnToOwner
  <1>5. CASE Environment
    BY <1>5 DEF Environment, ExecSays, ExecCloses, ExecExits, TerminalResizes
  <1>6. CASE UNCHANGED vars
    BY <1>6 DEF vars
  <1> QED
    BY <1>1, <1>2, <1>3, <1>4, <1>5, <1>6 DEF Next, Stdin

LEMMA StdinStep ==
    ASSUME ForwardingInv, [Next]_vars
    PROVE  ForwardingInv'
  BY CallLeavesStdin, ForwardingStep, SpawnStep, AbortStep, CancelStep, IdleStep

----------------------------------------------------------------------------
(* What each program point says.                                           *)

\* What a step of the session leaves alone, and how it may end the session.
LEMMA SessionStep ==
    ASSUME Terminal \/ Output
    PROVE  /\ pc \in InSession \ {"end"}
           /\ mode' = mode /\ tty' = tty /\ ownsRuntime' = ownsRuntime
           /\ result' = result /\ reported' = reported
           /\ exec' = exec /\ script' = script /\ exitCode' = exitCode /\ said' = said
           /\ stdinPc' = stdinPc /\ stdinEnd' = stdinEnd /\ stdinAbort' = stdinAbort
           /\ stdinDisabled' = stdinDisabled /\ rewrites' = rewrites
           /\ termSize' = termSize /\ resizes' = resizes
           /\ \/ pc' \in InSession /\ failure' = failure
              \/ pc' = "end" /\ failure' \in Failures
  <1> USE DEF requestVars, resultVars, execVars, termVars, stdinVars, copyVars, choiceVars,
              InSession, Failures
  <1>1. CASE Terminal
    <2>1. CASE Subscribe \/ SubscribeFails \/ ReadSize \/ ReadNoSize
      BY <2>1 DEF Subscribe, SubscribeFails, ReadSize, ReadNoSize, FailSession
    <2>2. CASE ResizeExec \/ ResizeExecFails \/ ReceiveWinch
      BY <2>2 DEF ResizeExec, ResizeExecFails, ReceiveWinch, FailSession
    <2> QED
      BY <1>1, <2>1, <2>2 DEF Terminal
  <1>2. CASE Output
    <2>1. CASE ReceiveRecord \/ StreamEnds \/ StreamFails \/ WriteFails
      BY <2>1 DEF ReceiveRecord, StreamEnds, StreamFails, WriteFails, FailSession
    <2>2. CASE WriteAttached \/ WriteProtocol
      BY <2>2 DEF WriteAttached, WriteProtocol, ShowOn
    <2> QED
      BY <1>2, <2>1, <2>2 DEF Output
  <1> QED
    BY <1>1, <1>2

\* What the end of a session makes of failures and of the stdin task.
LEMMA ConcludeStep ==
    ASSUME StopStdinTask \/ SettleJoin \/ SettleTimeout
    PROVE  /\ pc = "end"
           /\ mode' = mode /\ tty' = tty /\ ownsRuntime' = ownsRuntime
           /\ failure' = failure /\ reported' = reported
           /\ exec' = exec /\ script' = script /\ exitCode' = exitCode /\ said' = said
           /\ shown' = shown /\ out' = out /\ err' = err
           /\ stdinPc' = stdinPc /\ stdinEnd' = stdinEnd
           /\ stdinDisabled' = stdinDisabled /\ rewrites' = rewrites
           /\ stdinAbort' = stdinAbort \/ stdinAbort' = TRUE
           /\ stdinPc = "stopped" \/ stdinAbort' = TRUE
           /\ \/ failure # "none" /\ result' = failure /\ pc' = "drop"
              \/ failure = "none" /\ result' = "stdin failed" /\ pc' = "drop"
              \/ /\ failure = "none" /\ result' = result /\ pc' = "poll"
                 /\ mode = "Protocol" => stdinDisabled \/ (stdinPc = "stopped" /\ stdinEnd # "error")
  <1> USE DEF Conclude, AbortStdin, requestVars, execVars, outputVars, stdinVars, copyVars, choiceVars
  <1>1. CASE StopStdinTask
    BY <1>1 DEF StopStdinTask
  <1>2. CASE SettleJoin
    BY <1>2 DEF SettleJoin
  <1>3. CASE SettleTimeout
    BY <1>3 DEF SettleTimeout
  <1> QED
    BY <1>1, <1>2, <1>3

LEMMA CallStep ==
    ASSUME LifecycleInv, Next
    PROVE  CallInv'
  <1> USE DEF CallInv, RequestOK, InSession, StdinAlive
  <1>1. /\ CallInv
        /\ failure \in {"none"} \cup Failures
        /\ exec = "exited" <=> exitCode # NoCode
        /\ pc \in {"create", "start"} => exec \in {"absent", "created"}
        /\ pc \in {"create", "start", "subscribe", "size", "resize", "recv", "write", "end", "poll",
                   "drop", "done"}
    BY DEF LifecycleInv, TypeOK, CallTypeOK, ExecInv
  <1>2. CASE Begin
    <2> USE DEF requestVars, resultVars, execVars, stdinVars, copyVars, choiceVars
    <2>1. CASE CreateExec \/ StartDetached
      BY <1>1, <2>1 DEF CreateExec, StartDetached
    <2>2. CASE CreateExecFails \/ StartExecFails \/ StartExecMismatched
      <3>1. /\ result' \in {"create failed", "start failed", "mode mismatch"} /\ pc' = "drop"
            /\ failure' = failure /\ reported' = reported /\ mode' = mode /\ tty' = tty
            /\ exitCode' = exitCode /\ stdinPc' = stdinPc /\ stdinAbort' = stdinAbort
            /\ stdinDisabled' = stdinDisabled /\ rewrites' = rewrites
            /\ pc \in {"create", "start"}
        BY <1>1, <2>2 DEF CreateExecFails, StartExecFails, StartExecMismatched, FailCall
      <3> QED
        BY <1>1, <3>1
    <2>3. CASE StartSession
      BY <1>1, <2>3 DEF StartSession, SpawnStdin
    <2> QED
      BY <1>2, <2>1, <2>2, <2>3 DEF Begin
  <1>3. CASE Terminal \/ Output
    <2>0. RequestOK' <=> RequestOK
      BY <1>3, SessionStep
    <2>1. /\ pc' \in {"subscribe", "size", "resize", "recv", "write", "end"}
          /\ failure' # "none" => pc' = "end"
          /\ pc \in InSession /\ result = "none"
      <3>1. pc \in InSession /\ pc # "end"
        BY <1>3, SessionStep
      <3>2. failure = "none" /\ result = "none"
        BY <1>1, <3>1
      <3> QED
        BY <1>3, <3>1, <3>2, SessionStep
    <2>2. /\ mode' = mode /\ result' = result /\ reported' = reported /\ exitCode' = exitCode
          /\ stdinPc' = stdinPc /\ stdinAbort' = stdinAbort
      BY <1>3, SessionStep
    <2> QED
      BY <1>1, <2>0, <2>1, <2>2
  <1>4. CASE StopStdinTask \/ SettleJoin \/ SettleTimeout
    <2>0. RequestOK' <=> RequestOK
      <3>1. mode' = mode /\ tty' = tty /\ stdinDisabled' = stdinDisabled /\ rewrites' = rewrites
        BY <1>4, ConcludeStep
      <3> QED
        BY <3>1
    <2>1. /\ mode' = mode /\ reported' = reported /\ exitCode' = exitCode /\ failure' = failure
          /\ stdinPc' = stdinPc /\ pc \in InSession
          /\ stdinPc = "stopped" \/ stdinAbort'
          /\ reported = NoCode /\ result = "none"
      <3>1. pc = "end"
        BY <1>4, ConcludeStep
      <3>2. result = "none" /\ reported = NoCode /\ pc \in InSession
        BY <1>1, <3>1
      <3> QED
        BY <1>4, <3>2, ConcludeStep
    <2>2. \/ pc' = "poll" /\ result' = "none" /\ failure = "none"
          \/ pc' = "drop" /\ result' \notin {"none", "finished"} /\ failure \in {"none", result'}
      BY <1>1, <1>4, ConcludeStep DEF Failures
    <2> QED
      BY <1>1, <2>0, <2>1, <2>2
  <1>5. CASE InspectExit \/ InspectFails
    <2>1. /\ pc = "poll" /\ pc' = "drop" /\ mode' = mode /\ tty' = tty /\ exitCode' = exitCode
          /\ failure' = failure /\ stdinPc' = stdinPc /\ stdinAbort' = stdinAbort
          /\ stdinDisabled' = stdinDisabled /\ rewrites' = rewrites
          /\ \/ result' = "finished" /\ reported' = exitCode
             \/ result' \in {"no exit code", "inspect failed"} /\ reported' = reported
      BY <1>5
      DEF InspectExit, InspectFails, FailCall, requestVars, execVars, stdinVars, copyVars, choiceVars
    <2> QED
      BY <1>1, <2>1
  <1>6. CASE DropRuntime \/ ReturnToOwner
    BY <1>1, <1>6
    DEF DropRuntime, ReturnToOwner, CancelStdin, StopStdin, requestVars, resultVars, execVars,
        stdinVars, copyVars, choiceVars
  <1>7. CASE Stdin
    <2>1. /\ mode' = mode /\ tty' = tty /\ pc' = pc /\ failure' = failure /\ result' = result
          /\ reported' = reported /\ exitCode' = exitCode
      BY <1>7 DEF Stdin, lifecycleVars, requestVars, callVars, resultVars, execVars
    <2> QED
      BY <1>1, <1>7, <2>1, TaskPlace DEF Stdin, LifecycleInv
  <1>8. CASE Environment
    <2>1. /\ mode' = mode /\ tty' = tty /\ pc' = pc /\ failure' = failure /\ result' = result
          /\ reported' = reported /\ stdinPc' = stdinPc /\ stdinAbort' = stdinAbort
          /\ stdinDisabled' = stdinDisabled /\ rewrites' = rewrites
          /\ exitCode' = exitCode \/ exec \in {"running", "closed"}
      BY <1>8
      DEF Environment, ExecSays, ExecCloses, ExecExits, TerminalResizes, callVars, requestVars,
          resultVars, execVars, stdinVars, copyVars, choiceVars
    <2>2. result = "finished" => exec = "exited"
      BY DEF LifecycleInv, ExecInv
    <2> QED
      BY <1>1, <2>1, <2>2
  <1> QED
    BY <1>2, <1>3, <1>4, <1>5, <1>6, <1>7, <1>8 DEF Next, End

\* What the start of a call leaves alone.
LEMMA BeginStep ==
    ASSUME Begin
    PROVE  /\ pc \in {"create", "start"}
           /\ mode' = mode /\ tty' = tty /\ ownsRuntime' = ownsRuntime
           /\ failure' = failure /\ reported' = reported
           /\ script' = script /\ exitCode' = exitCode /\ said' = said
           /\ shown' = shown /\ out' = out /\ err' = err
           /\ termSize' = termSize /\ resizes' = resizes /\ listening' = listening
           /\ winch' = winch /\ sizeRead' = sizeRead /\ execSize' = execSize
           /\ sizeUnknown' = sizeUnknown
           /\ stdinEnd' = stdinEnd
           /\ \/ result' = result /\ pc' = "start" /\ exec' = "created"
              \/ result' = result /\ pc' = "poll" /\ exec' = "running" /\ mode = "Detached"
              \/ result' = result /\ pc' = (IF tty THEN "subscribe" ELSE "recv") /\ exec' = "running"
              \/ /\ result' \in {"create failed", "start failed", "mode mismatch"} /\ pc' = "drop"
                 /\ exec' \in {exec, "created", "running"}
  <1> USE DEF requestVars, resultVars, execVars, outputVars, termVars, stdinVars, copyVars
  <1>1. CASE CreateExec \/ StartDetached
    BY <1>1 DEF CreateExec, StartDetached
  <1>2. CASE CreateExecFails \/ StartExecFails \/ StartExecMismatched
    BY <1>2 DEF CreateExecFails, StartExecFails, StartExecMismatched, FailCall
  <1>3. CASE StartSession
    BY <1>3 DEF StartSession, SpawnStdin
  <1> QED
    BY <1>1, <1>2, <1>3 DEF Begin

\* And the steps after a session.
LEMMA FinalStep ==
    ASSUME InspectExit \/ InspectFails \/ DropRuntime \/ ReturnToOwner
    PROVE  /\ mode' = mode /\ tty' = tty /\ ownsRuntime' = ownsRuntime /\ failure' = failure
           /\ exec' = exec /\ script' = script /\ exitCode' = exitCode /\ said' = said
           /\ shown' = shown /\ out' = out /\ err' = err
           /\ termSize' = termSize /\ resizes' = resizes /\ listening' = listening
           /\ winch' = winch /\ sizeRead' = sizeRead /\ execSize' = execSize
           /\ sizeUnknown' = sizeUnknown
           /\ stdinDisabled' = stdinDisabled
           /\ stdinEnd' = stdinEnd \/ (stdinEnd' = "cancelled" /\ stdinPc \notin {"off", "stopped"})
           /\ \/ /\ pc = "poll" /\ exec = "exited" /\ pc' = "drop"
                 /\ result' = "finished" /\ reported' = exitCode /\ stdinEnd' = stdinEnd
              \/ /\ pc = "poll" /\ pc' = "drop" /\ result' \in {"no exit code", "inspect failed"}
                 /\ reported' = reported
              \/ pc = "drop" /\ pc' = "done" /\ result' = result /\ reported' = reported
  <1> USE DEF requestVars, resultVars, execVars, outputVars, termVars, stdinVars, copyVars, choiceVars
  <1>1. CASE InspectExit
    BY <1>1 DEF InspectExit
  <1>2. CASE InspectFails
    BY <1>2 DEF InspectFails, FailCall
  <1>3. CASE DropRuntime \/ ReturnToOwner
    BY <1>3 DEF DropRuntime, ReturnToOwner, CancelStdin, StopStdin, StdinAlive
  <1> QED
    BY <1>1, <1>2, <1>3

\* The stdin task, the exec and the terminal leave the call alone.
LEMMA AroundStep ==
    ASSUME Stdin \/ Environment
    PROVE  /\ mode' = mode /\ tty' = tty /\ ownsRuntime' = ownsRuntime /\ pc' = pc
           /\ failure' = failure /\ result' = result /\ reported' = reported
           /\ script' = script /\ shown' = shown /\ out' = out /\ err' = err
           /\ listening' = listening /\ sizeRead' = sizeRead /\ execSize' = execSize
           /\ sizeUnknown' = sizeUnknown
           /\ \/ /\ exec' = exec /\ exitCode' = exitCode /\ said' = said
                 /\ termSize' = termSize /\ resizes' = resizes /\ winch' = winch
              \/ /\ exec = "running" /\ said < Len(script) /\ exec' = exec /\ exitCode' = exitCode
                 /\ said' = said + 1
                 /\ termSize' = termSize /\ resizes' = resizes /\ winch' = winch
              \/ /\ exec = "running" /\ exec' = "closed" /\ exitCode' = exitCode /\ said' = said
                 /\ termSize' = termSize /\ resizes' = resizes /\ winch' = winch
              \/ /\ exec \in {"running", "closed"} /\ exec' = "exited" /\ said' = said
                 /\ \E code \in ExitCodes : exitCode' = <<code>>
                 /\ termSize' = termSize /\ resizes' = resizes /\ winch' = winch
              \/ /\ exec' = exec /\ exitCode' = exitCode /\ said' = said
                 /\ tty /\ resizes < MaxResizes /\ resizes' = resizes + 1
                 /\ termSize' \in Sizes /\ winch' = listening
  <1> USE DEF lifecycleVars, requestVars, callVars, resultVars, execVars, outputVars, termVars
  <1>1. CASE Stdin
    BY <1>1 DEF Stdin
  <1>2. CASE ExecSays
    BY <1>2 DEF ExecSays
  <1>3. CASE ExecCloses
    BY <1>3 DEF ExecCloses
  <1>4. CASE ExecExits
    BY <1>4 DEF ExecExits
  <1>5. CASE TerminalResizes
    BY <1>5 DEF TerminalResizes
  <1> QED
    BY <1>1, <1>2, <1>3, <1>4, <1>5 DEF Environment

LEMMA CallTypeStep ==
    ASSUME LifecycleInv, Next
    PROVE  CallTypeOK'
  <1> USE DEF CallTypeOK
  <1>1. CallTypeOK /\ exitCode \in MaybeCode
    BY DEF LifecycleInv, TypeOK, ExecTypeOK
  <1>2. CASE Begin
    BY <1>1, <1>2, BeginStep DEF Results
  <1>3. CASE Terminal \/ Output
    BY <1>1, <1>3, SessionStep DEF InSession
  <1>4. CASE StopStdinTask \/ SettleJoin \/ SettleTimeout
    BY <1>1, <1>4, ConcludeStep DEF Results
  <1>5. CASE InspectExit \/ InspectFails \/ DropRuntime \/ ReturnToOwner
    BY <1>1, <1>5, FinalStep DEF Results
  <1>6. CASE Stdin \/ Environment
    BY <1>1, <1>6, AroundStep
  <1> QED
    BY <1>2, <1>3, <1>4, <1>5, <1>6 DEF Next, End

----------------------------------------------------------------------------
(* The output and the exec.                                                *)

LEMMA OutputStep ==
    ASSUME Output
    PROVE  /\ termSize' = termSize /\ resizes' = resizes /\ listening' = listening
           /\ winch' = winch /\ sizeRead' = sizeRead /\ execSize' = execSize
           /\ sizeUnknown' = sizeUnknown
           /\ \/ /\ pc = "recv" /\ shown < said /\ pc' = "write" /\ failure' = failure
                 /\ shown' = shown /\ out' = out /\ err' = err
              \/ /\ pc = "write" /\ pc' = "recv" /\ failure' = failure /\ shown' = shown + 1
                 /\ out' \in {out, Append(out, shown + 1)} /\ err' \in {err, Append(err, shown + 1)}
              \/ /\ pc' = "end" /\ failure' \in Failures
                 /\ shown' = shown /\ out' = out /\ err' = err
              \/ /\ pc' = "end" /\ failure' = failure /\ OutputComplete
                 /\ shown' = shown /\ out' = out /\ err' = err
  <1> USE DEF outputVars, termVars, resultVars, Failures, OutputComplete
  <1>1. CASE ReceiveRecord
    BY <1>1 DEF ReceiveRecord
  <1>2. CASE WriteAttached \/ WriteProtocol
    BY <1>2 DEF WriteAttached, WriteProtocol, ShowOn
  <1>3. CASE WriteFails \/ StreamFails
    BY <1>3 DEF WriteFails, StreamFails, FailSession
  <1>4. CASE StreamEnds
    BY <1>4 DEF StreamEnds
  <1> QED
    BY <1>1, <1>2, <1>3, <1>4 DEF Output

LEMMA TerminalStep ==
    ASSUME Terminal
    PROVE  /\ shown' = shown /\ out' = out /\ err' = err
           /\ termSize' = termSize /\ resizes' = resizes
           /\ pc' = "end" => failure' \in Failures
           /\ \/ /\ pc = "subscribe" /\ pc' = "size" /\ listening' = TRUE /\ winch' = winch
                 /\ sizeRead' = sizeRead /\ execSize' = execSize /\ sizeUnknown' = sizeUnknown
              \/ /\ pc = "size" /\ pc' = "resize" /\ sizeRead' = termSize /\ listening' = listening
                 /\ winch' = winch /\ execSize' = execSize /\ sizeUnknown' = sizeUnknown
              \/ /\ pc = "size" /\ pc' = "recv" /\ sizeUnknown' = TRUE /\ listening' = listening
                 /\ winch' = winch /\ sizeRead' = sizeRead /\ execSize' = execSize
              \/ /\ pc = "resize" /\ pc' = "recv" /\ execSize' = sizeRead /\ sizeUnknown' = FALSE
                 /\ listening' = listening /\ winch' = winch /\ sizeRead' = sizeRead
              \/ /\ pc = "recv" /\ pc' = "size" /\ listening /\ winch' = FALSE
                 /\ listening' = listening /\ sizeRead' = sizeRead /\ execSize' = execSize
                 /\ sizeUnknown' = sizeUnknown
              \/ /\ pc' = "end" /\ listening' = listening /\ winch' = winch
                 /\ sizeRead' = sizeRead /\ execSize' = execSize /\ sizeUnknown' = sizeUnknown
  <1> USE DEF outputVars, termVars, Failures
  <1>1. CASE Subscribe \/ SubscribeFails
    BY <1>1 DEF Subscribe, SubscribeFails, FailSession
  <1>2. CASE ReadSize \/ ReadNoSize
    BY <1>2 DEF ReadSize, ReadNoSize
  <1>3. CASE ResizeExec \/ ResizeExecFails
    BY <1>3 DEF ResizeExec, ResizeExecFails, FailSession
  <1>4. CASE ReceiveWinch
    BY <1>4 DEF ReceiveWinch
  <1> QED
    BY <1>1, <1>2, <1>3, <1>4 DEF Terminal

\* Positions stay in order, and the streams hold positions already shown.
LEMMA ExecTypeStep ==
    ASSUME LifecycleInv, Next
    PROVE  ExecTypeOK'
  <1>1. /\ exec \in {"absent", "created", "running", "closed", "exited"}
        /\ script \in Scripts /\ exitCode \in MaybeCode
        /\ said \in 0..Len(script) /\ shown \in 0..said
        /\ pc = "write" => shown < said
        /\ out \in Seq(1..shown) /\ err \in Seq(1..shown)
    BY DEF LifecycleInv, TypeOK, ExecTypeOK
  <1>2. Len(script) \in Nat /\ said \in Nat /\ shown \in Nat /\ shown <= said /\ said <= Len(script)
    <2>1. script \in Seq(Records)
      BY <1>1, LifecycleAssumption
    <2> QED
      BY <1>1, <2>1
  <1>3. ExecTypeOK' <=>
          /\ exec' \in {"absent", "created", "running", "closed", "exited"}
          /\ script' \in Scripts /\ exitCode' \in MaybeCode
          /\ said' \in 0..Len(script') /\ shown' \in 0..said'
          /\ pc' = "write" => shown' < said'
          /\ out' \in Seq(1..shown') /\ err' \in Seq(1..shown')
    BY DEF ExecTypeOK, MaybeCode, NoCode
  <1>4. CASE Begin
    <2>1. pc' # "write"
      BY <1>4, BeginStep
    <2>2. /\ script' = script /\ exitCode' = exitCode /\ said' = said /\ shown' = shown
          /\ out' = out /\ err' = err /\ exec' \in {exec, "created", "running"}
      BY <1>4, BeginStep
    <2> QED
      BY <1>1, <1>3, <2>1, <2>2
  <1>5. CASE Terminal
    <2>1. /\ script' = script /\ exitCode' = exitCode /\ said' = said /\ exec' = exec
      BY <1>5, SessionStep
    <2>2. shown' = shown /\ out' = out /\ err' = err /\ pc' # "write"
      BY <1>5, TerminalStep
    <2> QED
      BY <1>1, <1>3, <2>1, <2>2
  <1>6. CASE Output
    <2>1. /\ script' = script /\ exitCode' = exitCode /\ said' = said /\ exec' = exec
      BY <1>6, SessionStep
    <2>2. CASE shown' = shown /\ out' = out /\ err' = err /\ (pc' = "write" => shown < said)
      BY <1>1, <1>3, <2>1, <2>2
    <2>3. CASE /\ pc = "write" /\ pc' = "recv" /\ shown' = shown + 1
               /\ out' \in {out, Append(out, shown + 1)} /\ err' \in {err, Append(err, shown + 1)}
      <3>1. PICK next \in Nat : next = shown + 1 /\ next \in 1..next /\ 1..shown \subseteq 1..next
        BY <1>2
      <3>2. out \in Seq(1..next) /\ err \in Seq(1..next)
        BY <1>1, <3>1, SeqMonotonic
      <3>3. out' \in Seq(1..next) /\ err' \in Seq(1..next)
        <4>1. Append(out, next) \in Seq(1..next) /\ Append(err, next) \in Seq(1..next)
          BY <3>1, <3>2, AppendProperties
        <4>2. out' \in {out, Append(out, next)} /\ err' \in {err, Append(err, next)}
          BY <2>3, <3>1
        <4> HIDE <2>3
        <4> QED
          BY <3>2, <4>1, <4>2
      <3>4. shown' = next /\ next \in 0..said
        BY <1>1, <1>2, <2>3, <3>1
      <3> QED
        BY <1>1, <1>3, <2>1, <2>3, <3>3, <3>4
    <2> QED
      BY <1>6, <2>2, <2>3, OutputStep
  <1>7. CASE StopStdinTask \/ SettleJoin \/ SettleTimeout
    <2>1. /\ script' = script /\ exitCode' = exitCode /\ said' = said /\ exec' = exec
          /\ shown' = shown /\ out' = out /\ err' = err /\ pc' # "write"
      BY <1>7, ConcludeStep
    <2> QED
      BY <1>1, <1>3, <2>1
  <1>8. CASE InspectExit \/ InspectFails \/ DropRuntime \/ ReturnToOwner
    <2>1. /\ script' = script /\ exitCode' = exitCode /\ said' = said /\ exec' = exec
          /\ shown' = shown /\ out' = out /\ err' = err /\ pc' # "write"
      BY <1>8, FinalStep
    <2> QED
      BY <1>1, <1>3, <2>1
  <1>9. CASE Stdin \/ Environment
    <2>1. script' = script /\ shown' = shown /\ out' = out /\ err' = err /\ pc' = pc
      BY <1>9, AroundStep
    <2>2. exec' \in {exec, "closed", "exited"} /\ exitCode' \in MaybeCode
      BY <1>1, <1>9, AroundStep DEF MaybeCode
    <2>3. said' = said \/ (said' = said + 1 /\ said < Len(script))
      BY <1>9, AroundStep
    <2>4. said' \in 0..Len(script) /\ shown \in 0..said' /\ (pc = "write" => shown < said')
      BY <1>1, <1>2, <2>3
    <2> QED
      BY <1>1, <1>3, <2>1, <2>2, <2>4
  <1> QED
    BY <1>4, <1>5, <1>6, <1>7, <1>8, <1>9 DEF Next, End

\* What the call concludes from its session stays true of the exec.
LEMMA ExecStep ==
    ASSUME LifecycleInv, Next
    PROVE  ExecInv'
  <1> USE DEF OutputComplete
  <1>1. /\ exec = "exited" <=> exitCode # NoCode
        /\ pc \in {"create", "start"} => exec \in {"absent", "created"} /\ said = 0
        /\ pc = "end" /\ failure = "none" => OutputComplete
        /\ pc = "poll" /\ mode # "Detached" => OutputComplete
        /\ result = "finished" => exec = "exited" /\ (mode # "Detached" => OutputComplete)
    BY DEF LifecycleInv, ExecInv
  <1>2. ExecInv' <=>
        /\ exec' = "exited" <=> exitCode' # NoCode
        /\ pc' \in {"create", "start"} => exec' \in {"absent", "created"} /\ said' = 0
        /\ pc' = "end" /\ failure' = "none" => OutputComplete'
        /\ pc' = "poll" /\ mode' # "Detached" => OutputComplete'
        /\ result' = "finished" => exec' = "exited" /\ (mode' # "Detached" => OutputComplete')
    BY DEF ExecInv, NoCode
  <1>3. /\ result # "none" <=> pc \in {"drop", "done"}
        /\ pc \in {"create", "start", "subscribe", "size", "resize", "recv", "write", "end", "poll",
                   "drop", "done"}
    BY DEF LifecycleInv, TypeOK, CallInv, CallTypeOK
  <1>4. CASE Begin
    <2>1. /\ pc \in {"create", "start"} /\ pc' # "end" /\ result' # "finished"
          /\ mode' = mode /\ pc' = "poll" => mode = "Detached"
          /\ exitCode' = exitCode /\ said' = said
          /\ exec' \in {exec, "created", "running"}
          /\ pc' \in {"create", "start"} => exec' = "created"
          /\ mode' = mode
      BY <1>3, <1>4, BeginStep
    <2> QED
      BY <1>1, <1>2, <2>1
  <1>5. CASE Terminal \/ Output
    <2>1. /\ result' = "none" /\ exec' = exec /\ exitCode' = exitCode /\ said' = said
          /\ pc' \notin {"create", "start", "poll"}
      BY <1>3, <1>5, SessionStep DEF InSession
    <2>2. pc' = "end" /\ failure' = "none" => OutputComplete /\ shown' = shown
      BY <1>5, TerminalStep, OutputStep DEF Failures
    <2> QED
      BY <1>1, <1>2, <2>1, <2>2
  <1>6. CASE StopStdinTask \/ SettleJoin \/ SettleTimeout
    <2>1. /\ pc = "end" /\ exec' = exec /\ exitCode' = exitCode /\ said' = said /\ shown' = shown
          /\ pc' \in {"poll", "drop"} /\ (pc' = "poll" => failure = "none")
      BY <1>6, ConcludeStep
    <2>2. result' # "finished"
      <3>1. result = "none" /\ failure \in {"none"} \cup Failures
        BY <1>3, <2>1 DEF LifecycleInv, TypeOK, CallTypeOK
      <3> QED
        BY <1>6, <3>1, ConcludeStep DEF Failures
    <2> QED
      BY <1>1, <1>2, <2>1, <2>2
  <1>7. CASE InspectExit \/ InspectFails \/ DropRuntime \/ ReturnToOwner
    <2>1. /\ exec' = exec /\ exitCode' = exitCode /\ said' = said /\ shown' = shown /\ mode' = mode
          /\ pc' \in {"drop", "done"}
          /\ \/ result' = result
             \/ result' = "finished" /\ pc = "poll" /\ exec = "exited"
             \/ result' \in {"no exit code", "inspect failed"}
      BY <1>7, FinalStep
    <2> QED
      BY <1>1, <1>2, <2>1
  <1>8. CASE Stdin \/ Environment
    <2>1. /\ mode' = mode /\ pc' = pc /\ failure' = failure /\ result' = result /\ shown' = shown
          /\ \/ exec' = exec /\ exitCode' = exitCode /\ said' = said
             \/ exec = "running" /\ exec' = exec /\ exitCode' = exitCode
             \/ exec = "running" /\ exec' = "closed" /\ exitCode' = exitCode /\ said' = said
             \/ exec \in {"running", "closed"} /\ exec' = "exited" /\ exitCode' # NoCode /\ said' = said
      BY <1>8, AroundStep DEF NoCode
    <2> QED
      BY <1>1, <1>2, <2>1
  <1> QED
    BY <1>4, <1>5, <1>6, <1>7, <1>8 DEF Next, End

----------------------------------------------------------------------------
(* The terminal and the end of host stdin.                                 *)

LEMMA TerminalInvStep ==
    ASSUME LifecycleInv, Next
    PROVE  TerminalTypeOK' /\ TerminalInv'
  <1> USE DEF TerminalTypeOK, TerminalInv, ResizesReachExec
  <1>1. /\ TerminalTypeOK /\ TerminalInv /\ MaxResizes \in Nat
        /\ pc \in {"create", "start", "subscribe", "size", "resize", "recv", "write", "end", "poll",
                   "drop", "done"}
    BY LifecycleAssumption DEF LifecycleInv, TypeOK, CallTypeOK
  <1>2. CASE Begin
    <2>1. /\ tty' = tty /\ termSize' = termSize /\ resizes' = resizes /\ listening' = listening
          /\ winch' = winch /\ sizeRead' = sizeRead /\ execSize' = execSize
          /\ sizeUnknown' = sizeUnknown
      BY <1>2, BeginStep
    <2>2. pc' \in {"start", "poll", "subscribe", "recv", "drop"}
          /\ (pc' = "subscribe" => tty) /\ (pc' = "recv" => ~tty)
      <3>1. tty \in BOOLEAN /\ RequestOK
        BY DEF LifecycleInv, TypeOK, CallTypeOK, CallInv
      <3> QED
        BY <1>2, <3>1, BeginStep
    <2>3. TerminalTypeOK'
      BY <1>1, <2>1, <2>2
    <2>4. TerminalInv'
      BY <1>1, <2>1, <2>2
    <2> QED
      BY <2>3, <2>4
  <1>3. CASE Terminal
    <2>1. tty' = tty /\ tty /\ termSize' = termSize /\ resizes' = resizes
      <3>1. pc \in {"subscribe", "size", "resize"} \/ (pc = "recv" /\ listening)
        BY <1>3 DEF Terminal, Subscribe, SubscribeFails, ReadSize, ReadNoSize, ResizeExec,
                    ResizeExecFails, ReceiveWinch
      <3> QED
        BY <1>1, <1>3, <3>1, SessionStep
    <2> QED
      BY <1>1, <1>3, <2>1, TerminalStep
  <1>4. CASE Output
    <2>1. tty' = tty /\ pc' \in {"recv", "write", "end"} /\ (pc' # "end" => pc \in {"recv", "write"})
      BY <1>4, OutputStep, SessionStep
    <2> QED
      BY <1>1, <1>4, <2>1, OutputStep
  <1>5. CASE StopStdinTask \/ SettleJoin \/ SettleTimeout
    <2>1. /\ termSize' = termSize /\ resizes' = resizes /\ listening' = listening
          /\ winch' = winch /\ sizeRead' = sizeRead /\ execSize' = execSize
          /\ sizeUnknown' = sizeUnknown
      BY <1>5 DEF StopStdinTask, SettleJoin, SettleTimeout, Conclude, termVars
    <2>2. pc' \in {"poll", "drop"} /\ tty' = tty
      BY <1>5, ConcludeStep
    <2>3. TerminalTypeOK'
      BY <1>1, <2>1, <2>2
    <2>4. TerminalInv'
      BY <1>1, <2>1, <2>2
    <2> QED
      BY <2>3, <2>4
  <1>6. CASE InspectExit \/ InspectFails \/ DropRuntime \/ ReturnToOwner
    <2>1. /\ termSize' = termSize /\ resizes' = resizes /\ listening' = listening
          /\ winch' = winch /\ sizeRead' = sizeRead /\ execSize' = execSize
          /\ sizeUnknown' = sizeUnknown /\ tty' = tty /\ pc' \in {"drop", "done"}
      BY <1>6, FinalStep
    <2>3. TerminalTypeOK'
      BY <1>1, <2>1
    <2>4. TerminalInv'
      BY <1>1, <2>1
    <2> QED
      BY <2>3, <2>4
  <1>7. CASE Stdin \/ Environment
    BY <1>1, <1>7, AroundStep
  <1> QED
    BY <1>2, <1>3, <1>4, <1>5, <1>6, <1>7 DEF Next, End

LEMMA StdinInvStep ==
    ASSUME LifecycleInv, Next
    PROVE  StdinInv'
  <1> USE DEF StdinInv
  <1>1. /\ StdinInv
        /\ stdinPc = "stopped" <=> stdinEnd # "running"
        /\ stdinEnd \in {"running", "eof", "error", "cancelled"}
        /\ stdinAbort => pc \in {"poll", "drop", "done"}
        /\ result # "none" <=> pc \in {"drop", "done"}
        /\ pc \in {"create", "start", "subscribe", "size", "resize", "recv", "write", "end", "poll",
                   "drop", "done"}
    BY DEF LifecycleInv, ForwardingInv, PlaceInv, StdinTypeOK, TypeOK, CallInv, CallTypeOK
  <1>2. CASE Begin
    BY <1>1, <1>2, BeginStep
  <1>3. CASE Terminal \/ Output
    <2>1. pc' \notin {"poll", "drop", "done"} /\ result' = "none" /\ stdinEnd' = stdinEnd
          /\ stdinEnd # "cancelled"
      BY <1>1, <1>3, SessionStep DEF InSession
    <2> QED
      BY <2>1
  <1>4. CASE StopStdinTask \/ SettleJoin \/ SettleTimeout
    <2>1. pc = "end" /\ pc' \in {"poll", "drop"} /\ mode' = mode /\ stdinDisabled' = stdinDisabled
          /\ stdinEnd' = stdinEnd
      BY <1>4, ConcludeStep
    <2>2. stdinEnd # "cancelled" /\ result = "none"
      BY <1>1, <2>1
    <2>3. result' # "finished"
      <3>1. failure \in {"none"} \cup Failures
        BY DEF LifecycleInv, TypeOK, CallTypeOK
      <3> QED
        BY <1>4, <2>2, <3>1, ConcludeStep DEF Failures
    <2>4. pc' = "poll" /\ mode = "Protocol" => stdinDisabled \/ stdinEnd = "eof"
      BY <1>1, <1>4, <2>2, ConcludeStep
    <2> QED
      BY <2>1, <2>2, <2>3, <2>4
  <1>5. CASE InspectExit \/ InspectFails \/ DropRuntime \/ ReturnToOwner
    <2>1. stdinPc \notin {"off", "stopped"} => stdinEnd = "running"
      BY <1>1
    <2>2. /\ mode' = mode /\ stdinDisabled' = stdinDisabled /\ pc' \in {"drop", "done"}
          /\ result' = "finished" => (result = "finished" \/ pc = "poll")
          /\ stdinEnd = "eof" => stdinEnd' = "eof"
      BY <1>5, <2>1, FinalStep
    <2> QED
      BY <1>1, <2>2
  <1>6. CASE Stdin
    <2>1. mode' = mode /\ pc' = pc /\ result' = result
      BY <1>6, AroundStep
    <2>2. /\ stdinDisabled' = stdinDisabled
          /\ stdinEnd = "eof" => stdinEnd' = "eof"
          /\ stdinEnd' = "cancelled" => stdinEnd = "cancelled" \/ stdinAbort
      BY <1>1, <1>6, TaskPlace DEF Stdin, LifecycleInv
    <2> QED
      BY <1>1, <2>1, <2>2
  <1>7. CASE Environment
    <2>1. mode' = mode /\ pc' = pc /\ result' = result
      BY <1>7, AroundStep
    <2>2. stdinDisabled' = stdinDisabled /\ stdinEnd' = stdinEnd
      BY <1>7 DEF Environment, ExecSays, ExecCloses, ExecExits, TerminalResizes, stdinVars,
                  copyVars, choiceVars
    <2> QED
      BY <1>1, <2>1, <2>2
  <1> QED
    BY <1>2, <1>3, <1>4, <1>5, <1>6, <1>7 DEF Next, End

----------------------------------------------------------------------------
(* The invariant of the call.                                              *)

LEMMA LifecycleInit == Init => LifecycleInv
  <1> SUFFICES ASSUME Init PROVE LifecycleInv
    OBVIOUS
  <1>1. ForwardingInv
    BY ForwardingInit DEF Init
  <1>2. CallTypeOK /\ CallInv
    BY DEF Init, StdinInit, CallTypeOK, CallInv, MaybeCode, NoCode, Results, InSession, RequestOK,
           StdinAlive
  <1>3. ExecTypeOK
    <2>1. Len(script) \in Nat /\ script \in Scripts
      <3>1. script \in Seq(Records) /\ script \in Scripts
        BY LifecycleAssumption DEF Init
      <3> QED
        BY <3>1, LenProperties
    <2>2. /\ exec = "absent" /\ exitCode = NoCode /\ said = 0 /\ shown = 0 /\ pc = "create"
          /\ out = <<>> /\ err = <<>>
      BY DEF Init
    <2>3. <<>> \in Seq(1..shown)
      BY EmptySeq
    <2> QED
      BY <2>1, <2>2, <2>3 DEF ExecTypeOK, MaybeCode
  <1>4. TerminalTypeOK /\ TerminalInv
    <2>1. /\ termSize \in Sizes /\ resizes = 0 /\ listening = FALSE /\ winch = FALSE
          /\ sizeRead = NoSize /\ execSize = NoSize /\ sizeUnknown = FALSE /\ pc = "create"
      BY DEF Init
    <2>2. MaxResizes \in Nat
      BY LifecycleAssumption
    <2>3. TerminalTypeOK
      <3>1. resizes \in 0..MaxResizes
        BY <2>1, <2>2
      <3>2. /\ sizeRead \in Sizes \cup {NoSize} /\ execSize \in Sizes \cup {NoSize}
            /\ pc # "resize"
        BY <2>1
      <3>3. listening \in BOOLEAN /\ winch \in BOOLEAN /\ sizeUnknown \in BOOLEAN
        BY <2>1
      <3> QED
        BY <2>1, <3>1, <3>2, <3>3 DEF TerminalTypeOK
    <2>4. TerminalInv
      BY <2>1 DEF TerminalInv, ResizesReachExec
    <2> QED
      BY <2>3, <2>4
  <1>5. ExecInv /\ StdinInv
    BY DEF Init, StdinInit, ExecInv, StdinInv, NoCode
  <1> QED
    BY <1>1, <1>2, <1>3, <1>4, <1>5 DEF LifecycleInv, TypeOK, ForwardingInv

LEMMA LifecycleStutter ==
    ASSUME LifecycleInv, UNCHANGED vars
    PROVE  LifecycleInv'
  <1>1. ForwardingInv'
    BY IdleStep DEF vars, LifecycleInv
  <1>2. CallTypeOK' /\ CallInv'
    BY DEF vars, lifecycleVars, requestVars, callVars, resultVars, execVars, stdinVars, copyVars,
           choiceVars, LifecycleInv, TypeOK, CallTypeOK, CallInv, RequestOK, StdinAlive
  <1>3. ExecTypeOK' /\ ExecInv'
    BY DEF vars, lifecycleVars, requestVars, callVars, resultVars, outputVars, execVars,
           LifecycleInv, TypeOK, ExecTypeOK, ExecInv, OutputComplete
  <1>4. TerminalTypeOK' /\ TerminalInv'
    BY DEF vars, lifecycleVars, requestVars, callVars, termVars, LifecycleInv, TypeOK,
           TerminalTypeOK, TerminalInv, ResizesReachExec
  <1>5. StdinInv'
    BY DEF vars, lifecycleVars, requestVars, callVars, resultVars, stdinVars, copyVars, choiceVars,
           LifecycleInv, StdinInv
  <1> QED
    BY <1>1, <1>2, <1>3, <1>4, <1>5 DEF LifecycleInv, TypeOK, ForwardingInv

LEMMA LifecycleStep == LifecycleInv /\ [Next]_vars => LifecycleInv'
  <1> SUFFICES ASSUME LifecycleInv, [Next]_vars PROVE LifecycleInv'
    OBVIOUS
  <1>1. CASE Next
    <2>1. ForwardingInv'
      BY StdinStep DEF LifecycleInv
    <2>2. CallTypeOK' /\ CallInv' /\ ExecTypeOK' /\ ExecInv' /\ StdinInv'
      BY <1>1, CallTypeStep, CallStep, ExecTypeStep, ExecStep, StdinInvStep
    <2>3. TerminalTypeOK' /\ TerminalInv'
      BY <1>1, TerminalInvStep
    <2> QED
      BY <2>1, <2>2, <2>3 DEF LifecycleInv, TypeOK, ForwardingInv
  <1>2. CASE UNCHANGED vars
    BY <1>2, LifecycleStutter
  <1> QED
    BY <1>1, <1>2

\* What the program point, the exec, the terminal and the stdin task say of each
\* other holds at every point of the call (exec/mod.rs:323-377,
\* attached.rs:66-340, protocol.rs:187-270).
THEOREM LifecycleInvariant == Spec => []LifecycleInv
  BY LifecycleInit, LifecycleStep, PTL DEF Spec

\* Every variable has its type: positions never run past what the exec said, and
\* the copy never holds more than its buffer.
THEOREM LifecycleTypeCorrect == Spec => []TypeOK
  <1>1. LifecycleInv => TypeOK
    BY DEF LifecycleInv
  <1> QED
    BY <1>1, LifecycleInvariant, PTL

\* Container stdin is at all times a prefix of the host's whole stream with at most
\* the first line masked, and holds what was read up to now but for what is held
\* or an unfinished first frame, across the first frame, the copy and the end; it is
\* shut down only when it is all of the stream (protocol_stdin.rs:162-179,
\* acp_helpers.rs:60-188).
THEOREM InputIsFaithful == Spec => []InputFaithful
  <1>1. LifecycleInv => InputFaithful
    BY InputIsPrefix DEF LifecycleInv
  <1> QED
    BY <1>1, LifecycleInvariant, PTL

\* However the call ends, its stdin task has stopped or was told to
\* (attached.rs:84-109, protocol_stdin.rs:111-158).
THEOREM StdinIsReleased == Spec => []StdinReleased
  <1>1. LifecycleInv => StdinReleased
    BY DEF LifecycleInv, CallInv, StdinReleased
  <1> QED
    BY <1>1, LifecycleInvariant, PTL

\* No change of the terminal's size is lost between the subscription to SIGWINCH
\* and the sizes read after it (attached.rs:269-278, 318-340).
THEOREM ResizesReach == Spec => []ResizesReachExec
  <1>1. LifecycleInv => ResizesReachExec
    BY DEF LifecycleInv, TerminalInv
  <1> QED
    BY <1>1, LifecycleInvariant, PTL

\* A protocol session that reports an exit code has given the exec all of host
\* stdin and closed it, unless stdin is disabled (protocol_stdin.rs:111-147).
THEOREM ProtocolInputIsComplete == Spec => []ProtocolInputComplete
  <1>1. LifecycleInv => ProtocolInputComplete
    <2> SUFFICES ASSUME LifecycleInv, result = "finished", mode = "Protocol", ~stdinDisabled
                 PROVE  inputShut /\ hostRead = Len(host) /\ input = AllForwarded
      BY DEF ProtocolInputComplete
    <2>1. stdinEnd = "eof"
      BY DEF LifecycleInv, StdinInv
    <2>2. inputShut /\ hostRead = Len(host)
      BY <2>1 DEF LifecycleInv, ForwardingInv, PlaceInv
    <2>3. InputFaithful
      BY InputIsPrefix DEF LifecycleInv
    <2> QED
      BY <2>2, <2>3 DEF InputFaithful
  <1> QED
    BY <1>1, LifecycleInvariant, PTL

\* The process exits with 0 exactly when the exec is known to have exited with 0,
\* for every integer exit code (main.rs:247-258, api/exec.rs:264-270).
THEOREM StatusIsTruthful == Spec => []StatusTellsSuccess
  <1>1. LifecycleInv => StatusTellsSuccess
    <2> SUFFICES ASSUME LifecycleInv, pc = "done"
                 PROVE  ProcessStatus = 0 <=> result = "finished" /\ exitCode = <<0>>
      BY DEF StatusTellsSuccess
    <2>1. CASE result # "finished"
      BY <2>1 DEF ProcessStatus
    <2>2. CASE result = "finished"
      <3>1. reported = exitCode /\ exitCode # NoCode /\ exitCode \in MaybeCode
        BY <2>2 DEF LifecycleInv, CallInv, ExecInv, TypeOK, ExecTypeOK
      <3>2. PICK code \in Int : exitCode = <<code>>
        BY <3>1, LifecycleAssumption DEF MaybeCode
      <3>3. CASE code = 0
        BY <2>2, <3>1, <3>2, <3>3 DEF ProcessStatus
      <3>4. CASE code # 0
        <4>1. NormalizeProcessExitCode(code) \in 1..255
          BY <3>4 DEF NormalizeProcessExitCode
        <4>2. NormalizeProcessExitCode(code) % 256 # 0
          BY <4>1
        <4>3. exitCode # <<0>> /\ exitCode[1] = code
          BY <3>2, <3>4
        <4>4. ProcessStatus = NormalizeProcessExitCode(code) % 256
          BY <2>2, <3>1, <4>3 DEF ProcessStatus
        <4> QED
          BY <4>2, <4>3, <4>4
      <3> QED
        BY <3>3, <3>4
    <2> QED
      BY <2>1, <2>2
  <1> QED
    BY <1>1, LifecycleInvariant, PTL

----------------------------------------------------------------------------
(* The call implements its contract.                                       *)

\* Nothing that the contract sees, apart from its outcome, changes.
LEMMA ContractIdle ==
    ASSUME mode' = mode, script' = script, exitCode' = exitCode, said' = said,
           shown' = shown, out' = out, err' = err, result' = result, reported' = reported
    PROVE  UNCHANGED Contract!contractVars
  BY DEF Contract!contractVars

LEMMA ContractFails ==
    ASSUME LifecycleInv, mode' = mode, script' = script, exitCode' = exitCode, said' = said,
           shown' = shown, out' = out, err' = err, reported' = reported,
           result = "none", result' \notin {"none", "finished"}
    PROVE  Contract!Fail
  BY DEF Contract!Fail

\* A record is shown where its kind and the mode put it.
LEMMA ContractShows ==
    ASSUME LifecycleInv, WriteAttached \/ WriteProtocol
    PROVE  Contract!Show
  <1>1. /\ pc = "write" /\ mode \in {"Attached", "Protocol"}
        /\ shown' = shown + 1
        /\ mode' = mode /\ script' = script /\ exitCode' = exitCode /\ said' = said
        /\ result' = result /\ reported' = reported
    BY DEF WriteAttached, WriteProtocol, ShowOn, requestVars, resultVars, execVars
  <1>2. shown < said /\ result = "none"
    BY <1>1 DEF LifecycleInv, TypeOK, ExecTypeOK, CallInv
  <1>3. /\ out' = IF script[shown'] \in Contract!OnStdout THEN Append(out, shown') ELSE out
        /\ err' = IF script[shown'] = "StdErr" THEN Append(err, shown') ELSE err
    <2>1. CASE WriteAttached
      BY <1>1, <2>1 DEF WriteAttached, ShowOn, Current, Contract!OnStdout
    <2>2. CASE WriteProtocol
      BY <1>1, <2>2 DEF WriteProtocol, ShowOn, Current, Contract!OnStdout
    <2> QED
      BY <2>1, <2>2
  <1> QED
    BY <1>1, <1>2, <1>3 DEF Contract!Show

LEMMA ContractInitially == Init => Contract!ContractInit
  BY DEF Init, Contract!ContractInit, NoCode, Contract!NoCode

LEMMA ContractStep ==
    LifecycleInv /\ [Next]_vars =>
        [Contract!Say \/ Contract!Exit \/ Contract!Show \/ Contract!Finish
            \/ Contract!Fail]_Contract!contractVars
  <1> SUFFICES ASSUME LifecycleInv, [Next]_vars
               PROVE  \/ Contract!Say \/ Contract!Exit \/ Contract!Show \/ Contract!Finish
                      \/ Contract!Fail
                      \/ UNCHANGED Contract!contractVars
    OBVIOUS
  <1>1. /\ result # "none" <=> pc \in {"drop", "done"}
        /\ exec = "exited" <=> exitCode # NoCode
        /\ failure \in {"none"} \cup Failures
    BY DEF LifecycleInv, CallInv, ExecInv, TypeOK, CallTypeOK
  <1>2. CASE Begin
    <2>1. /\ mode' = mode /\ script' = script /\ exitCode' = exitCode /\ said' = said
          /\ shown' = shown /\ out' = out /\ err' = err /\ reported' = reported
          /\ pc \in {"create", "start"}
          /\ result' = result \/ result' \in {"create failed", "start failed", "mode mismatch"}
      BY <1>2, BeginStep
    <2> QED
      BY <1>1, <2>1, ContractIdle, ContractFails
  <1>3. CASE Terminal
    BY <1>3, SessionStep, TerminalStep, ContractIdle
  <1>4. CASE Output
    <2>1. CASE WriteAttached \/ WriteProtocol
      BY <2>1, ContractShows
    <2>2. CASE ReceiveRecord \/ WriteFails \/ StreamFails \/ StreamEnds
      <3>1. shown' = shown /\ out' = out /\ err' = err
        BY <2>2 DEF ReceiveRecord, WriteFails, StreamFails, StreamEnds, outputVars
      <3> QED
        BY <1>4, <3>1, SessionStep, ContractIdle
    <2> QED
      BY <1>4, <2>1, <2>2 DEF Output
  <1>5. CASE StopStdinTask \/ SettleJoin \/ SettleTimeout
    <2>1. /\ mode' = mode /\ script' = script /\ exitCode' = exitCode /\ said' = said
          /\ shown' = shown /\ out' = out /\ err' = err /\ reported' = reported
          /\ pc = "end"
          /\ result' = result \/ result' = "stdin failed" \/ (failure # "none" /\ result' = failure)
      BY <1>5, ConcludeStep
    <2>2. result' = result \/ result' \notin {"none", "finished"}
      BY <1>1, <2>1 DEF Failures
    <2> QED
      BY <1>1, <2>1, <2>2, ContractIdle, ContractFails
  <1>6. CASE InspectExit
    <2>1. /\ pc = "poll" /\ exec = "exited" /\ result' = "finished" /\ reported' = exitCode
          /\ mode' = mode /\ script' = script /\ exitCode' = exitCode /\ said' = said
          /\ shown' = shown /\ out' = out /\ err' = err
      BY <1>6 DEF InspectExit, requestVars, outputVars, execVars
    <2>2. mode # "Detached" => shown = said
      BY <2>1 DEF LifecycleInv, ExecInv, OutputComplete
    <2>3. exitCode # Contract!NoCode
      BY <1>1, <2>1 DEF NoCode, Contract!NoCode
    <2> QED
      BY <1>1, <2>1, <2>2, <2>3 DEF Contract!Finish
  <1>7. CASE InspectFails
    <2>1. /\ pc = "poll" /\ reported' = reported
          /\ result' \in {"no exit code", "inspect failed"}
          /\ mode' = mode /\ script' = script /\ exitCode' = exitCode /\ said' = said
          /\ shown' = shown /\ out' = out /\ err' = err
      BY <1>7 DEF InspectFails, FailCall, requestVars, outputVars, execVars
    <2> QED
      BY <1>1, <2>1, ContractFails
  <1>8. CASE DropRuntime \/ ReturnToOwner
    BY <1>8, ContractIdle DEF DropRuntime, ReturnToOwner, requestVars, resultVars, outputVars, execVars
  <1>9. CASE Stdin \/ ExecCloses \/ TerminalResizes
    BY <1>9, ContractIdle
    DEF Stdin, ExecCloses, TerminalResizes, lifecycleVars, requestVars, callVars, resultVars,
        outputVars, execVars
  <1>10. CASE ExecSays
    <2>1. exitCode = Contract!NoCode
      BY <1>1, <1>10 DEF ExecSays, NoCode, Contract!NoCode
    <2> QED
      BY <1>10, <2>1 DEF ExecSays, Contract!Say, requestVars, callVars, resultVars, outputVars
  <1>11. CASE ExecExits
    <2>1. exitCode = Contract!NoCode
      BY <1>1, <1>11 DEF ExecExits, NoCode, Contract!NoCode
    <2> QED
      BY <1>11, <2>1 DEF ExecExits, Contract!Exit, requestVars, callVars, resultVars, outputVars
  <1>12. CASE UNCHANGED vars
    BY <1>12, ContractIdle
    DEF vars, lifecycleVars, requestVars, callVars, resultVars, outputVars, execVars
  <1> QED
    BY <1>2, <1>3, <1>4, <1>5, <1>6, <1>7, <1>8, <1>9, <1>10, <1>11, <1>12
    DEF Next, End, Environment

\* The call implements its contract: what the exec says reaches the host once, in
\* order and on its stream, and an exit code is reported only when it is that of
\* the exec and all of its output was shown (exec/mod.rs:323-377,
\* attached.rs:179-254, protocol_output.rs:67-132).
THEOREM ExecImplementsContract == Spec => ImplementsContract
  <1>1. Spec => Contract!ContractInit /\ [][Contract!Say \/ Contract!Exit \/ Contract!Show
                    \/ Contract!Finish \/ Contract!Fail]_Contract!contractVars
    BY ContractInitially, ContractStep, LifecycleInvariant, PTL DEF Spec
  <1> QED
    BY <1>1 DEF ImplementsContract, Contract!ContractSpec

=============================================================================
