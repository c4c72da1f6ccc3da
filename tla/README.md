# Podbot in TLA+

Podbot runs an AI agent in a container and, for hosted agents, stands between
the agent and its host as a byte proxy that enforces a capability policy. This
directory holds TLA+ models of that program, the TLC runs that check them on
small instances, and TLAPS proofs of the results that matter most.

Paths below are relative to the repository; `exec/` is
`src/engine/connection/exec/`.

## The system

| Part | State it keeps | Operations | Correct when | Modelled |
|---|---|---|---|---|
| ACP policy (`exec/acp_policy.rs`) | none | `evaluate_agent_outbound_frame`, `build_method_blocked_error` | exactly the blocked families are refused, and an id makes a refusal a response | `AcpPolicy` |
| Frame assembler (`exec/acp_frame.rs`) | `buffer`, `raw_fallback` | `ingest_chunk`, `finish` | chunk boundaries never change what is decided; nothing is lost; memory is bounded | `AcpFrame`, `AcpLines` |
| First-frame masking (`exec/acp_helpers.rs`) | `first_frame` while reading | `read_and_mask_initial_acp_frame`, `mask_acp_initialize_frame` | the first line, and only it, is masked, up to the limit; every byte arrives once | `AcpMask`, `EnforcedSession`, `StdinForwarding` |
| Enforced session (`exec/protocol.rs`, `acp_runtime.rs`, `protocol_stdin.rs`, `protocol_output.rs`) | a coordinator, a stdin task, a sink task, a bounded channel | output loop, `finish`, settle, abort, await | it is one mailbox in front of the agent; see the properties below | `EnforcedSession`, `SessionContract` |
| Plain protocol session (same files) | the output loop and one copying task | output loop, settle | input and output are copied verbatim; a success lost nothing; errors come in order of precedence | `StdinForwarding`, `ExecLifecycle` |
| Attached session (`exec/attached.rs`, `terminal.rs`, `host_io.rs`) | output loop, stdin task, terminal size, SIGWINCH | select of output and SIGWINCH, resize, stop stdin | output is complete; no change of size is lost; the stdin task never outlives the call | `StdinForwarding`, `ExecLifecycle` |
| Exec lifecycle (`exec/mod.rs`, `session.rs`, `helpers.rs`, `runtime_helpers.rs`, `api/exec.rs`) | exec id, mode, the runtime | create, start, session, poll the exit code, drop the runtime | a returned exit code is the exec's own, after all of its output; an exited exec ends the call | `ExecLifecycle`, `ExecContract` |
| Repository cloning (`engine/connection/repository_clone`, `api/repository_clone.rs`) | the container's workspace | validation, `git clone`, a check of the branch | success is reported only of the call's own clone, on the requested branch | `RepositoryClone`, `RequestValues` |
| Git identity (`engine/connection/git_identity`, `api/configure_git_identity.rs`) | git config in the container | two reads on the host, up to two execs | the result names what was really set; no address without the name it goes with | `GitIdentity` |
| Credential upload (`engine/connection/upload_credentials`) | selected sources, one archive | select, walk, archive, upload | all or nothing; the result names what the container got; parents precede children | `CredentialUpload` |
| Container creation (`engine/connection/create_container`) | none | one request | privileges follow the configuration | `EngineConnection` |
| Engine connection (`engine/connection/mod.rs`, `health_check.rs`, `error_classification.rs`) | none | socket resolution, connect, ping | the socket is that of the highest source; a silent engine holds nobody up | `EngineConnection` |
| GitHub tokens (`github/`) | none | acquire with retries, expiry, validation of App credentials | up to its refresh time a token lives for the requested buffer | `InstallationToken`, `AgentRun` |
| Library API (`api/`) | none | `exec`, `run_agent`, the provisioning calls, which the embedder composes | a run succeeds only when every check did; what it accepts, the clone accepts too | `ExecLifecycle`, `AgentRun`, `RequestValues`, `Provisioning` |
| Configuration (`config/`) | none | choice of the file, four layers, normalization, validation | the highest layer that sets a key decides about it | `Configuration` |
| Command line (`main.rs`, `cli/`, `error.rs`) | none | parse, load, dispatch, exit status | a failed exec never becomes exit status 0 | `Invocation`; exit status: `ExecLifecycle` |

The parts interact by calls: `api` calls `engine`, which drives the container
daemon through Bollard. The provisioning calls are sequential inside, but the world
they look at is shared: the container's workspace with other calls and processes, the
host's files and git configuration with other programs, the clock with GitHub. Inside
an exec session podbot itself is concurrent. In the enforced session:

```
 container stdout --chunks--> coordinator --permitted--> host stdout
                                  | responses
                                  v
 host stdin --> stdin task --> bounded channel --> sink --> container stdin
```

What is hard about it: two senders and one writer share a channel whose back
pressure reaches the output loop; the container cuts its output at arbitrary
bytes; the host may never close stdin; the agent may stop reading or exit at any
time; every read and write may fail; and at the end tasks are joined, timed out
and aborted in a fixed order. `PROJECT.json` lists the hazards line by line, with
the properties that cover each.

An exec without enforcement is concurrent too, in another way:

```
 caller --> create, start --> session: output loop <-- records -- exec
                                  |   ^ SIGWINCH, sizes -- terminal
                                  |   stdin task: blocking reads <-- host stdin
            exit status <-- drop runtime <-- poll exit code <-- settle or stop stdin
```

Host stdin is read by a blocking call on a thread of its own. Aborting the task
that waits for it does not end that call; the code arranges its shutdown around
this, and so does the model.

## The modules

`Framing` holds the newline framing both directions share: `LineEnding` is
`trailing_line_ending` and `split_frame_line_ending`.

`AcpPolicy` is the pure policy. A JSON value is abstracted to what the policy
looks at: does it parse, is it JSON-RPC 2.0, its method (the blocked prefix it
starts with, and whether anything follows), its id. `Parse` is a parameter.

`AcpFrame` is the assembler as a state machine over a stream `source`. The
daemon delivers any `1..MaxChunkBytes` bytes at a time (`Ingest`); each iteration of
the loop in `ingest_chunk` is an action: `CompleteFrame`, `BufferTail`,
`OverflowTail`. `IngestRaw` is the loop-free path in raw fallback, `Finish` is
`finish`. `cuts` is a history of where each output ended.

`AcpLines` is the abstract filter: lines in, verdicts out, no chunks, no buffer.
`AcpFrame!ImplementsLines` says that the assembler implements it, with the position
of the abstract filter mapped to the last cut.

`AcpMask` is the masking of the first host frame. A host message is abstracted
to its method and the keys of `clientCapabilities`.

`EnforcedSession` is `run_session_with_runtime_enforcement`. It extends the
assembler with:

| Code | Model |
|---|---|
| the coordinator's position | `pc`: recv, dispatch, finish, settle, await, done |
| `handle_chunk` | `RecvChunk`, `ScanChunk`, the `Dispatch...` actions, `EndChunk` |
| an error of host stdout / of the stream or host stderr | `HostStdoutFails` / `OutputFails` |
| `adapter.finish(); drop(adapter)` | `CloseAdapter` |
| `settle_stdin_forwarding_task` and the two aborts | `SettleJoin`, `SettleTimeout`, `Conclude` |
| `sink_task.await` | `AwaitSink` |
| `read_and_mask_initial_acp_frame` | `ReadFirstFrame`, `FirstFrameTooLong`, `FirstFrameEof` |
| `pump_raw_frames` | `PumpRead`, `PumpEof`, `StdinSend`, `StdinSinkGone` |
| `run_container_stdin_sink` | `SinkRecv`, `SinkWriteOk`, `SinkBrokenPipe`, `SinkWriteFails` |
| `finalize_sink_writer` | `SinkFinish` begins it, `InputShuts` is the effect of `shutdown()`, `SinkReturns` its return, after the effect or without it: an error is only logged |
| `abort()` | a flag, and `StdinCancelled` / `SinkCancelled` at any later await |
| `HeldOpenStdin` | `stdinDisabled`: reads that never return |
| `mpsc::channel` | `chan`; `Send` waits for room; it fails once the receiver is gone |
| the agent and the pipe before it | `AgentRead`, `AgentExit`, `unread` of `PipeCapacity` writes |

An action is what happens between two awaits that other tasks can observe. The
loop in `ingest_chunk` has no await, so `ScanChunk` steps only move the assembler
and nothing that another task reads. Two things are coarser than the code: a
write to the container is one step (a write cut short by an error counts as not
delivered), and a flush is part of its write. The shutdown of container stdin is not: it
is awaited, so it may take effect or not, return after either, and be aborted in between.

`SessionContract` is what an enforced session promises, with no chunk, task, sink or
timeout: judge, act, relay, give, break, stop listening, shut, succeed, fail.
`EnforcedSession!ImplementsContract` says that the session implements it. The one mailbox
of the contract is mapped to `Mailbox`: the command the sink is writing, then the channel, as
long as container stdin takes anything (`InputBroken` is the opposite, a shutdown in order
excepted). `acted` is mapped to the index of the next output,
`listening` to the coordinator's first two positions.

`StdinForwarding` is the copying task of attached and plain protocol sessions, with
the blocking read of host stdin as a step of its own: `StartRead` begins it,
`HostSends` or `HostEnds` ends it, and only then can the task, if it still lives,
go on. `ReadFirstFrame`, `FirstFrameUnchanged` and `FirstFrameWritten` are
`forward_initial_acp_frame_async`; `CopyRead`, `WriteHeld` and `CopyEof` are
`tokio::io::copy`, which reads ahead while a write waits; `ShutInput` is flush and
shutdown. A write may take any prefix of what is held.

`ExecLifecycle` extends it to one whole call of `exec`:

| Code | Model |
|---|---|
| the call's position | `pc`: create, start, subscribe, size, resize, recv, write, end, poll, drop, done |
| `create_exec`, `start_exec`, the match on mode and start result | `CreateExec`, `StartDetached`, `StartSession`, `StartExecMismatched`, and their failures |
| `maybe_sigwinch_listener` | `Subscribe`, `SubscribeFails` |
| `terminal_size`, then `resize_exec` | `ReadSize` or `ReadNoSize`, then `ResizeExec` or `ResizeExecFails` |
| the two branches of the select | `ReceiveRecord`, `ReceiveWinch` |
| `write_exec_output_chunk` / `handle_log_output_chunk` | `WriteAttached` / `WriteProtocol`, `WriteFails` |
| `stop_stdin_forwarding_task` | `StopStdinTask` |
| `settle_stdin_forwarding_task` | `SettleJoin`, `SettleTimeout` |
| `wait_for_exit_code_async` | `InspectExit`, `InspectFails` |
| dropping the runtime / returning to its owner | `DropRuntime` / `ReturnToOwner` |
| `exec_with_client`, `main`, `normalize_process_exit_code` | `ProcessStatus` |
| the exec, the terminal | `ExecSays`, `ExecCloses`, `ExecExits`, `TerminalResizes` |

Reading the size and sending it are two steps, so the terminal may change between
them. The code polls for the exit code in a loop; polls that find a running exec
change nothing and are left out. The daemon is trusted in three things: it reports an
exit code only for an exec that has exited, and then the right one; it hands over
records in order; and it ends the stream only after all of them. A call owns its
runtime in `api::exec` and inside a current-thread runtime (`runtime_helpers.rs:18-26`).

`ExecContract` is what the caller is promised, with no session, task or daemon call:
say, show, exit, finish, fail. `ExecLifecycle!ImplementsContract` says that the call
implements it, with the call's error mapped to "failed".

`RepositoryClone`, `GitIdentity`, `CredentialUpload` and `InstallationToken` are the
four operations an embedder prepares a sandbox with, each with the part of the world
it races with:

| Code | Model |
|---|---|
| `run_clone` | `RunClone` in the container, `CloneSucceeds` when a poll finds its exit code, `RunCloneFails` before, during or after the clone, which may leave a part or all of it |
| `verify_checked_out_branch` | `TestBranch` in the container, `VerifyCheckedOutBranch` when a poll finds its exit code, `VerifyFails` before or after the test |
| processes of the container, other calls | `CheckoutInContainer`; `CloneCalls` overlap |
| `read_host_git_identity` | `ReadName`, `ReadEmail`, with `HostIdentityChanges` between them |
| `configure_git_identity` in the container | `SetName`, `SetEmail`, `SetFails`, before or after the effect |
| `source_directory_names` | `IncludeClaude`, `IncludeCodex` |
| the recursive walk | `todo`, a list of work: `AppendDirectoryHeader`, `OpenDir`, `AppendDirectoryContents`, `OpenFile`, `StreamFile`, `AppendSymlink`, `PassOver` |
| `upload_to_container` | `UploadToContainer`, `UploadFails` |
| other programs of the host | `HostResizes`, `HostRemoves` between any two file-system calls |
| `installation()`, the stamp, the buffer | `PrepareToken` |
| `POST access_tokens`, its retries, the metadata | `RequestToken`, `RetryRequest`, `RequestFails`, while `TimePasses` |

A path in the upload is the sequence of its names, so that "at or below" is "is a prefix of", to
any depth; the tree is given by the sorted entries of each directory. A git command inside
the container is one step. An open file keeps its contents when
it is removed. Times are numbers between the ends of the clock; a buffer may be longer
than what chrono holds. Podbot's clock and GitHub's are taken to agree. `Provisioning` composes
the four: the embedder repeats any one of them. They share no state, so interleaving
different ones would only multiply the states.

`Configuration` is `load_config`: the choice of the file by looking, the read, which may
find it gone or damaged (`FileDisappears`), the environment, the merge, the dependent
default, the validation against what the command intends. A layer is a partial function
from keys to values, and `Over` lays one above another.

`RequestValues` holds the strings a caller hands over and the two validators that judge
them: the one of `podbot run` and the one of the clone, which trims. Strings are real
sequences here, because the property is about every one of them.

`AgentRun` is `run_agent`: the request, the GitHub settings, then the validation on a thread
of its own with a runtime of its own, where key, client, `GET /app`, its retries and a panic
may each end it.

`EngineConnection` resolves the socket (override, file and environment come as one value
from `Configuration`; the three foreign variables and the default after it), connects,
pings with a time limit, and creates a container from the configuration.

`Invocation` composes these three: an invocation loads its configuration and dispatches its
command. `create` stands for an embedder that connects with a health check and then
creates a container; `exec` connects without one and goes on in `ExecLifecycle`.

The `..._proofs` modules hold the theorems; the `MC...` modules choose small
instances.

## The runs

| Run | Instance | Asks |
|---|---|---|
| `acp_frame` | every stream of at most 6 bytes over two letters, CR and NL, limit 2, chunks of up to 4 | the assembler's invariants and `ImplementsLines` |
| `session_safety` | 4 agent streams, 3 hosts, channel and pipe of 1, all failures | the safety of the whole session, and `ImplementsContract` |
| `session_liveness` | one agent with two denials, one host that closes early or never, under `FairSpec` | termination and absence of starvation |
| `answers_before_close` | one agent, one host | refutes a documented promise |
| `host_lines_whole` | one agent, a host with two lines | refutes a documented promise |
| `exec_safety` | an exec that uses all four kinds of records and exits with 0, -1 or 256; a host with an `initialize` line and more; one resize; all modes, owners and failures | the safety of a whole call and `ImplementsContract` |
| `exec_liveness` | an exec with two records, a host with an unfinished line, one resize, under `FairSpec` | an exited exec ends the call, and no task stays |
| `exec_returns` | a silent exec | refutes a documented promise |
| `provisioning` | two calls of any one operation: two clones over two repositories with a branch and a tag; two host values; a tree of two sources, a file, a directory, a symlink and a socket; a token that lives 3 of 9 ticks | the safety of the four operations |
| `archive_sizes` | the same | refutes a comment of the code |
| `invocation` | layers that meet in the keys where it matters, repositories of up to 4 characters, 4 key files, 5 sockets | the safety of an invocation, and that a silent engine ends |
| `socket_order` | the same | refutes a documented order |

Why the bounds suffice. The assembler's behaviour depends on how a position
relates to the chunk, the buffer, the limit and the next newline. With a limit
of 2 and streams of 6, each of these orders occurs: a limit reached exactly,
passed in one chunk or in several, CRLF split across chunks, a newline right at
a limit, several frames in a chunk, a complete line after the fallback. In the
session, a channel of one command and a pipe of one write are full as soon as
two commands are on their way, which is every case that back pressure has; two
denials and two host commands are enough to fill both and wait. The first-frame
limit of 3 lets a host line be exactly as long as the limit, longer, or unfinished.
The content of the streams is chosen so that each branch of the policy occurs.

In an exec call the first-frame limit is 2, exactly the length of the host's
`initialize` line, and the copy's buffer is 2, so it fills and waits; each byte may
arrive and be written by itself. One resize suffices: what matters is where it
falls among subscription, read and call, and every place is tried (the proof covers any
number). The exit codes are the one success and one beyond each end of a process
status; 256 is the one that a mere truncation to 8 bits would turn into success.

In `provisioning` two calls are what overlap and repetition need: one to leave something
behind, one to meet it. Two host changes let a path change before and after it is looked at;
files of 0 to 2 bytes let one grow and shrink. The tree has one entry of each kind that
`classify_entry_kind` tells apart and a directory within a directory. The clock ends at 9,
so that expiry overflows it, and the buffers 0, 2, 4 and 9 are none, shorter than the
lifetime of 3, longer, and longer than chrono holds. One retry suffices, since a retry only
lets time pass. The run has 177,182 distinct states.

In `invocation` the layers are chosen so that each key that is judged or that reaches the
engine is set by each layer that can set it, alone and against another one, legally and not.
Four characters are enough for a repository with a blank or a second slash in each place;
the proof covers strings of every length. Each endpoint scheme that an error's classification
depends on occurs. The run has 138,326 distinct states.

Deadlock checking is off: a session that has returned, and one that waits for a
host and an agent that do nothing, may both stop; so may an embedder that has made its
calls, and an invocation that is over or waits for GitHub.

### What the session runs check

- `AnswersMatchDenials`: one response per denied request, with its id and line
  ending, in order, and none else, unless the sink is gone.
- `ImplementsContract`: outputs are acted on one by one in their order; a denial is
  answered in the mailbox that had room for it, or there is no mailbox any more; what goes
  into the mailbox reaches the agent once and in order, until it breaks, and then never again;
  container stdin is shut only with an empty mailbox and after the last output; a success
  has acted on every output and left nothing in the mailbox, and neither a piece nor a
  shutdown comes after it.
- `ShutdownDeliversAll`: when container stdin is shut down, no sender is left
  and everything queued was written.
- `HostStreamFaithful`, `InitializeMasked`: around the switch from the first frame to
  the pump nothing of host stdin is lost or repeated, and what the agent was given of it is at
  all times a prefix of the whole translated stream; an `initialize` within the limit
  arrives in one piece and masked.
- `SuccessIsComplete`: a session that reports success lost nothing: unless the agent closed
  its stdin, it was given the answers to all denied requests of all outputs, in order, and
  the translation of all that the host sent. It does not say that container stdin was then
  shut: a shutdown that fails is only logged (`exec/acp_runtime.rs:103-111`), and the agent may
  wait for an end of input that does not come.
- `FallbackLogged`: the one warning per session.
- `ExitEndsSession`, `NoTaskLeft`, `OutputResumes`, `QueueDrains`: see below.

### What the exec runs check

- `InputFaithful`: what was written to container stdin and what is on its way are
  what was read, at most the first line masked, across first frame, copy and
  shutdown; container stdin is at all times a prefix of what the whole stream becomes, and
  all of it when it is shut down.
- `ProtocolInputComplete`: a protocol session whose exit code is reported delivered
  all of host stdin, unless stdin is disabled.
- `ResizesReachExec`: while output flows, the exec has the terminal's size or a signal
  is pending, so the order "subscribe, then read the size" loses no change.
- `StdinReleased`: whichever way the call ends, errors of the subscription and of
  resizes included, its stdin task has stopped or was aborted.
- `StatusTellsSuccess`: the exit status is 0 exactly when the exec exited with 0.
- `ImplementsContract`: records reach the host once, in order, on the stream their
  kind and the mode give them; an exit code is reported only after all of them.
- `ExitEndsCall`: an exited exec ends the call even when the host never closes
  stdin. `NoTaskLeft`: after the return no stdin task lives on, on a shared runtime too.

### What the provisioning run checks

- `CloneReportTrue`: at the moment a clone reports success, the workspace holds the
  requested repository, put there by this very call, not by an overlapping one or by an
  earlier one that failed, and the branch it reports has been checked out in it at some moment
  since `git clone` was known to have succeeded (`sawBranch`, a history). Not at the moment of
  the report: the test is an exec of its own whose exit code is polled, and a checkout may
  fall between. It rests on git refusing a workspace in use, on the exit code of `git clone`
  being looked at, and on that of the test.
- `IdentityReportTrue`: the result names exactly the values set in the container.
- `IdentityFailureIsPrefix`: a failed call has not set the address without the name.
- `UploadAllOrNothing`: a `FilesystemError` means that the container was not touched.
- `UploadReportTrue`: the result names the directories the container got, and of an
  archived directory the container got every entry the host still has.
- `ArchiveInOrder`: each path once, a directory before its contents, siblings by name.
- `RefreshLeavesBuffer`: up to the refresh time a token has the buffer left to live at
  GitHub, though the time of issue is unknown to podbot.

### What the invocation run checks

- `HighestLayerWins`: a configuration that loads has for each key the value of the highest
  layer that sets it, in the file that was found too, even when that file goes away before
  it is read; it is legal and normalizing it again changes nothing; and that value
  is what is dialled and what the container gets.
- `RunSuccessIsAccepted`: `podbot run` succeeds only with no GitHub setting at all, or with all of
  them, a key that can sign, and GitHub's consent in this call.
- `AcceptedRunIsClonable`: what one validator accepts the other does, and both mean the
  same repository and branch.
- `EngineCallsEnd`: an engine that accepts the connection and is silent does not hold up the
  command.

### Fairness

`FairSpec` assumes that the Tokio runtime polls every task that can go on (weak
fairness of each task's enabled steps), that timers fire, that writes to host
stdout return, and that the daemon closes the output stream of an exec that has
exited. Nothing is assumed of the host (it may neither send nor close), and
nothing of failures. The agent's reading is assumed only where a property names
it: `OutputResumes` and `QueueDrains` are implications from `AgentReads`, because a
full pipe that nobody reads stops the sink, the channel and then the output loop. So they
say nothing of an agent that reads only once its own output drains: then agent and session
wait for each other, no timeout of the code breaks the circle, and only the agent's exit
does. `FairSpec` also assumes that a shutdown of container stdin returns, with or without an
error.
`ExitEndsSession` needs no such assumption: an exited agent's pipe takes or refuses
what is written.

`FairSpec` of an exec call assumes that the daemon answers, that host stdout takes
what is written, that the grace period ends, and that the runtime polls the call and an
aborted task; a borrowed runtime is one that its owner keeps running. Nothing makes the
host send or close, the exec read, write or exit, or a call fail: `StreamFails`,
`InspectFails` and all of `StdinTask` but cancellation are outside `Fairness`.

`Spec` of an invocation assumes that local code goes on (`ConnectToEngine`, which makes the
client and does not wait for the engine, and `ImageMissing`) and that timers fire
(`EngineTimesOut`: `HEALTH_CHECK_TIMEOUT_SECS` around the ping, and the time limit Bollard's
client is made with for other requests). The engine and GitHub owe no answer. For the
GitHub requests of a run the code sets no time limit, so nothing is claimed about its end.

### What the refuting runs show

1. `AnswersBeforeClose`. `exec/acp_runtime.rs:25-27` and the denylist plan
   (`docs/execplans/2-6-2-runtime-denylist.md:144-152`) promise that every response
   queued during the output loop is delivered before container stdin closes,
   and that the settle timeout cannot truncate it. But when stdin does not settle,
   which is the normal case of a host that keeps its stdin open, the coordinator
   aborts the sink (`exec/protocol.rs:319-322`) with whatever is queued. The
   counterexample: a denied request, end of output, settle timeout, abort. What
   does hold is `ShutdownDeliversAll`: a sink that finishes in order has written
   everything.
2. `HostLinesWhole`. The pump queues one command per read, so a response can lie
   between two commands that carry one host line. The plan (`:481-482`) promises that
   the two are interleaved correctly. What does hold is `InitializeMasked`: the first
   line is one command.
3. `ExitEndsExec`. Both kinds of session drop the aborted stdin task without awaiting it,
   so that shutdown does not hang on a blocked read (`exec/attached.rs:105-107`,
   `exec/protocol.rs:47-51`). But `api::exec` then drops the runtime it created
   (`api/exec.rs:240-244`), which waits for that read. The counterexample: the exec
   exits while a read of host stdin is under way and the host neither sends nor closes;
   the exit code is known, and the call never returns. What does hold is `ExitEndsCall`
   and, on a borrowed runtime, the return itself.
4. `HeaderSizesMatch`. `upload_credentials/archive.rs:153-155` says that reading the metadata
   from the open handle keeps the size in the header from drifting from the bytes streamed
   when the file changes in between. The handle rules out that the path leads to another
   file, not that this file is rewritten in place: the counterexample resizes a file between
   `OpenFile` and `StreamFile`.
5. `FileSocketFirst`. `docs/users-guide.md:384-393` lists `engine_socket` of the configuration file
   before `PODBOT_ENGINE_SOCKET`, first match wins. The environment is merged above the file
   (`config/loader.rs:82-161`), so the variable wins. What does hold is `HighestLayerWins`.

Seen while modelling, without a run of their own: the user's guide (450-456) says that
podbot checks the engine's health when it connects, but `ExecContext::connect`
(`api/exec.rs:187-200`) does not ping, which the model follows (`Verified`); an empty
`engine_socket` override counts as unset and lets `DOCKER_HOST` decide; a variable that holds a
wrong boolean or number fails the load at once, one that holds a wrong name of an agent or
mode only when the layers are merged, so an override can hide it.

## The proofs

`AcpFrame_proofs` proves, for every byte set, every set of streams, every limit and
every chunk size, with no assumption beyond CR differing from NL, the limits being
numbers and the streams being sequences of bytes:

- `FrameInvariant`: the inductive invariant `FrameInv`. `Verbatim` alone is not
  inductive: that a chunk is the next piece of the stream, that no chunk is left
  and the buffer is empty after a fallback or `finish`, and that the buffer holds no
  newline (so that completing a frame yields one line and not two) must be added:
  these are `Position` and `BufferBounded`.
- its parts: `FrameTypeCorrect`, `FrameIsVerbatim`, `DecisionsAreOfLines`,
  `BufferIsBounded`.
- `FrameImplementsLines`: the refinement to `AcpLines`.

The argument: every output-producing step emits the piece of the stream between the
last cut and a new cut (`NextPiece`); one lemma (`EmitInv`) shows that emitting such a
piece keeps the tiling and the justification of all outputs; each action is an
instance of it.

`EnforcedSession_proofs` proves, for every channel and pipe capacity, every agent
and every host, from the assumptions above, positive capacities, host streams of host
bytes, and two assumptions on the JSON library, which TLC evaluates on every instance:
`MaskedBytesAssumption` (masking a prefix of a host stream yields host bytes) and
`SerializeAssumption` (a masked message is written as compact JSON, without newline or
carriage return, which serde_json escapes in strings, and reads back as itself):

- `SessionRunsAssembler`: every step of a session is a step of the assembler or
  leaves it alone, so `SessionIsVerbatim`, `SessionDecidesLines` and
  `SessionImplementsLines` carry the assembler's results over to the whole session: the
  assembler inside it is still the splitter of lines of `AcpLines`, as the two refinements
  compose.
- `SessionInvariant`: the inductive invariant `SessionInv`, and from it
  `SessionTypeCorrect`, `InputStaysInOrder`, `ShutdownIsComplete` and `FallbackIsLogged`;
- `ContentInvariant`: the inductive invariant `ContentInv` of what the commands hold, and
  from it `AnswersAreOfDenials`, `HostStreamIsFaithful` and `InitializeIsMasked`;
- `SuccessMeansComplete`, from both;
- `SessionImplementsContract`: the refinement to `SessionContract`.

Why `SessionInv` is needed: `SuccessIsComplete` speaks of the end and looks back. That
every output was dispatched when the sink ends follows only because the adapter holds
its sender until the output loop is over (`CoordinatorInv`) and the sink ends only when
no sender is left (`SinkInv`); that a success saw host stdin end follows because a
timeout leads to success only with a disabled stdin (`StdinInv`); that nothing is missing
from container stdin follows from the equation in `InputInOrder`, queued = delivered,
then in flight, then in the channel, at the moment the channel is empty; and that what is
there is all the answers and all of the translated stream follows from `ContentInv`, at
the moment every output was dispatched and host stdin ended. The equation is kept as
long as `InputBroken` is false, an abort during a shutdown that took effect included, when
`SinkInv` says that nothing was left to lose. `WarningInv`
ties the count of warnings to the fallback and, through `Verbatim`, to the residue in
the buffer. The proof has one step lemma per part (`CoordinatorStep`, `StdinStep`,
`FirstFrameStep`, `SinkStep`, `WarningStep`, `InputStep`, `TypeStep`), each with one case per
action it can disturb, over four lemmas that say what each task leaves to the others.

`ContentInv` speaks of the queue filtered by kind and flattened to bytes. What those operators
do when one command is appended (`FlattenAppend`, `OfKindAppend`, `HostForwardsAppend`) needs an
induction over a sequence; it is made once, for the recursive function inside `FlattenSeq`,
from the well-foundedness of the numbers, on sets instead of operators (`NaturalInduction`). With
that, `QueueMoves` sorts all steps into five (a host piece is queued, an answer is queued, an
answer is lost with the sink, another output is dispatched, neither moves), and each of the
five keeps answers and denials in step. `HostStreamFaithful` needs what the stdin task holds
at each of its positions (`StreamInv`), and that masking is over once it has left the first
frame (`PastFirstFrame`), also when it has stopped, by end of file or otherwise. That the
translation of what was read is a prefix of the translation of the whole stream, and what was
delivered a prefix of what was queued, makes the claim end to end (`TranslatedGrows`,
`HostForwardsPrefix`, `PrefixTransitive`); `InitializeMasked` needs that the first piece is the masked first line
from the moment that line is complete (`FirstForwardInv`), and `MaskedLine`, which reads the
masked text back.

The refinement follows the tasks: `JudgeStep` and `ActStep` for the output loop, `CloseStep` and
`ConcludeStep` for its end, `RelayStep` for stdin, `GiveStep` for the sink, each of which ends in an
action of the contract or in a step it does not see (`Unseen`). That an answer or a piece
still finds the mailbox open uses `SinkInv` (a sink that shuts or has ended has no senders);
`InputShuts` is the contract's `Shut`, and an abort during the shutdown is a break before it
and nothing after it; that a success has acted on everything and leaves the mailbox empty uses
`CoordinatorInv` and `SinkInv`; that what the stdin task sends is a piece of
host input uses `StreamInv`.

`StdinForwarding_proofs` and `ExecLifecycle_proofs` prove, for every set of host
streams, scripts, sizes and integer exit codes, every limit, buffer size and number of
resizes, from the assumptions above and `LifecycleAssumption` (scripts are sequences of
records, "no size" is not a size):

- `LifecycleInvariant`: the inductive invariant `LifecycleInv`, and from it
  `LifecycleTypeCorrect`, `InputIsFaithful`, `ProtocolInputIsComplete`, `ResizesReach`,
  `StdinIsReleased` and `StatusIsTruthful`.
- `ExecImplementsContract`: the refinement to `ExecContract`. Each action maps to one
  action of the contract or leaves what it speaks of alone; `WriteAttached` and
  `WriteProtocol` map to `Show`, `InspectExit` to `Finish`.

`InputFaithful` is not inductive: to extend the equation between container stdin and
the masked host stream by one more read, one must know that masking no longer looks at
the new bytes. `FirstFrameInv` says so: once the task has left the first frame, the first
line has ended, or the limit was reached without one, or the host has nothing more
(`FirstLineKnown`); lemma `TranslatedGrows` turns that into `Translated(longer) =
Translated(shorter) \o rest`, and `InputIsPrefix` the equation into a prefix of the whole. A
task that stopped early has written nothing, or its first line was known (`CopiedInv`).
`ResizesReachExec` needs that, while a resize is on its
way, the size it carries is current or a signal is pending. `ImplementsContract` needs `ExecInv`: an
attached or protocol session that reaches the poll has seen the end of the stream, when
nothing was left to show, and an exec that has closed its output says no more. The other
conjuncts carry facts from the session's end to the call's: an aborted task is
cancelled only after its session (`StdinInv`), so a task that stopped before it did so by
end of file or error.

`InstallationToken_proofs`, `CredentialUpload_proofs` and `Provisioning_proofs` prove, for every set
of clone calls, repositories and values, every host tree, lifetime, clock, buffer and
number of retries and of host changes, from the assumptions named in the modules (a tree's
entries are longer paths than its sources, a listing has each entry once and one name longer
than the directory, tags and branches are subsets of names, bounds are numbers):

- `ProvisioningInvariant`: the inductive invariant, one part for each operation, and from it
  `ProvisioningTypeCorrect`, `IdentityReportIsTrue`, `IdentityFailureLeavesPrefix`,
  `UploadIsAllOrNothing`, `UploadReportIsTrue` and `RefreshLeavesTheBuffer`;
- `ArchiveIsInOrder`, from an invariant of its own, `OrderInv`;
- `CloneReportIsTrue`, the action property.

`CloneInv` adds that from the end of its `git clone` a call finds its own clone, perhaps on
another branch: nobody empties the workspace, and no other call can fill it
(`VerifiesOwnClone`); and that a test which has passed, or would pass now, has a branch to show
that was checked out since (`SawInv`). `IdentityInv` adds what is read and set at each step
(`IdentityPhases`). `TokenInv` adds that the stamp is not later than the clock, that the client of a
call has no token older than its stamp, hence that what is issued is not older either.
`UploadInv` is the largest. The walk is a list, and the claim is about a finished
archive: so the invariant says of each entry of an archived directory that the host still has
that it is in the archive or among the work left (`Covered`), and of each selected source the
same (`SourcesArchived`); since nothing is created on the host, `HostResizes` and
`HostRemoves` can only make that easier. One lemma replaces the head of the list by new work,
and each step of the walk is an instance of it. `OrderInv` avoids induction over the tree: what lies
below two items of the list is disjoint, no item comes by name before an earlier one, and
whatever is still to do may follow everything archived; a directory's entries are
disjoint because they are different paths of one length, and stay apart from the rest of the
list because they lie below the directory they replace.

`Invocation_proofs` proves, for all layers, files, environments, key files, sockets and strings, from
`RunAssumption` (requests are pairs of strings), `ConfigAssumption` (what the layers and places
are functions of), and `EngineAssumption` with `SocketAssumption` (a socket that a variable or
a layer names is one that `SocketOf` gives a scheme, as the code classifies every string):

- `InvocationInvariant`, and from it `HighestLayerDecides` and `RunSuccessIsConsent`. The
  invariant ties each layer to its origin once it is read (`LayersInv`), what a run has
  learnt to its step (`RunInv`), and socket and container to the configuration (`EngineInv`);
  `DispatchInv` says that of run and engine only the command's own part moves, and not before
  the configuration is loaded.
- `TypeCorrect`, from `TypeInv`, which adds that what is read from the outside stays what
  it was (`InputsInv`) and that the configuration is one at every step (`IsConfig`): the defaults
  at the bottom have every key, the load lets through only values that serde accepts, and laying
  one layer above another keeps that a socket it names has a scheme (`OverIsLayer`).
- `AcceptedIsClonable`. The heart is about strings: one without blanks is its own trim
  (`TrimWithoutBlank`), one with a slash has a first slash (`FirstSlashIsOne`, by the
  well-foundedness of the numbers) and is what lies before it, the slash, and what lies
  after it (`SplitAtSlash`); parts without blanks have a whole without blanks.

Only model-checked: the policy against the design document's table (`RefusedExactly`), which is
about the messages of the instance, and all liveness (`ExitEndsSession`, `NoTaskLeft`,
`OutputResumes`, `QueueDrains`, `ExitEndsCall`, `EngineCallsEnd`), which is out of the prover's
reach.

## Not modelled

JSON, UTF-8 and tar encodings are libraries; log texts are wording (that a warning
is logged, and how often, is modelled). Chunks of length zero do nothing and are
left out. Panics of a task are not modelled. A daemon that never answers, or reports a
running exec for ever, keeps a call waiting in the code and in the model (fairness
excludes it from the liveness runs only). A partial write of an output record that then
fails counts as not shown.

Of the configuration, the keys of `creds` and `mcp` are left out: no rule relates them to
others, and they are merged like the rest. Paths, images and argument lists are represented by one
value of each kind that the validation tells apart. Error texts, the hints they carry and the
metrics of token requests are wording. On Windows only the scheme of a pipe is told
apart. Of a tar archive, modes, times and the encoding are left out; of a container, its name
and labels. A `git clone` is not followed on after its call failed because its exec could not be
watched. What GitHub's answer to `GET /app` holds is not looked at: an answer of a wrong form counts
as a refusal. The time limit of a create call ends with the response's headers, as Bollard's
does. Git's credentials (the askpass helper) do not change a state that podbot
sees. `CreateTimesOut` may leave a container that nobody knows of; the code promises
nothing about it, so no property speaks of it. Parsing the command line is clap's, and
`ps`, `stop` and `token-daemon` are placeholders in the code. These and `podbot run` are modelled as
built with the feature `experimental`; without it they only return an error.

## The plan

Done: the policy, the assembler, the enforced session, the plain and attached sessions and
the exec lifecycle with their contracts; provisioning; an invocation from its layers of
configuration to its end; the proofs above. What is left, in order of importance:

1. `podbot run` beyond its validators, and the token daemon, once the code has them: both
   would compose `Provisioning` with `Invocation` and `ExecLifecycle`.
2. What a cloned, configured and uploaded workspace owes to the run that follows it, once
   the code composes these calls itself: today the embedder does.
3. The `creds` and `mcp` keys of the configuration.
