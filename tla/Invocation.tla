------------------------------ MODULE Invocation ------------------------------
(***************************************************************************)
(* One invocation of podbot from its beginning (main.rs): the              *)
(* configuration is loaded for what the command intends, and the command   *)
(* is dispatched.  run judges its request and its credentials; exec        *)
(* connects to the engine, and what follows is ExecLifecycle; host is      *)
(* disabled; ps, stop and token-daemon, here manage, are placeholders.     *)
(* create stands for an embedder that loads the configuration, connects to *)
(* the engine with a health check and creates the container of a sandbox.  *)
(***************************************************************************)
EXTENDS Configuration, AgentRun, EngineConnection

VARIABLES
    command,    \* the command
    outcome     \* none, error or success

vars == <<command, outcome, configVars, runVars, engineVars>>

\* A layer that names a socket names one that has a scheme.
NamesASocket(layer) ==
    "engine_socket" \in DOMAIN layer /\ IsSet(layer["engine_socket"]) =>
        layer["engine_socket"] \in DOMAIN SocketOf

ASSUME SocketAssumption ==
    /\ \A o \in LoadOptions : NamesASocket(o.overrides)
    /\ \A e \in Environments : NamesASocket(e.values)
    /\ \A f \in FileSystems : \A place \in Places : NamesASocket(f[place].layer)

Commands == {"run", "host", "manage", "exec", "create"}

\* config_load_options
CommandIntent(c) == IF c \in {"run", "host"} THEN c ELSE "any"

Init ==
    /\ command \in Commands /\ outcome = "none"
    /\ ConfigInit /\ RunInit /\ EngineInit
    /\ options.intent = CommandIntent(command)

Ends(result) == outcome' = result

----------------------------------------------------------------------------

Load ==
    /\ LoadStep
    /\ outcome' = IF loadStep' = "failed" THEN "error" ELSE outcome
    /\ UNCHANGED <<command, runVars, engineVars>>

Dispatching == loadStep = "loaded" /\ outcome = "none"

DispatchRun ==
    /\ Dispatching /\ command = "run"
    /\ StartRun /\ ForgetInputs
    /\ outcome' = IF runStep' = "done" THEN "error" ELSE outcome
    /\ UNCHANGED <<command, loadStep, config, engineVars>>

DispatchHost ==
    /\ Dispatching /\ command = "host"
    /\ Ends("error")
    /\ UNCHANGED <<command, configVars, runVars, engineVars>>

DispatchPlaceholder ==
    /\ Dispatching /\ command = "manage"
    /\ Ends("success")
    /\ UNCHANGED <<command, configVars, runVars, engineVars>>

DispatchToEngine ==
    /\ Dispatching /\ command \in {"exec", "create"}
    /\ StartConnect
    /\ UNCHANGED <<command, outcome, configVars, runVars>>

RunAgent ==
    /\ ValidateRunRequest \/ ValidateGitHubConfig(config) \/ ThreadStep
    /\ outcome' =
          IF runStep' = "done"
          THEN (IF runReport' = "success" THEN "success" ELSE "error") ELSE outcome
    /\ UNCHANGED <<command, configVars, engineVars>>

Verified == command = "create"
Socket == config["engine_socket"]

EngineEnds ==
    outcome' =
        IF engineStep' = "done"
        THEN (IF engineReport' \in {"connected", "created"} THEN "success" ELSE "error")
        ELSE outcome

ConnectToEngine ==
    /\ Connect(Socket, Verified) \/ ConnectFails(Socket) \/ RuntimeFails
    /\ EngineEnds
    /\ UNCHANGED <<command, configVars, runVars>>

EngineAnswers ==
    /\ \/ PingAnswered \/ PingFails
       \/ CreateContainer(config) \/ CreateRefused(config)
    /\ EngineEnds
    /\ UNCHANGED <<command, configVars, runVars>>

ImageMissing ==
    /\ RequestFails(config)
    /\ EngineEnds
    /\ UNCHANGED <<command, configVars, runVars>>

EngineTimesOut ==
    /\ PingTimesOut \/ CreateTimesOut(config)
    /\ EngineEnds
    /\ UNCHANGED <<command, configVars, runVars>>

Next ==
    \/ Load
    \/ DispatchRun \/ DispatchHost \/ DispatchPlaceholder \/ DispatchToEngine
    \/ RunAgent
    \/ ConnectToEngine \/ EngineAnswers \/ ImageMissing \/ EngineTimesOut

\* Local code goes on and timers fire; the engine and GitHub owe nothing.
Fairness ==
    WF_vars(ConnectToEngine) /\ WF_vars(ImageMissing) /\ WF_vars(EngineTimesOut)

Spec == Init /\ [][Next]_vars /\ Fairness

----------------------------------------------------------------------------

TypeOK ==
    /\ command \in Commands /\ outcome \in {"none", "success", "error"}
    /\ loadStep \in {"resolve", "read", "collect", "merge", "loaded", "failed"}
    /\ configPath \in Places \cup {None}
    /\ DOMAIN config = Keys /\ \A key \in Keys : Accepts(key, config[key])
    /\ RunTypeOK /\ EngineTypeOK
    /\ outcome = "success" =>
          loadStep = "loaded" /\ runReport \notin RunErrors /\ engineReport \notin EngineErrors

\* The value the highest layer gives a key: an override, a variable of the environment, the
\* file that was found, or the default.
Highest(key) ==
    IF key \in DOMAIN options.overrides THEN options.overrides[key]
    ELSE IF key \in DOMAIN environment.values THEN Parsed(key, environment.values[key])
    ELSE IF configPath # None /\ key \in DOMAIN files[configPath].layer
    THEN files[configPath].layer[key] ELSE Defaults[key]

IsDependentDefault(key) ==
    /\ key = "workspace_container_path" /\ Highest(key) = None
    /\ Highest("workspace_source") = "host_mount" /\ config[key] = DefaultContainerPath

\* A configuration that loads has for every key the value of the highest layer that sets
\* it, in a file that was found too, even one that went away before it was read; it is legal
\* for what the command intends and stays as it is when it is judged again.  And that value
\* is what reaches the engine: the socket that is dialled, the image of the container, and
\* no privilege that the highest layers do not ask for.
HighestLayerWins ==
    loadStep = "loaded" /\ runStep = "idle" =>
        /\ \A key \in Keys : config[key] = Highest(key) \/ IsDependentDefault(key)
        /\ Legal(config, options.intent) /\ ApplyDependentDefaults(config) = config
        /\ endpoint # NoEndpoint /\ IsSet(Highest("engine_socket")) =>
              endpoint.socket = Highest("engine_socket")
        /\ container # NoContainer =>
              /\ container.image = TrimmedImage(Highest("image"))
              /\ container.privileged <=> Highest("sandbox_privileged") = "true"
              /\ "SYS_ADMIN" \in container.adds <=>
                    /\ Highest("sandbox_mount_dev_fuse") = "true"
                    /\ ~container.privileged

GitHubKeys == {"github_app_id", "github_installation_id", "github_private_key_path"}

\* A run succeeds only without any GitHub setting, or with all of them, a key that can sign,
\* and GitHub's acceptance of it in this very call: a partial configuration, an exhausted
\* retry, a failed runtime and a panic of the thread are all errors.
RunSuccessIsAccepted ==
    command = "run" /\ outcome = "success" =>
        \/ \A key \in GitHubKeys : config[key] = None
        \/ /\ \A key \in GitHubKeys : config[key] # None
           /\ config["github_app_id"] # "0" /\ config["github_installation_id"] # "0"
           /\ IsRsaPem(keyFile) /\ acceptance

\* What a run accepts, the clone that follows accepts too, and understands the same way:
\* it clones the repository that was named, and checks out that branch
\* (is_owner_repository_name against RepositoryRef::parse and BranchName::parse).
AcceptedRunIsClonable ==
    runStep \in {"config", "runtime", "key", "client", "app"} \/ runReport = "success" =>
        /\ IsRepositoryRef(request.repository)
        /\ GitHubRemote(RepositoryRef(request.repository)) = request.repository
        /\ IsRequiredTrimmed(request.branch) /\ Trim(request.branch) = request.branch

\* A command that turns to the engine ends, though the engine may accept the connection
\* and never answer a ping or a request.
EngineCallsEnd == engineStep = "connect" ~> engineStep = "done"

\* A socket in the configuration file comes before PODBOT_ENGINE_SOCKET, as the user's
\* guide lists them.
FileSocketFirst ==
    /\ endpoint # NoEndpoint
    /\ "engine_socket" \in DOMAIN fileLayer \ DOMAIN options.overrides
    /\ IsSet(fileLayer["engine_socket"])
    =>  endpoint.socket = fileLayer["engine_socket"]

=============================================================================
