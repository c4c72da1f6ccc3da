---------------------------- MODULE Configuration -----------------------------
(***************************************************************************)
(* Loading the configuration (config/loader.rs, env_vars.rs, types.rs,     *)
(* validation.rs).                                                         *)
(*                                                                         *)
(* Four layers are merged key by key: the defaults, one file, the          *)
(* environment and what the host of the library overrides.  The result is  *)
(* normalized and judged against what the command intends.  Which file it  *)
(* is, is found out by looking which ones exist; the file is read          *)
(* afterwards, and may be gone by then.                                    *)
(*                                                                         *)
(* A layer is a function from some of the keys to values.  All values are  *)
(* strings here; a path is one of the few kinds that are told apart, and a *)
(* number is zero or not.                                                  *)
(***************************************************************************)
EXTENDS Integers, Sequences, FiniteSetsExt

CONSTANTS
    LoadOptions,     \* what a host asks for: hint, discover, overrides, intent
    Environments,    \* its environment: configPath, and raw values of variables
    FileSystems      \* what the three places for a file hold

VARIABLES
    loadStep,      \* resolve, read, collect, merge or loaded; or failed
    options,       \* ConfigLoadOptions
    environment,   \* the environment
    files,         \* what each place holds: missing, malformed or readable, and its layer
    configPath,    \* the place the file is read from
    fileLayer,     \* the layers that were read
    envLayer,
    config         \* the AppConfig

configVars ==
    <<loadStep, options, environment, files, configPath, fileLayer, envLayer, config>>

None == "none"
NoLayer == <<>>

----------------------------------------------------------------------------
(* The keys and their values.                                              *)

Booleans == {"true", "false"}
Numbers == {"0", "7"}

\* What serde accepts for a key, None where it is an Option.
Accepted ==
    [agent_kind |-> {"claude", "codex", "custom"},
     agent_mode |-> {"podbot", "codex_app_server", "acp"},
     agent_args |-> {"[]", "[x]"},
     agent_env_allowlist |-> {"[]", "[x]", "[blank]"},
     workspace_source |-> {"github_clone", "host_mount"},
     workspace_base_dir |-> {"/work", "/elsewhere", "relative"},
     sandbox_privileged |-> Booleans,
     sandbox_mount_dev_fuse |-> Booleans,
     sandbox_selinux_label_mode |-> {"keep_default", "disable_for_container"},
     github_app_id |-> Numbers \cup {None},
     github_installation_id |-> Numbers \cup {None}]

Keys ==
    DOMAIN Accepted \cup
        {"engine_socket", "image", "github_private_key_path", "agent_command",
         "workspace_host_path", "workspace_container_path"}

Accepts(key, value) == key \in DOMAIN Accepted => value \in Accepted[key]

\* A later layer replaces the values of an earlier one.
Over(later, earlier) ==
    [key \in DOMAIN later \cup DOMAIN earlier |->
        IF key \in DOMAIN later THEN later[key] ELSE earlier[key]]

\* AppConfig::default()
Defaults ==
    Over([agent_kind |-> "claude", agent_mode |-> "podbot",
          agent_args |-> "[]", agent_env_allowlist |-> "[]",
          workspace_source |-> "github_clone", workspace_base_dir |-> "/work",
          sandbox_privileged |-> "false", sandbox_mount_dev_fuse |-> "true",
          sandbox_selinux_label_mode |-> "disable_for_container"],
         [key \in Keys |-> None])

----------------------------------------------------------------------------
(* The file.                                                               *)

Places == {"hint", "env", "discovered"}
Missing == [is |-> "missing", layer |-> NoLayer]
Exists(place) == files[place].is # "missing"

\* A hint, even of a file that is missing, keeps PODBOT_CONFIG_PATH out.
Candidates ==
    (IF options.hint THEN <<"hint">>
     ELSE IF environment.configPath THEN <<"env">> ELSE <<>>)
        \o (IF options.discover THEN <<"discovered">> ELSE <<>>)

OverrideKeys == {"engine_socket", "image", "agent_kind", "agent_mode"}

ASSUME ConfigAssumption ==
    /\ \A o \in LoadOptions :
          /\ DOMAIN o = {"hint", "discover", "overrides", "intent"}
          /\ o.hint \in BOOLEAN /\ o.discover \in BOOLEAN /\ o.intent \in {"any", "run", "host"}
          /\ DOMAIN o.overrides \subseteq OverrideKeys
          /\ \A key \in DOMAIN o.overrides : Accepts(key, o.overrides[key])
    /\ \A e \in Environments : e.configPath \in BOOLEAN /\ DOMAIN e.values \subseteq Keys
    /\ \A f \in FileSystems : DOMAIN f = Places /\ \A place \in Places :
          /\ DOMAIN f[place] = {"is", "layer"}
          /\ f[place].is \in {"missing", "malformed", "readable"}
          /\ DOMAIN f[place].layer \subseteq Keys

ConfigInit ==
    /\ loadStep = "resolve"
    /\ options \in LoadOptions
    /\ environment \in Environments
    /\ files \in FileSystems
    /\ configPath = None /\ fileLayer = NoLayer /\ envLayer = NoLayer
    /\ config = Defaults

inputVars == <<options, environment>>

ResolveConfigPath ==
    /\ loadStep = "resolve" /\ loadStep' = "read"
    /\ LET existing == {i \in DOMAIN Candidates : Exists(Candidates[i])} IN
          configPath' = IF existing = {} THEN None ELSE Candidates[Min(existing)]
    /\ UNCHANGED <<inputVars, files, fileLayer, envLayer, config>>

\* Somebody removes a file, or writes one that cannot be parsed.
FileDisappears ==
    /\ loadStep = "read" /\ configPath # None
    /\ files[configPath].is = "readable"
    /\ \E is \in {"missing", "malformed"} : files' = [files EXCEPT ![configPath].is = is]
    /\ UNCHANGED <<loadStep, inputVars, configPath, fileLayer, envLayer, config>>

\* A file that cannot be read counts for nothing.
LoadConfigFileLeniently ==
    /\ loadStep = "read"
    /\ fileLayer' =
          IF configPath # None /\ files[configPath].is = "readable"
          THEN files[configPath].layer ELSE NoLayer
    /\ loadStep' = "collect"
    /\ UNCHANGED <<inputVars, files, configPath, envLayer, config>>

\* The file is read where one was found; any failure to do so fails the load.
LoadConfigFile ==
    /\ loadStep = "read"
    /\ IF configPath = None
       THEN fileLayer' = NoLayer /\ loadStep' = "collect"
       ELSE IF files[configPath].is = "readable"
       THEN fileLayer' = files[configPath].layer /\ loadStep' = "collect"
       ELSE UNCHANGED fileLayer /\ loadStep' = "failed"
    /\ UNCHANGED <<inputVars, files, configPath, envLayer, config>>

----------------------------------------------------------------------------
(* The environment.                                                        *)

BoolVariables == {"sandbox_privileged", "sandbox_mount_dev_fuse"}
NumberVariables == {"github_app_id", "github_installation_id"}
ListVariables == {"agent_args", "agent_env_allowlist"}

\* Whether the raw value of a variable is one of its type.
Parses(key, raw) ==
    /\ key \in BoolVariables => raw \in Booleans
    /\ key \in NumberVariables => raw \in Numbers

\* Lists are split at commas, and lose their blank entries.
Parsed(key, raw) ==
    IF key \in ListVariables THEN (IF raw = " , " THEN "[]" ELSE "[x]") ELSE raw

CollectEnvVars ==
    /\ loadStep = "collect"
    /\ LET raw == environment.values IN
          IF \A key \in DOMAIN raw : Parses(key, raw[key])
          THEN /\ envLayer' = [key \in DOMAIN raw |-> Parsed(key, raw[key])]
               /\ loadStep' = "merge"
          ELSE UNCHANGED envLayer /\ loadStep' = "failed"
    /\ UNCHANGED <<inputVars, files, configPath, fileLayer, config>>

----------------------------------------------------------------------------
(* Normalization and legality.                                             *)

DefaultContainerPath == "/workspace"

ApplyDependentDefaults(c) ==
    IF c["workspace_source"] = "host_mount" /\ c["workspace_container_path"] = None
    THEN [c EXCEPT !["workspace_container_path"] = DefaultContainerPath]
    ELSE c

LegalCustomAgent(c) == c["agent_command"] \notin {None, " "}
LegalBuiltinAgent(c) == c["agent_command"] = None /\ c["agent_args"] = "[]"

LegalAgent(c) ==
    /\ c["agent_env_allowlist"] # "[blank]"
    /\ IF c["agent_kind"] = "custom" THEN LegalCustomAgent(c) ELSE LegalBuiltinAgent(c)

Relative == "relative"

LegalGithubClone(c) == c["workspace_host_path"] = None /\ c["workspace_container_path"] = None
LegalHostMount(c) ==
    c["workspace_host_path"] \notin {None, Relative} /\ c["workspace_container_path"] # Relative

LegalWorkspace(c) ==
    /\ c["workspace_base_dir"] # Relative
    /\ IF c["workspace_source"] = "github_clone" THEN LegalGithubClone(c) ELSE LegalHostMount(c)

IsIntentLegal(intent, mode) ==
    CASE intent = "any" -> TRUE
      [] intent = "run" -> mode = "podbot"
      [] intent = "host" -> mode \in {"codex_app_server", "acp"}

Legal(c, intent) ==
    LegalAgent(c) /\ LegalWorkspace(c) /\ IsIntentLegal(intent, c["agent_mode"])

----------------------------------------------------------------------------
(* The merge.                                                              *)

\* merge_from_layers
Merged == Over(options.overrides, Over(envLayer, Over(fileLayer, Defaults)))

MergeAndValidate ==
    /\ loadStep = "merge"
    /\ LET normalized == ApplyDependentDefaults(Merged) IN
          IF /\ \A key \in Keys : Accepts(key, Merged[key])
             /\ Legal(normalized, options.intent)
          THEN config' = normalized /\ loadStep' = "loaded"
          ELSE UNCHANGED config /\ loadStep' = "failed"
    /\ UNCHANGED <<inputVars, files, configPath, fileLayer, envLayer>>

LoadStep ==
    \/ ResolveConfigPath \/ FileDisappears \/ LoadConfigFile
    \/ CollectEnvVars \/ MergeAndValidate

\* load_config has returned: of all it read, only the configuration is used again.
ForgetInputs ==
    /\ configPath' = None /\ fileLayer' = NoLayer /\ envLayer' = NoLayer
    /\ files' = [place \in Places |-> Missing]
    /\ options' = [options EXCEPT !.hint = FALSE, !.discover = FALSE, !.overrides = NoLayer]
    /\ environment' = [configPath |-> FALSE, values |-> NoLayer]

=============================================================================
