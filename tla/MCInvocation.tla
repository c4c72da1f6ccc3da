---------------------------- MODULE MCInvocation ------------------------------
(***************************************************************************)
(* Layers that meet in the keys where it matters which one wins: the       *)
(* socket, the image, the agent, the workspace, the sandbox and the GitHub *)
(* App.  Repositories are all strings of up to four characters.            *)
(***************************************************************************)
EXTENDS Invocation, TLC

Layer(is, layer) == [is |-> is, layer |-> layer]
File(layer) == Layer("readable", layer)
NoFiles == [place \in Places |-> Missing]

GitHub(app, installation, key) ==
    "github_app_id" :> app @@ "github_installation_id" :> installation
        @@ "github_private_key_path" :> key

FileLayers ==
    {NoLayer,
     "engine_socket" :> "file.sock" @@ "image" :> " sandbox ",
     "agent_kind" :> "custom" @@ "agent_command" :> "tool" @@ "agent_args" :> "[x]",
     "agent_kind" :> "custom" @@ "agent_command" :> " ",
     "agent_mode" :> "acp" @@ "agent_env_allowlist" :> "[blank]",
     "workspace_source" :> "host_mount" @@ "workspace_host_path" :> "/src"
         @@ "image" :> "sandbox",
     "workspace_source" :> "host_mount" @@ "workspace_container_path" :> "relative",
     "sandbox_privileged" :> "true" @@ "image" :> "sandbox",
     "sandbox_mount_dev_fuse" :> "bogus" @@ "engine_socket" :> "",
     GitHub("7", "7", "/key"), GitHub("7", "0", "/key"),
     "github_app_id" :> "7" @@ "github_private_key_path" :> "/key"}

FileSystemSet ==
    {NoFiles}
        \cup {[NoFiles EXCEPT !["discovered"] = File(layer)] : layer \in FileLayers}
        \cup {[NoFiles EXCEPT !["env"] = File("engine_socket" :> "file.sock"), !["hint"] = h] :
                 h \in {Missing, File("image" :> "hinted"), Layer("malformed", NoLayer)}}

EnvironmentSet ==
    {[configPath |-> TRUE, values |-> NoLayer]} \cup
        {[configPath |-> FALSE, values |-> values] :
            values \in
                {NoLayer,
                 "engine_socket" :> "env.sock" @@ "image" :> "sandbox",
                 "sandbox_mount_dev_fuse" :> "false" @@ "image" :> "sandbox",
                 "sandbox_privileged" :> "yes",
                 "agent_args" :> " , " @@ "agent_mode" :> "acp",
                 "workspace_container_path" :> "/elsewhere" @@ "agent_env_allowlist" :> " x",
                 "github_installation_id" :> "7"}}

OverrideSet ==
    {NoLayer, "engine_socket" :> "cli.sock",
     "agent_kind" :> "codex" @@ "agent_mode" :> "podbot", "agent_mode" :> "acp"}

LoadOptionSet ==
    [hint : {FALSE}, discover : {TRUE}, overrides : OverrideSet, intent : {"any", "run", "host"}]
        \cup [hint : {TRUE}, discover : BOOLEAN, overrides : {NoLayer}, intent : {"any", "run"}]

StringsUpTo(n) == UNION {[1..k -> Characters] : k \in 0..n}
RunRequestSet ==
    [repository : StringsUpTo(4), branch : {<<>>, <<"a">>, <<"a", " ">>, <<" ">>, <<"a", "/", "a">>}]

KeyFileSet ==
    {[is |-> "missing", header |-> "none", encrypted |-> FALSE, rsa |-> FALSE],
     [is |-> "readable", header |-> "rsa key", encrypted |-> TRUE, rsa |-> FALSE],
     [is |-> "readable", header |-> "ec key", encrypted |-> FALSE, rsa |-> FALSE],
     [is |-> "readable", header |-> "private key", encrypted |-> FALSE, rsa |-> TRUE]}

SocketSchemes ==
    "docker.sock" :> "unix" @@ "cli.sock" :> "bare" @@ "env.sock" :> "tcp"
        @@ "file.sock" :> "npipe" @@ "podman" :> "https"

FallbackSet ==
    [DOCKER_HOST : {"none", ""}, CONTAINER_HOST : {"none"}, PODMAN_HOST : {"none", "podman"}]

=============================================================================
