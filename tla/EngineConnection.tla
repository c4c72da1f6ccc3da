--------------------------- MODULE EngineConnection ---------------------------
(***************************************************************************)
(* Connecting to the container engine, checking that it answers, and       *)
(* creating a container on it (engine/connection/mod.rs, health_check.rs,  *)
(* error_classification.rs, create_container/).                            *)
(*                                                                         *)
(* The engine may answer late or never.  A ping is given up after          *)
(* HEALTH_CHECK_TIMEOUT_SECS, any other request after the time limit the   *)
(* client is made with; an answer that is there when the timer fires is    *)
(* taken.  An engine that was given up may have created the container.     *)
(*                                                                         *)
(* A socket is a name here; SocketOf says which scheme it is written with. *)
(***************************************************************************)
EXTENDS Integers, Sequences, FiniteSetsExt

CONSTANTS
    SocketOf,               \* for each socket its scheme, none in a bare path
    FallbackEnvironments    \* values of DOCKER_HOST, CONTAINER_HOST and PODMAN_HOST

VARIABLES
    engineStep,     \* idle, connect, verify, create or done
    fallback,       \* the environment the resolver looks at
    endpoint,       \* the socket and scheme the client talks to
    container,      \* the container the engine has created
    engineReport    \* none, an error, connected or created

engineVars == <<engineStep, fallback, endpoint, container, engineReport>>

Unset == "none"
DefaultSocket == "docker.sock"
NoEndpoint == [socket |-> Unset, scheme |-> Unset]
NoFallback == [DOCKER_HOST |-> Unset, CONTAINER_HOST |-> Unset, PODMAN_HOST |-> Unset]
NoContainer == [image |-> Unset, privileged |-> FALSE, adds |-> {}]

FallbackVariables == <<"DOCKER_HOST", "CONTAINER_HOST", "PODMAN_HOST">>

IsSet(value) == value \notin {Unset, ""}

\* Every socket that somebody names has a scheme.
ASSUME EngineAssumption ==
    /\ DefaultSocket \in DOMAIN SocketOf
    /\ \A socket \in DOMAIN SocketOf :
          SocketOf[socket] \in {"unix", "npipe", "tcp", "http", "https", "bare", "bare pipe"}
    /\ \A e \in FallbackEnvironments : \A i \in DOMAIN FallbackVariables :
          IsSet(e[FallbackVariables[i]]) => e[FallbackVariables[i]] \in DOMAIN SocketOf

EngineInit ==
    /\ engineStep = "idle" /\ fallback = NoFallback
    /\ endpoint = NoEndpoint /\ container = NoContainer
    /\ engineReport = "none"

----------------------------------------------------------------------------
(* The socket.                                                             *)

\* resolve_from_env: the first of the three that is set and not empty.
SetFallbacks == {i \in DOMAIN FallbackVariables : IsSet(fallback[FallbackVariables[i]])}

\* The socket of the configuration; an empty one counts as none.
ResolveSocket(configured) ==
    IF IsSet(configured) THEN configured
    ELSE IF SetFallbacks # {} THEN fallback[FallbackVariables[Min(SetFallbacks)]]
    ELSE DefaultSocket

\* SocketType::classify, normalize_bare_path and the rewriting of tcp.
Endpoint(socket) ==
    LET scheme == SocketOf[socket] IN
    [socket |-> socket,
     scheme |-> IF scheme = "bare" THEN "unix"
                ELSE IF scheme = "bare pipe" THEN "npipe"
                ELSE IF scheme = "tcp" THEN "http" ELSE scheme]

\* classify_connection_error: only an endpoint with a path can name what is wrong with it.
ConnectionErrors == {"not found", "permission denied", "other"}
ClassifyConnectionError(error, e) ==
    IF error # "other" /\ e.scheme \in {"unix", "npipe"} THEN error ELSE "connection failed"

EngineFails(report) == engineStep' = "done" /\ engineReport' = report

StartConnect ==
    /\ engineStep = "idle" /\ engineStep' = "connect"
    /\ fallback' \in FallbackEnvironments
    /\ UNCHANGED <<endpoint, container, engineReport>>

\* EngineConnector::connect_with_fallback, verified or not.
Connect(configured, verified) ==
    /\ engineStep = "connect"
    /\ endpoint' = Endpoint(ResolveSocket(configured))
    /\ IF verified
       THEN engineStep' = "verify" /\ UNCHANGED engineReport
       ELSE engineStep' = "done" /\ engineReport' = "connected"
    /\ UNCHANGED <<fallback, container>>

ConnectFails(configured) ==
    /\ engineStep = "connect"
    /\ \E error \in ConnectionErrors :
          EngineFails(ClassifyConnectionError(error, Endpoint(ResolveSocket(configured))))
    /\ UNCHANGED <<fallback, endpoint, container>>

\* connect_and_verify is sync: it makes a runtime first.
RuntimeFails ==
    /\ engineStep = "connect"
    /\ EngineFails("runtime creation failed")
    /\ UNCHANGED <<fallback, endpoint, container>>

----------------------------------------------------------------------------
(* The health check.                                                       *)

PingAnswered ==
    /\ engineStep = "verify" /\ engineStep' = "create"
    /\ UNCHANGED <<fallback, endpoint, container, engineReport>>

PingFails ==
    /\ engineStep = "verify"
    /\ EngineFails("health check failed")
    /\ UNCHANGED <<fallback, endpoint, container>>

\* The ping is repeated until the engine answers.
PingRepeated == engineStep = "verify" /\ UNCHANGED engineVars

PingTimesOut ==
    /\ engineStep = "verify"
    /\ EngineFails("health check timeout")
    /\ UNCHANGED <<fallback, endpoint, container>>

----------------------------------------------------------------------------
(* Creating a container as the configuration c has it.                     *)

\* validate_image; of the names with white space around them, one stands for all.
TrimmedImage(image) == CASE image \in {Unset, " "} -> "" [] image = " sandbox " -> "sandbox"
                         [] OTHER -> image
ValidImage(image) == TrimmedImage(image) # ""

\* build_host_config: a privileged container gets nothing else.
BuildHostConfig(c) ==
    IF c["sandbox_privileged"] = "true" THEN {}
    ELSE (IF c["sandbox_mount_dev_fuse"] = "true" THEN {"SYS_ADMIN", "/dev/fuse"} ELSE {})
           \cup (IF c["sandbox_selinux_label_mode"] = "disable_for_container"
                 THEN {"label=disable"} ELSE {})

BuildCreateBody(c) ==
    [image |-> TrimmedImage(c["image"]), privileged |-> c["sandbox_privileged"] = "true",
     adds |-> BuildHostConfig(c)]

CreateContainer(c) ==
    /\ engineStep = "create" /\ ValidImage(c["image"])
    /\ container' = BuildCreateBody(c)
    /\ engineStep' = "done" /\ engineReport' = "created"
    /\ UNCHANGED <<fallback, endpoint>>

\* CreateContainerRequest::from_app_config
RequestFails(c) ==
    /\ engineStep = "create" /\ ~ValidImage(c["image"])
    /\ EngineFails("missing image")
    /\ UNCHANGED <<fallback, endpoint, container>>

CreateRefused(c) ==
    /\ engineStep = "create" /\ ValidImage(c["image"])
    /\ EngineFails("create failed")
    /\ UNCHANGED <<fallback, endpoint, container>>

\* The time limit of the client passes, before or after the engine created the container.
CreateTimesOut(c) ==
    /\ engineStep = "create" /\ ValidImage(c["image"])
    /\ container' \in {container, BuildCreateBody(c)}
    /\ EngineFails("create failed")
    /\ UNCHANGED <<fallback, endpoint>>

----------------------------------------------------------------------------

EngineErrors ==
    {"not found", "permission denied", "connection failed", "runtime creation failed",
     "health check failed", "health check timeout", "missing image", "create failed"}

Schemes == {"unix", "npipe", "http", "https"}

EngineTypeOK ==
    /\ engineStep \in {"idle", "connect", "verify", "create", "done"}
    /\ fallback \in FallbackEnvironments \cup {NoFallback}
    /\ endpoint \in [socket : DOMAIN SocketOf, scheme : Schemes] \cup {NoEndpoint}
    /\ container.adds \subseteq {"SYS_ADMIN", "/dev/fuse", "label=disable"}
    /\ container.privileged \in BOOLEAN
    /\ engineReport \in EngineErrors \cup {"none", "connected", "created"}

=============================================================================
