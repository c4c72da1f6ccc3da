------------------------------- MODULE AgentRun -------------------------------
(***************************************************************************)
(* podbot run (api/mod.rs, github/mod.rs, pem_validation.rs): the request  *)
(* is judged, then the GitHub part of the configuration, then GitHub is    *)
(* asked whether it takes the App's credentials.  The question is asked on *)
(* a thread of its own with a runtime of its own, may be asked again when  *)
(* GitHub is out of order, and may never be answered.                      *)
(***************************************************************************)
EXTENDS RequestValues

CONSTANTS
    RunRequests,   \* repository and branch, as given by the caller
    KeyFiles,      \* what private_key_path may lead to
    MaxRetries     \* max_retries of the client's RetryConfig

ASSUME RunAssumption ==
    /\ RunRequests \subseteq [repository : Strings, branch : Strings]
    /\ MaxRetries \in Nat

VARIABLES
    runStep,       \* idle, request, config, runtime, key, client, app or done
    request,       \* the request
    keyFile,       \* the key file, once it is read
    appRetries,    \* how often GET /app was sent again
    acceptance,    \* whether GitHub accepted the credentials in this call
    runReport      \* none, an error or success

runVars == <<runStep, request, keyFile, appRetries, acceptance, runReport>>

NoString == <<>>
NoRequest == [repository |-> NoString, branch |-> NoString]

\* A file as load_private_key sees it: its first header, an encryption header, and what
\* jsonwebtoken makes of the rest.
NoKeyFile == [is |-> "unread", header |-> "none", encrypted |-> FALSE, rsa |-> FALSE]

RunInit ==
    /\ runStep = "idle" /\ request = NoRequest
    /\ keyFile = NoKeyFile /\ appRetries = 0 /\ acceptance = FALSE
    /\ runReport = "none"

RunEnds(report) == runStep' = "done" /\ runReport' = report
RunGoesOn(step) == runStep' = step /\ UNCHANGED runReport

----------------------------------------------------------------------------

\* RunRequest::new
StartRun ==
    /\ runStep = "idle"
    /\ request' \in RunRequests
    /\ IF IsRunRequest(request'.repository, request'.branch)
       THEN RunGoesOn("request")
       ELSE RunEnds("invalid value")
    /\ UNCHANGED <<keyFile, appRetries, acceptance>>

ValidateRunRequest ==
    /\ runStep = "request"
    /\ IF IsAgentRequest(request.repository, request.branch)
       THEN RunGoesOn("config")
       ELSE RunEnds("invalid value")
    /\ UNCHANGED <<request, keyFile, appRetries, acceptance>>

(* GitHubConfig: c is the configuration.                                   *)

HasId(id) == id \notin {"none", "0"}
HasKeyPath(c) == c["github_private_key_path"] # "none"

\* is_configured, and validate.
IsConfigured(c) ==
    HasId(c["github_app_id"]) /\ HasId(c["github_installation_id"]) /\ HasKeyPath(c)

\* The check is made only for a configuration with an App ID.
IsPartiallyConfiguredByApp(c) == c["github_app_id"] # "none"

IsPartiallyConfigured(c) ==
    \/ c["github_app_id"] # "none" \/ c["github_installation_id"] # "none"
    \/ HasKeyPath(c)

ValidateGitHubConfig(c) ==
    /\ runStep = "config"
    /\ IF IsPartiallyConfigured(c) /\ ~IsConfigured(c) THEN RunEnds("missing required")
       ELSE IF c["github_app_id"] # "none" /\ HasKeyPath(c) THEN RunGoesOn("runtime")
       ELSE RunEnds("success")
    /\ UNCHANGED <<request, keyFile, appRetries, acceptance>>

----------------------------------------------------------------------------
(* The thread.                                                             *)

OnThread == runStep \in {"runtime", "key", "client", "app"}

CreateRuntime ==
    /\ runStep = "runtime"
    /\ RunGoesOn("key") \/ RunEnds("runtime creation failed")
    /\ UNCHANGED <<request, keyFile, appRetries, acceptance>>

\* parse_rsa_pem and validate_rsa_pem
RejectedHeaders == {"public key", "rsa public key", "certificate", "ec key", "openssh key"}
IsRsaPem(file) == ~file.encrypted /\ file.header \notin RejectedHeaders /\ file.rsa

LoadPrivateKey ==
    /\ runStep = "key"
    /\ keyFile' \in KeyFiles
    /\ IF keyFile'.is = "readable" /\ IsRsaPem(keyFile')
       THEN RunGoesOn("client")
       ELSE RunEnds("private key load failed")
    /\ UNCHANGED <<request, appRetries, acceptance>>

BuildAppClient ==
    /\ runStep = "client"
    /\ RunGoesOn("app") \/ RunEnds("authentication failed")
    /\ UNCHANGED <<request, keyFile, appRetries, acceptance>>

\* GET /app, answered with success.
AppAccepted ==
    /\ runStep = "app"
    /\ acceptance' = TRUE
    /\ RunEnds("success")
    /\ UNCHANGED <<request, keyFile, appRetries>>

\* One retry too many.
AppRetriedOnceMore ==
    /\ runStep = "app" /\ appRetries <= MaxRetries
    /\ appRetries' = appRetries + 1
    /\ UNCHANGED <<runStep, request, keyFile, acceptance, runReport>>

\* A rate limit or a server error.
AppRetried ==
    /\ runStep = "app" /\ appRetries < MaxRetries
    /\ appRetries' = appRetries + 1
    /\ UNCHANGED <<runStep, request, keyFile, acceptance, runReport>>

\* Any other answer, one more server error, or none: classify_github_api_error.
AppRefused ==
    /\ runStep = "app"
    /\ RunEnds("authentication failed")
    /\ UNCHANGED <<request, keyFile, appRetries, acceptance>>

\* The join of a thread that panicked.
ThreadPanics ==
    /\ OnThread
    /\ RunEnds("authentication failed")
    /\ UNCHANGED <<request, keyFile, appRetries, acceptance>>

ThreadStep ==
    \/ CreateRuntime \/ LoadPrivateKey \/ BuildAppClient
    \/ AppAccepted \/ AppRetried \/ AppRefused \/ ThreadPanics

----------------------------------------------------------------------------

RunErrors ==
    {"invalid value", "missing required", "runtime creation failed",
     "private key load failed", "authentication failed"}

RunTypeOK ==
    /\ runStep \in {"idle", "request", "config", "done"} \/ OnThread
    /\ request \in RunRequests \cup {NoRequest}
    /\ keyFile \in KeyFiles \cup {NoKeyFile}
    /\ appRetries \in 0..MaxRetries /\ acceptance \in BOOLEAN
    /\ runReport \in RunErrors \cup {"none", "success"}

=============================================================================
