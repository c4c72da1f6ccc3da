-------------------------- MODULE Invocation_proofs ---------------------------
(***************************************************************************)
(* Proofs about an invocation, for all layers, files, environments and     *)
(* strings: what a run accepts a clone takes as it is meant, a run does    *)
(* not succeed without GitHub's consent to all that is configured, and the *)
(* highest layer decides about each key up to the engine's container.      *)
(***************************************************************************)
EXTENDS Invocation, SequenceTheorems, WellFoundedInduction, TLAPS

----------------------------------------------------------------------------
(* Strings.                                                                *)

\* A set of numbers has a least one.
LEMMA LeastNumber ==
  ASSUME NEW S \in SUBSET Nat, S # {}
  PROVE  \E x \in S : \A y \in S : ~(y < x)
  <1>1. IsWellFoundedOn(OpToRel(<, Nat), Nat)
    BY NatLessThanWellFounded, Zenon
  <1>2. PICK x \in S : \A y \in S : ~(<<y, x>> \in OpToRel(<, Nat))
    BY <1>1, WFMin, Zenon
  <1> QED  BY <1>2 DEF OpToRel

\* There is nothing to trim where there is no blank.
LEMMA TrimWithoutBlank ==
  ASSUME NEW s \in Strings, ~Contains(s, Blank)
  PROVE  Trim(s) = s
  <1>1. CASE s = <<>>
    BY <1>1 DEF Trim, IsBlank
  <1>2. CASE s # <<>>
    <2>1. Len(s) \in Nat /\ Len(s) >= 1 /\ DOMAIN s = 1..Len(s)
      BY <1>2 DEF Strings
    <2>2. \A i \in 1..Len(s) : s[i] # Blank
      BY <2>1 DEF Contains
    <2>3. ~IsBlank(s)
      BY <2>1, <2>2 DEF IsBlank
    <2>4. Leading(s) = 1
      <3>1. 1 \in DOMAIN s /\ s[1] # Blank /\ \A j \in 1..1 - 1 : s[j] = Blank
        BY <2>1, <2>2
      <3>2. ASSUME NEW i \in DOMAIN s, \A j \in 1..i - 1 : s[j] = Blank
            PROVE  i = 1
        BY <2>1, <2>2, <3>2
      <3> QED  BY <3>1, <3>2 DEF Leading
    <2>5. Trailing(s) = Len(s)
      <3>1. /\ Len(s) \in DOMAIN s /\ s[Len(s)] # Blank
            /\ \A j \in Len(s) + 1..Len(s) : s[j] = Blank
        BY <2>1, <2>2
      <3>2. ASSUME NEW i \in DOMAIN s, \A j \in i + 1..Len(s) : s[j] = Blank
            PROVE  i = Len(s)
        BY <2>1, <2>2, <3>2
      <3> QED  BY <3>1, <3>2 DEF Trailing
    <2>6. SubSeq(s, 1, Len(s)) = s
      BY DEF Strings
    <2> QED
      BY <2>3, <2>4, <2>5, <2>6 DEF Trim
  <1> QED  BY <1>1, <1>2

LEMMA FirstSlashIsOne ==
  ASSUME NEW s \in Strings, Contains(s, Slash)
  PROVE  /\ FirstSlash(s) \in 1..Len(s) /\ s[FirstSlash(s)] = Slash
         /\ \A j \in 1..FirstSlash(s) - 1 : s[j] # Slash
  <1> DEFINE Slashes == {i \in DOMAIN s : s[i] = Slash}
  <1>1. DOMAIN s = 1..Len(s) /\ Len(s) \in Nat
    BY DEF Strings
  <1>2. Slashes \in SUBSET Nat /\ Slashes # {}
    BY <1>1 DEF Contains
  <1>3. PICK x \in Slashes : \A y \in Slashes : ~(y < x)
    <2> HIDE DEF Slashes
    <2> QED  BY <1>2, LeastNumber
  <1>4. x \in DOMAIN s /\ s[x] = Slash /\ \A j \in 1..x - 1 : s[j] # Slash
    BY <1>1, <1>3
  <1>5. /\ FirstSlash(s) \in DOMAIN s /\ s[FirstSlash(s)] = Slash
        /\ \A j \in 1..FirstSlash(s) - 1 : s[j] # Slash
    BY <1>4 DEF FirstSlash
  <1> QED  BY <1>1, <1>5

\* What the concatenation of two strings consists of, and that of two around a slash.
IsConcat(a, b, t) ==
    /\ t \in Strings /\ Len(t) = Len(a) + Len(b)
    /\ \A i \in 1..Len(a) : t[i] = a[i]
    /\ \A i \in 1..Len(b) : t[Len(a) + i] = b[i]

IsJoin(a, b, t) ==
    /\ t \in Strings /\ Len(t) = Len(a) + 1 + Len(b)
    /\ \A i \in 1..Len(a) : t[i] = a[i]
    /\ t[Len(a) + 1] = Slash
    /\ \A i \in 1..Len(b) : t[Len(a) + 1 + i] = b[i]

LEMMA Concatenation == \A a, b \in Strings : IsConcat(a, b, a \o b)
  BY ConcatProperties DEF Strings, IsConcat

LEMMA Join ==
  ASSUME NEW a \in Strings, NEW b \in Strings
  PROVE  IsJoin(a, b, a \o <<Slash>> \o b)
  <1>1. PICK slash : slash = <<Slash>>
    OBVIOUS
  <1>2. slash \in Strings /\ Len(slash) = 1 /\ slash[1] = Slash
    BY <1>1 DEF Strings, Characters
  <1>3. PICK u : u = a \o slash
    OBVIOUS
  <1>4. PICK t : t = u \o b
    OBVIOUS
  <1>5. Len(a) \in Nat /\ Len(b) \in Nat
    BY DEF Strings
  <1>6. IsConcat(a, slash, u)
    BY <1>2, <1>3, Concatenation
  <1>7. IsConcat(u, b, t)
    BY <1>4, <1>6, Concatenation DEF IsConcat
  <1>8. IsJoin(a, b, t)
    BY <1>2, <1>5, <1>6, <1>7 DEF IsConcat, IsJoin
  <1> QED  BY <1>1, <1>3, <1>4, <1>8

\* A string is what is before its first slash, the slash, and what is after it.
LEMMA SplitAtSlash ==
  ASSUME NEW s \in Strings, Contains(s, Slash)
  PROVE  /\ BeforeSlash(s) \in Strings /\ AfterSlash(s) \in Strings
         /\ BeforeSlash(s) \o <<Slash>> \o AfterSlash(s) = s
  <1> DEFINE k == FirstSlash(s)
  <1>1. k \in 1..Len(s) /\ s[k] = Slash
    BY FirstSlashIsOne
  <1>2. s \in Seq(Characters) /\ Len(s) \in Nat
    BY DEF Strings
  <1> HIDE DEF k
  <1> DEFINE a == SubSeq(s, 1, k - 1)
             b == SubSeq(s, k + 1, Len(s))
             t == a \o <<Slash>> \o b
  <1>3. /\ a \in Strings /\ Len(a) = k - 1
        /\ \A i \in 1..k - 1 : a[i] = s[i]
    BY <1>1, <1>2 DEF Strings
  <1>4. /\ b \in Strings /\ Len(b) = Len(s) - k
        /\ \A i \in 1..Len(s) - k : b[i] = s[k + i]
    BY <1>1, <1>2 DEF Strings
  <1> HIDE DEF a, b
  <1>5. IsJoin(a, b, t)
    BY <1>3, <1>4, Join
  <1> HIDE DEF t
  <1>6. Len(t) = Len(s)
    BY <1>1, <1>2, <1>3, <1>4, <1>5 DEF IsJoin
  <1>7. ASSUME NEW i \in 1..Len(s) PROVE t[i] = s[i]
    <2>1. CASE i \in 1..k - 1
      BY <1>3, <1>5, <2>1 DEF IsJoin
    <2>2. CASE i = k
      BY <1>1, <1>2, <1>3, <1>5, <2>2 DEF IsJoin
    <2>3. CASE i \in k + 1..Len(s)
      <3>1. i - k \in 1..Len(s) - k /\ k + (i - k) = i
        BY <1>1, <1>2, <2>3
      <3>2. t[k + (i - k)] = b[i - k] /\ b[i - k] = s[k + (i - k)]
        BY <1>1, <1>2, <1>3, <1>4, <1>5, <3>1 DEF IsJoin
      <3> QED  BY <3>1, <3>2
    <2> QED  BY <1>1, <1>2, <2>1, <2>2, <2>3
  <1>8. t = s
    BY <1>2, <1>5, <1>6, <1>7, SeqEqual DEF Strings, IsJoin
  <1> QED
    BY <1>3, <1>4, <1>8 DEF a, b, t, k, BeforeSlash, AfterSlash

\* What validate_run_request_for_agent lets through, RepositoryRef::parse and
\* BranchName::parse take as it is.
LEMMA AgentRequestIsClonable ==
  ASSUME NEW repository \in Strings, NEW branch \in Strings,
         IsRunRequest(repository, branch), IsAgentRequest(repository, branch)
  PROVE  /\ IsRepositoryRef(repository)
         /\ GitHubRemote(RepositoryRef(repository)) = repository
         /\ IsRequiredTrimmed(branch) /\ Trim(branch) = branch
  <1> DEFINE owner == BeforeSlash(repository)
             name == AfterSlash(repository)
  <1>1. /\ Contains(repository, Slash) /\ ~Contains(name, Slash)
        /\ owner # <<>> /\ ~Contains(owner, Blank) /\ name # <<>> /\ ~Contains(name, Blank)
    BY DEF IsAgentRequest, IsOwnerRepositoryName, IsRepositorySegment
  <1>2. /\ owner \in Strings /\ name \in Strings
        /\ owner \o <<Slash>> \o name = repository
    BY <1>1, SplitAtSlash
  <1>3. Trim(owner) = owner /\ Trim(name) = name
    BY <1>1, <1>2, TrimWithoutBlank
  <1>4. ~Contains(repository, Blank)
    <2> HIDE DEF owner, name
    <2>1. \A i \in DOMAIN owner : owner[i] # Blank
      BY <1>1 DEF Contains
    <2>2. \A i \in DOMAIN name : name[i] # Blank
      BY <1>1 DEF Contains
    <2>3. Len(owner) \in Nat /\ Len(name) \in Nat
          /\ DOMAIN owner = 1..Len(owner) /\ DOMAIN name = 1..Len(name)
      BY <1>2 DEF Strings
    <2>4. /\ DOMAIN repository = 1..Len(owner) + 1 + Len(name)
          /\ \A i \in 1..Len(owner) : repository[i] = owner[i]
          /\ repository[Len(owner) + 1] = Slash
          /\ \A i \in 1..Len(name) : repository[Len(owner) + 1 + i] = name[i]
      <3>1. IsJoin(owner, name, repository)
        BY <1>2, Join
      <3>2. DOMAIN repository = 1..Len(repository)
        BY DEF Strings
      <3> QED  BY <3>1, <3>2 DEF IsJoin
    <2>5. ASSUME NEW i \in DOMAIN repository PROVE repository[i] # Blank
      <3>1. CASE i \in 1..Len(owner)
        BY <2>1, <2>3, <2>4, <3>1
      <3>2. CASE i = Len(owner) + 1
        BY <2>4, <3>2 DEF Slash, Blank
      <3>3. CASE i \in Len(owner) + 2..Len(owner) + 1 + Len(name)
        <4>1. i - (Len(owner) + 1) \in 1..Len(name) /\ Len(owner) + 1 + (i - (Len(owner) + 1)) = i
          BY <2>3, <3>3
        <4> QED  BY <2>2, <2>3, <2>4, <4>1
      <3> QED  BY <2>3, <2>4, <3>1, <3>2, <3>3
    <2> QED  BY <2>5 DEF Contains
  <1>5. Trim(repository) = repository
    BY <1>4, TrimWithoutBlank
  <1>6. Trim(branch) = branch
    BY TrimWithoutBlank DEF IsAgentRequest
  <1>7. branch # <<>>
    BY DEF IsRunRequest, IsBlank
  <1>8. IsRepositoryRef(repository)
    BY <1>1, <1>3, <1>5 DEF IsRepositoryRef, HasInvalidSegments
  <1> QED
    BY <1>2, <1>5, <1>6, <1>7, <1>8 DEF GitHubRemote, RepositoryRef, IsRequiredTrimmed

----------------------------------------------------------------------------
(* A run.                                                                  *)

Judged == {"config", "runtime", "key", "client", "app"}

\* What is known of the request, the configuration c and the key when a run has come to
\* a step or to success.
RunInv(c) ==
    /\ runStep \in {"idle", "request", "done"} \cup Judged
    /\ runStep # "done" => runReport = "none"
    /\ runStep \notin {"idle", "done"} \/ runReport = "success" =>
          request \in RunRequests /\ IsRunRequest(request.repository, request.branch)
    /\ runStep \in Judged \/ runReport = "success" =>
          IsAgentRequest(request.repository, request.branch)
    /\ runStep \in Judged \ {"config"} => IsConfigured(c)
    /\ runStep \in {"client", "app"} => IsRsaPem(keyFile)
    /\ runReport = "success" =>
          \/ ~IsPartiallyConfigured(c)
          \/ IsConfigured(c) /\ IsRsaPem(keyFile) /\ acceptance

LEMMA RunInitInv == ASSUME NEW c, RunInit PROVE RunInv(c)
  BY DEF RunInit, RunInv, Judged

LEMMA RunStepInv ==
  ASSUME NEW c, RunInv(c), StartRun \/ ValidateRunRequest \/ ValidateGitHubConfig(c) \/ ThreadStep
  PROVE  RunInv(c)'
  <1> USE DEF RunInv, Judged, RunEnds, RunGoesOn
  <1>1. CASE StartRun
    BY <1>1 DEF StartRun
  <1>2. CASE ValidateRunRequest
    BY <1>2 DEF ValidateRunRequest
  <1>3. CASE ValidateGitHubConfig(c)
    BY <1>3 DEF ValidateGitHubConfig, IsPartiallyConfigured, IsConfigured, HasId, HasKeyPath
  <1>4. CASE CreateRuntime
    BY <1>4 DEF CreateRuntime
  <1>5. CASE LoadPrivateKey
    BY <1>5 DEF LoadPrivateKey
  <1>6. CASE BuildAppClient
    BY <1>6 DEF BuildAppClient
  <1>7. CASE AppAccepted
    BY <1>7 DEF AppAccepted
  <1>8. CASE AppRetried
    BY <1>8 DEF AppRetried
  <1>9. CASE AppRefused
    BY <1>9 DEF AppRefused
  <1>10. CASE ThreadPanics
    BY <1>10 DEF ThreadPanics, OnThread
  <1> QED
    BY <1>1, <1>2, <1>3, <1>4, <1>5, <1>6, <1>7, <1>8, <1>9, <1>10 DEF ThreadStep

----------------------------------------------------------------------------
(* The layers.                                                             *)

Normalized == ApplyDependentDefaults(Merged)

\* What the layers hold after each step of the load, until they are forgotten.
LayersInv ==
    /\ loadStep \in {"resolve", "read", "collect", "merge", "loaded", "failed"}
    /\ loadStep \in {"collect", "merge", "loaded"} =>
          fileLayer = IF configPath = None THEN NoLayer ELSE files[configPath].layer
    /\ loadStep \in {"merge", "loaded"} =>
          envLayer = [key \in DOMAIN environment.values |->
                        Parsed(key, environment.values[key])]
    /\ loadStep = "loaded" => config = Normalized /\ Legal(config, options.intent)

LEMMA LayersInitInv == ConfigInit => LayersInv
  BY DEF ConfigInit, LayersInv

LEMMA LoadStepInv == LayersInv /\ LoadStep => LayersInv'
  <1> SUFFICES ASSUME LayersInv, LoadStep PROVE LayersInv'
    OBVIOUS
  <1>1. CASE ResolveConfigPath
    BY <1>1 DEF LayersInv, ResolveConfigPath
  <1>2. CASE FileDisappears
    BY <1>2 DEF LayersInv, FileDisappears
  <1>3. CASE LoadConfigFile
    BY <1>3 DEF LayersInv, LoadConfigFile
  <1>4. CASE CollectEnvVars
    BY <1>4 DEF LayersInv, CollectEnvVars, inputVars
  <1>5. CASE MergeAndValidate
    <2>1. /\ loadStep = "merge" /\ loadStep' \in {"loaded", "failed"}
          /\ UNCHANGED <<options, environment, files, configPath, fileLayer, envLayer>>
          /\ loadStep' = "loaded" =>
                config' = Normalized /\ Legal(Normalized, options.intent)
      BY <1>5 DEF MergeAndValidate, inputVars, Normalized
    <2>2. Normalized' = Normalized
      BY <2>1 DEF Normalized, Merged
    <2> QED
      BY <2>1, <2>2 DEF LayersInv
  <1> QED
    BY <1>1, <1>2, <1>3, <1>4, <1>5 DEF LoadStep

\* A configuration as the code has it: a value for each key, of the kind the key takes.
IsConfig(c) ==
    DOMAIN c = Keys /\ (\A key \in Keys : Accepts(key, c[key])) /\ NamesASocket(c)

LEMMA DefaultsAreAConfig == IsConfig(Defaults)
  <1> DEFINE given == [agent_kind |-> "claude", agent_mode |-> "podbot",
                       agent_args |-> "[]", agent_env_allowlist |-> "[]",
                       workspace_source |-> "github_clone", workspace_base_dir |-> "/work",
                       sandbox_privileged |-> "false", sandbox_mount_dev_fuse |-> "true",
                       sandbox_selinux_label_mode |-> "disable_for_container"]
  <1>1. /\ DOMAIN given \subseteq DOMAIN Accepted
        /\ \A key \in DOMAIN given : given[key] \in Accepted[key]
        /\ "engine_socket" \notin DOMAIN given
    BY DEF Accepted, Booleans
  <1>2. /\ DOMAIN Accepted \subseteq Keys
        /\ \A key \in DOMAIN Accepted \ DOMAIN given : None \in Accepted[key]
    BY DEF Accepted, Keys, Numbers
  <1>3. Defaults = Over(given, [key \in Keys |-> None])
    BY DEF Defaults
  <1> HIDE DEF given
  <1>4. /\ DOMAIN Defaults = Keys
        /\ \A key \in Keys : Defaults[key] = IF key \in DOMAIN given THEN given[key] ELSE None
    BY <1>1, <1>2, <1>3 DEF Over
  <1>5. \A key \in Keys : Accepts(key, Defaults[key])
    BY <1>1, <1>2, <1>4 DEF Accepts
  <1>6. NamesASocket(Defaults)
    BY <1>1, <1>4 DEF NamesASocket, IsSet, Unset, None
  <1> QED  BY <1>4, <1>5, <1>6 DEF IsConfig

\* The merge takes for each key the value of the highest layer.
LEMMA MergedIsHighest ==
  ASSUME LayersInv, loadStep = "loaded", NEW key \in Keys
  PROVE  key \in DOMAIN Merged /\ Merged[key] = Highest(key)
  <1>1. DOMAIN Defaults = Keys
    BY DefaultsAreAConfig DEF IsConfig
  <1>2. DOMAIN NoLayer = {}
    BY DEF NoLayer
  <1>3. /\ fileLayer = IF configPath = None THEN NoLayer ELSE files[configPath].layer
        /\ envLayer = [k \in DOMAIN environment.values |->
                        Parsed(k, environment.values[k])]
    BY DEF LayersInv
  <1>4. /\ key \in DOMAIN Over(fileLayer, Defaults)
        /\ Over(fileLayer, Defaults)[key] =
              IF key \in DOMAIN fileLayer THEN fileLayer[key] ELSE Defaults[key]
    BY <1>1 DEF Over
  <1>5. /\ key \in DOMAIN Over(envLayer, Over(fileLayer, Defaults))
        /\ Over(envLayer, Over(fileLayer, Defaults))[key] =
              IF key \in DOMAIN envLayer THEN envLayer[key]
              ELSE Over(fileLayer, Defaults)[key]
    BY <1>4 DEF Over
  <1>6. /\ key \in DOMAIN Merged
        /\ Merged[key] =
              IF key \in DOMAIN options.overrides THEN options.overrides[key]
              ELSE Over(envLayer, Over(fileLayer, Defaults))[key]
    BY <1>5 DEF Merged, Over
  <1>7. key \in DOMAIN fileLayer <=>
            configPath # None /\ key \in DOMAIN files[configPath].layer
    BY <1>2, <1>3
  <1>8. /\ DOMAIN envLayer = DOMAIN environment.values
        /\ key \in DOMAIN environment.values =>
              envLayer[key] = Parsed(key, environment.values[key])
    BY <1>3
  <1>9. configPath # None => fileLayer = files[configPath].layer
    BY <1>3
  <1> QED
    BY <1>4, <1>5, <1>6, <1>7, <1>8, <1>9 DEF Highest

\* Normalization touches one key only, and touches it once.
LEMMA NormalizedValues ==
  ASSUME NEW c, "workspace_container_path" \in DOMAIN c
  PROVE  LET n == ApplyDependentDefaults(c) IN
         /\ ApplyDependentDefaults(n) = n
         /\ \A key : key # "workspace_container_path" => n[key] = c[key]
         /\ \/ n = c
            \/ /\ c["workspace_source"] = "host_mount"
               /\ c["workspace_container_path"] = None
               /\ n["workspace_container_path"] = DefaultContainerPath
  BY DEF ApplyDependentDefaults, DefaultContainerPath, None

----------------------------------------------------------------------------
(* The engine, and the invocation as a whole.                              *)

\* What is dialled and what is created follow the configuration c.
EngineInv(c) ==
    /\ engineStep = "idle" => endpoint = NoEndpoint /\ container = NoContainer
    /\ endpoint # NoEndpoint /\ IsSet(c["engine_socket"]) =>
          endpoint.socket = c["engine_socket"]
    /\ container # NoContainer => container = BuildCreateBody(c)

EngineAction(c) ==
    \/ StartConnect
    \/ Connect(c["engine_socket"], Verified) \/ ConnectFails(c["engine_socket"])
    \/ RuntimeFails \/ PingAnswered \/ PingFails \/ PingTimesOut
    \/ CreateContainer(c) \/ CreateRefused(c) \/ RequestFails(c) \/ CreateTimesOut(c)

LEMMA EngineStepInv ==
  ASSUME NEW c, EngineInv(c), EngineAction(c)
  PROVE  EngineInv(c)' /\ engineStep' # "idle"
  <1> USE DEF EngineInv, EngineFails
  <1>1. CASE StartConnect
    BY <1>1 DEF StartConnect
  <1>2. CASE Connect(c["engine_socket"], Verified)
    <2>1. endpoint' = Endpoint(ResolveSocket(c["engine_socket"]))
      BY <1>2 DEF Connect
    <2>2. IsSet(c["engine_socket"]) => endpoint'.socket = c["engine_socket"]
      BY <2>1 DEF Endpoint, ResolveSocket
    <2>3. UNCHANGED container /\ engineStep' # "idle"
      BY <1>2 DEF Connect
    <2> QED  BY <2>2, <2>3
  <1>3. CASE ConnectFails(c["engine_socket"])
    BY <1>3 DEF ConnectFails
  <1>4. CASE RuntimeFails \/ PingAnswered \/ PingFails \/ PingTimesOut
    BY <1>4 DEF RuntimeFails, PingAnswered, PingFails, PingTimesOut
  <1>5. CASE CreateContainer(c)
    BY <1>5 DEF CreateContainer
  <1>6. CASE CreateRefused(c) \/ RequestFails(c)
    BY <1>6 DEF CreateRefused, RequestFails
  <1>7. CASE CreateTimesOut(c)
    BY <1>7 DEF CreateTimesOut
  <1> QED
    BY <1>1, <1>2, <1>3, <1>4, <1>5, <1>6, <1>7 DEF EngineAction

\* Which part of an invocation may have moved, and what its outcome rests on.
DispatchInv ==
    /\ outcome \in {"none", "success", "error"}
    /\ loadStep \notin {"loaded", "failed"} => outcome = "none"
    /\ loadStep = "failed" => outcome = "error"
    /\ runStep # "idle" => loadStep = "loaded" /\ command = "run"
    /\ engineStep # "idle" => loadStep = "loaded" /\ command \in {"exec", "create"}
    /\ command = "run" /\ outcome = "success" => runReport = "success"

\* The layers are forgotten when a run begins.
InvocationInv ==
    /\ DispatchInv
    /\ RunInv(config)
    /\ runStep = "idle" => LayersInv
    /\ EngineInv(config)

LEMMA InvocationInitInv == Init => InvocationInv
  <1> SUFFICES ASSUME Init PROVE InvocationInv
    OBVIOUS
  <1>1. DispatchInv
    BY DEF Init, ConfigInit, RunInit, EngineInit, DispatchInv
  <1>2. RunInv(config) /\ LayersInv
    BY RunInitInv, LayersInitInv DEF Init
  <1>3. EngineInv(config)
    BY DEF Init, EngineInit, EngineInv
  <1> QED  BY <1>1, <1>2, <1>3 DEF InvocationInv

\* Nothing that is not a step of a part disturbs it.
LEMMA RunUnchanged ==
  ASSUME RunInv(config), UNCHANGED <<runVars, config>> PROVE RunInv(config)'
  BY DEF runVars, RunInv, Judged

LEMMA EngineUnchanged ==
  ASSUME EngineInv(config), UNCHANGED <<engineVars, config>> PROVE EngineInv(config)'
  BY DEF engineVars, EngineInv

LEMMA LayersUnchanged ==
  ASSUME LayersInv, UNCHANGED configVars PROVE LayersInv'
  BY DEF configVars, LayersInv, Normalized, Merged

LEMMA LoadInv == InvocationInv /\ Load => InvocationInv'
  <1> SUFFICES ASSUME InvocationInv, Load PROVE InvocationInv'
    OBVIOUS
  <1>1. /\ LoadStep /\ UNCHANGED <<command, runVars, engineVars>>
        /\ outcome' = IF loadStep' = "failed" THEN "error" ELSE outcome
    BY DEF Load
  <1>2. loadStep \in {"resolve", "read", "collect", "merge"}
    BY <1>1 DEF LoadStep, ResolveConfigPath, FileDisappears, LoadConfigFile, CollectEnvVars,
                MergeAndValidate
  <1>3. /\ runStep = "idle" /\ engineStep = "idle" /\ outcome = "none"
        /\ runStep' = "idle" /\ engineStep' = "idle"
    BY <1>1, <1>2 DEF InvocationInv, DispatchInv, runVars, engineVars
  <1>4. DispatchInv'
    BY <1>1, <1>3 DEF InvocationInv, DispatchInv
  <1>5. RunInv(config)'
    BY <1>1, <1>3 DEF InvocationInv, RunInv, Judged, runVars
  <1>6. LayersInv'
    BY <1>1, <1>3, LoadStepInv DEF InvocationInv
  <1>7. EngineInv(config)'
    BY <1>1, <1>3 DEF InvocationInv, EngineInv, engineVars
  <1> QED  BY <1>4, <1>5, <1>6, <1>7 DEF InvocationInv

LEMMA RunInvocationInv == InvocationInv /\ (DispatchRun \/ RunAgent) => InvocationInv'
  <1> SUFFICES ASSUME InvocationInv, DispatchRun \/ RunAgent PROVE InvocationInv'
    OBVIOUS
  <1>1. /\ StartRun \/ ValidateRunRequest \/ ValidateGitHubConfig(config) \/ ThreadStep
        /\ UNCHANGED <<command, loadStep, config, engineVars>>
        /\ outcome' \in {"none", "success", "error"}
        /\ outcome' = "success" => outcome = "success" \/ runReport' = "success"
        /\ loadStep = "loaded" /\ command = "run"
    <2>1. CASE DispatchRun
      BY <2>1 DEF DispatchRun, Dispatching, InvocationInv, DispatchInv
    <2>2. CASE RunAgent
      <3>1. runStep # "idle"
        BY <2>2 DEF RunAgent, ValidateRunRequest, ValidateGitHubConfig, ThreadStep,
                    CreateRuntime, LoadPrivateKey, BuildAppClient, AppAccepted, AppRetried,
                    AppRefused, ThreadPanics, OnThread
      <3> QED
        BY <2>2, <3>1 DEF RunAgent, configVars, InvocationInv, DispatchInv
    <2> QED  BY <2>1, <2>2
  <1>2. RunInv(config)' /\ runStep' # "idle"
    <2>1. RunInv(config)'
      BY <1>1, RunStepInv DEF InvocationInv, RunInv
    <2>2. runStep' # "idle"
      BY <1>1 DEF StartRun, ValidateRunRequest, ValidateGitHubConfig, ThreadStep,
                  CreateRuntime, LoadPrivateKey, BuildAppClient, AppAccepted, AppRetried,
                  AppRefused, ThreadPanics, OnThread, RunEnds, RunGoesOn
    <2> QED  BY <2>1, <2>2
  <1>3. outcome' = "success" => runReport' = "success"
    <2>1. runStep # "done"
      BY <1>1 DEF StartRun, ValidateRunRequest, ValidateGitHubConfig, ThreadStep,
                  CreateRuntime, LoadPrivateKey, BuildAppClient, AppAccepted, AppRetried,
                  AppRefused, ThreadPanics, OnThread
    <2> QED
      BY <1>1, <2>1 DEF InvocationInv, DispatchInv, RunInv
  <1>4. DispatchInv'
    BY <1>1, <1>2, <1>3 DEF InvocationInv, DispatchInv, engineVars
  <1>5. EngineInv(config)'
    BY <1>1, EngineUnchanged DEF InvocationInv
  <1> QED
    BY <1>2, <1>4, <1>5 DEF InvocationInv

LEMMA DispatchHostInv ==
  InvocationInv /\ (DispatchHost \/ DispatchPlaceholder) => InvocationInv'
  <1> SUFFICES ASSUME InvocationInv, DispatchHost \/ DispatchPlaceholder PROVE InvocationInv'
    OBVIOUS
  <1>1. /\ UNCHANGED <<command, configVars, runVars, engineVars>>
        /\ command # "run" /\ loadStep = "loaded" /\ outcome' \in {"success", "error"}
    BY DEF DispatchHost, DispatchPlaceholder, Dispatching, Ends
  <1>2. UNCHANGED <<loadStep, config, runStep, engineStep>>
    BY <1>1 DEF configVars, runVars, engineVars
  <1>3. DispatchInv'
    BY <1>1, <1>2 DEF InvocationInv, DispatchInv
  <1> QED
    BY <1>1, <1>2, <1>3, RunUnchanged, EngineUnchanged, LayersUnchanged DEF InvocationInv

EngineMoves ==
    DispatchToEngine \/ ConnectToEngine \/ EngineAnswers \/ ImageMissing \/ EngineTimesOut

LEMMA EngineInvocationInv == InvocationInv /\ EngineMoves => InvocationInv'
  <1> SUFFICES ASSUME InvocationInv, EngineMoves PROVE InvocationInv'
    OBVIOUS
  <1>1. /\ EngineAction(config) /\ UNCHANGED <<command, configVars, runVars>>
        /\ outcome' \in {"none", "success", "error"}
        /\ loadStep = "loaded" /\ command \in {"exec", "create"}
    <2>1. CASE DispatchToEngine
      BY <2>1 DEF DispatchToEngine, Dispatching, EngineAction, InvocationInv, DispatchInv
    <2>2. CASE ConnectToEngine \/ EngineAnswers \/ ImageMissing \/ EngineTimesOut
      <3>1. EngineAction(config) /\ UNCHANGED <<command, configVars, runVars>> /\ EngineEnds
        BY <2>2 DEF ConnectToEngine, EngineAnswers, ImageMissing, EngineTimesOut,
                    EngineAction, Socket
      <3>2. engineStep # "idle"
        BY <2>2 DEF ConnectToEngine, EngineAnswers, ImageMissing, EngineTimesOut, Connect,
                    ConnectFails, RuntimeFails, PingAnswered, PingFails, PingTimesOut,
                    CreateContainer, CreateRefused, RequestFails, CreateTimesOut
      <3> QED
        BY <3>1, <3>2 DEF EngineEnds, InvocationInv, DispatchInv
    <2> QED  BY <2>1, <2>2 DEF EngineMoves
  <1>2. UNCHANGED <<loadStep, config, runStep>>
    BY <1>1 DEF configVars, runVars
  <1>3. DispatchInv'
    BY <1>1, <1>2 DEF InvocationInv, DispatchInv
  <1>4. EngineInv(config)'
    BY <1>1, <1>2, EngineStepInv DEF InvocationInv, EngineInv
  <1> QED
    BY <1>1, <1>2, <1>3, <1>4, RunUnchanged, LayersUnchanged DEF InvocationInv

LEMMA InvocationStepInv == InvocationInv /\ [Next]_vars => InvocationInv'
  <1> SUFFICES ASSUME InvocationInv, [Next]_vars PROVE InvocationInv'
    OBVIOUS
  <1>1. CASE UNCHANGED vars
    <2>1. /\ UNCHANGED <<command, outcome, configVars, runVars, engineVars>>
          /\ UNCHANGED <<loadStep, config, runStep, engineStep, runReport>>
      BY <1>1 DEF vars, configVars, runVars, engineVars
    <2>2. DispatchInv'
      BY <2>1 DEF InvocationInv, DispatchInv
    <2> QED
      BY <2>1, <2>2, RunUnchanged, EngineUnchanged, LayersUnchanged DEF InvocationInv
  <1> QED
    BY <1>1, LoadInv, RunInvocationInv, DispatchHostInv, EngineInvocationInv
    DEF Next, EngineMoves

\* The inductive invariant of an invocation (main.rs:60-135): what the layers, the run, the
\* engine and the outcome owe to each other at each step.
THEOREM InvocationInvariant == Spec => []InvocationInv
  BY InvocationInitInv, InvocationStepInv, PTL DEF Spec

\* The highest layer decides about each key, to the socket that is dialled and the
\* container that is created (config/loader.rs:55-161, engine/connection/mod.rs:268-374).
THEOREM HighestLayerDecides == Spec => []HighestLayerWins
  <1>1. InvocationInv => HighestLayerWins
    <2> SUFFICES ASSUME InvocationInv, loadStep = "loaded", runStep = "idle"
                 PROVE  /\ \A key \in Keys : config[key] = Highest(key) \/ IsDependentDefault(key)
                        /\ Legal(config, options.intent)
                        /\ ApplyDependentDefaults(config) = config
                        /\ endpoint # NoEndpoint /\ IsSet(Highest("engine_socket")) =>
                              endpoint.socket = Highest("engine_socket")
                        /\ container # NoContainer =>
                              /\ container.image = TrimmedImage(Highest("image"))
                              /\ container.privileged <=> Highest("sandbox_privileged") = "true"
                              /\ "SYS_ADMIN" \in container.adds <=>
                                    /\ Highest("sandbox_mount_dev_fuse") = "true"
                                    /\ ~container.privileged
      BY DEF HighestLayerWins
    <2>1. LayersInv /\ EngineInv(config)
      BY DEF InvocationInv
    <2>2. config = ApplyDependentDefaults(Merged) /\ Legal(config, options.intent)
      BY <2>1 DEF LayersInv, Normalized
    <2>3. \A key \in Keys : key \in DOMAIN Merged /\ Merged[key] = Highest(key)
      BY <2>1, MergedIsHighest
    <2>4. {"workspace_container_path", "workspace_source", "engine_socket", "image",
           "sandbox_privileged", "sandbox_mount_dev_fuse"} \subseteq Keys
      BY DEF Keys, Accepted
    <2>5. /\ ApplyDependentDefaults(config) = config
          /\ \A key : key # "workspace_container_path" => config[key] = Merged[key]
          /\ \/ config = Merged
             \/ /\ Merged["workspace_source"] = "host_mount"
                /\ Merged["workspace_container_path"] = None
                /\ config["workspace_container_path"] = DefaultContainerPath
      <3>1. "workspace_container_path" \in DOMAIN Merged
        BY <2>3, <2>4
      <3> QED  BY <2>2, <3>1, NormalizedValues
    <2>6. \A key \in Keys : config[key] = Highest(key) \/ IsDependentDefault(key)
      BY <2>3, <2>4, <2>5 DEF IsDependentDefault
    <2>7. /\ config["engine_socket"] = Highest("engine_socket")
          /\ config["image"] = Highest("image")
          /\ config["sandbox_privileged"] = Highest("sandbox_privileged")
          /\ config["sandbox_mount_dev_fuse"] = Highest("sandbox_mount_dev_fuse")
      BY <2>3, <2>4, <2>5
    <2>8. endpoint # NoEndpoint /\ IsSet(Highest("engine_socket")) =>
              endpoint.socket = Highest("engine_socket")
      BY <2>1, <2>7 DEF EngineInv
    <2>9. ASSUME container # NoContainer
          PROVE  /\ container.image = TrimmedImage(Highest("image"))
                 /\ container.privileged <=> Highest("sandbox_privileged") = "true"
                 /\ "SYS_ADMIN" \in container.adds <=>
                       /\ Highest("sandbox_mount_dev_fuse") = "true"
                       /\ ~container.privileged
      <3>1. container = BuildCreateBody(config)
        BY <2>1, <2>9 DEF EngineInv
      <3> QED
        BY <2>7, <3>1 DEF BuildCreateBody, BuildHostConfig
    <2> QED  BY <2>2, <2>5, <2>6, <2>8, <2>9
  <1> QED  BY <1>1, InvocationInvariant, PTL

\* A run succeeds only with all of the GitHub settings, a key that can sign, and GitHub's
\* consent, or with none of them (api/mod.rs:143-168, github/mod.rs:174-272).
THEOREM RunSuccessIsConsent == Spec => []RunSuccessIsAccepted
  <1>1. InvocationInv => RunSuccessIsAccepted
    BY DEF InvocationInv, DispatchInv, RunInv, RunSuccessIsAccepted, GitHubKeys, None,
           IsPartiallyConfigured, IsConfigured, HasId, HasKeyPath
  <1> QED  BY <1>1, InvocationInvariant, PTL

\* Whatever string names the repository: the run that accepts it and the clone that
\* follows mean the same (api/mod.rs:90-140, api/repository_clone.rs:33-122).
THEOREM AcceptedIsClonable == Spec => []AcceptedRunIsClonable
  <1>1. InvocationInv => AcceptedRunIsClonable
    <2> SUFFICES ASSUME InvocationInv, runStep \in Judged \/ runReport = "success"
                 PROVE  /\ IsRepositoryRef(request.repository)
                        /\ GitHubRemote(RepositoryRef(request.repository)) = request.repository
                        /\ IsRequiredTrimmed(request.branch)
                        /\ Trim(request.branch) = request.branch
      BY DEF AcceptedRunIsClonable, Judged
    <2>1. /\ request \in RunRequests
          /\ IsRunRequest(request.repository, request.branch)
          /\ IsAgentRequest(request.repository, request.branch)
      BY DEF InvocationInv, RunInv, Judged
    <2>2. request.repository \in Strings /\ request.branch \in Strings
      BY <2>1, RunAssumption
    <2> QED  BY <2>1, <2>2, AgentRequestIsClonable
  <1> QED  BY <1>1, InvocationInvariant, PTL

----------------------------------------------------------------------------
(* The types.                                                              *)

IsLayer(layer) == DOMAIN layer \subseteq Keys /\ NamesASocket(layer)

\* What the inputs and the layers hold, read or not.
InputsInv ==
    /\ configPath \in Places \cup {None}
    /\ DOMAIN options = {"hint", "discover", "overrides", "intent"}
    /\ IsLayer(options.overrides) /\ IsLayer(environment.values)
    /\ DOMAIN files = Places
    /\ \A place \in Places :
          DOMAIN files[place] = {"is", "layer"} /\ IsLayer(files[place].layer)
    /\ IsLayer(fileLayer) /\ IsLayer(envLayer)

LEMMA NoLayerIsLayer == IsLayer(NoLayer)
  BY DEF IsLayer, NoLayer, NamesASocket

LEMMA OverIsLayer ==
  ASSUME NEW later, NEW earlier, IsLayer(later), IsLayer(earlier)
  PROVE  /\ IsLayer(Over(later, earlier))
         /\ DOMAIN Over(later, earlier) = DOMAIN later \cup DOMAIN earlier
  BY DEF IsLayer, Over, NamesASocket

\* The path is one of the places that were looked at.
LEMMA ResolvedPath ==
  ASSUME ResolveConfigPath PROVE configPath' \in Places \cup {None}
  <1> DEFINE existing == {i \in DOMAIN Candidates : Exists(Candidates[i])}
  <1>1. configPath' = IF existing = {} THEN None ELSE Candidates[Min(existing)]
    BY DEF ResolveConfigPath
  <1>2. Candidates \in Seq(Places)
    <2>1. \A first, second \in Seq(Places) : first \o second \in Seq(Places)
      BY ConcatProperties
    <2> DEFINE first == IF options.hint THEN <<"hint">>
                        ELSE IF environment.configPath THEN <<"env">> ELSE <<>>
               second == IF options.discover THEN <<"discovered">> ELSE <<>>
    <2>2. first \in Seq(Places) /\ second \in Seq(Places)
      <3>1. <<>> \in Seq(Places) /\ \A place \in Places : <<place>> \in Seq(Places)
        OBVIOUS
      <3>2. first \in {<<"hint">>, <<"env">>, <<>>} /\ second \in {<<"discovered">>, <<>>}
        BY Zenon
      <3>3. {"hint", "env", "discovered"} \subseteq Places
        BY DEF Places
      <3> HIDE DEF first, second
      <3> QED  BY <3>1, <3>2, <3>3
    <2>3. Candidates = first \o second
      BY DEF Candidates
    <2> HIDE DEF first, second
    <2> QED  BY <2>1, <2>2, <2>3
  <1>3. existing \in SUBSET Nat
    BY <1>2
  <1>4. ASSUME existing # {} PROVE Min(existing) \in existing
    <2> HIDE DEF existing
    <2>1. \E x \in existing : \A y \in existing : ~(y < x)
      BY <1>3, <1>4, LeastNumber
    <2>2. \E x \in existing : \A y \in existing : x =< y
      BY <1>3, <2>1
    <2> QED  BY <2>2 DEF Min
  <1>5. existing # {} => Candidates[Min(existing)] \in Places
    BY <1>2, <1>4
  <1> QED  BY <1>1, <1>5

LEMMA InputsInitInv == ConfigInit => InputsInv
  <1> SUFFICES ASSUME ConfigInit PROVE InputsInv
    OBVIOUS
  <1>1. /\ options \in LoadOptions /\ environment \in Environments /\ files \in FileSystems
        /\ configPath = None /\ fileLayer = NoLayer /\ envLayer = NoLayer
    BY DEF ConfigInit
  <1>2. OverrideKeys \subseteq Keys
    BY DEF OverrideKeys, Keys, Accepted
  <1>3. IsLayer(options.overrides) /\ DOMAIN options = {"hint", "discover", "overrides", "intent"}
    BY <1>1, <1>2, ConfigAssumption, SocketAssumption DEF IsLayer
  <1>4. IsLayer(environment.values)
    BY <1>1, ConfigAssumption, SocketAssumption DEF IsLayer
  <1>5. /\ DOMAIN files = Places
        /\ \A place \in Places :
              DOMAIN files[place] = {"is", "layer"} /\ IsLayer(files[place].layer)
    BY <1>1, ConfigAssumption, SocketAssumption DEF IsLayer
  <1> QED  BY <1>1, <1>3, <1>4, <1>5, NoLayerIsLayer DEF InputsInv

LEMMA InputsStepInv == InputsInv /\ LoadStep => InputsInv'
  <1> SUFFICES ASSUME InputsInv, LoadStep PROVE InputsInv'
    OBVIOUS
  <1> USE DEF inputVars
  <1>1. CASE ResolveConfigPath
    BY <1>1, ResolvedPath DEF InputsInv, ResolveConfigPath, IsLayer, NamesASocket
  <1>2. CASE FileDisappears
    <2>1. PICK is \in {"missing", "malformed"} : files' = [files EXCEPT ![configPath].is = is]
      BY <1>2 DEF FileDisappears
    <2>2. UNCHANGED <<options, environment, configPath, fileLayer, envLayer>>
      BY <1>2 DEF FileDisappears
    <2>3. /\ DOMAIN files' = Places
          /\ \A place \in Places :
                DOMAIN files'[place] = {"is", "layer"} /\ files'[place].layer = files[place].layer
      BY <2>1 DEF InputsInv
    <2> QED  BY <2>2, <2>3 DEF InputsInv, IsLayer, NamesASocket
  <1>3. CASE LoadConfigFile
    <2>1. UNCHANGED <<options, environment, files, configPath, envLayer>>
      BY <1>3 DEF LoadConfigFile
    <2>2. \/ fileLayer' = NoLayer \/ UNCHANGED fileLayer
          \/ configPath # None /\ fileLayer' = files[configPath].layer
      BY <1>3 DEF LoadConfigFile
    <2>3. IsLayer(fileLayer')
      BY <2>2, NoLayerIsLayer DEF InputsInv
    <2> QED  BY <2>1, <2>3 DEF InputsInv, IsLayer, NamesASocket
  <1>4. CASE CollectEnvVars
    <2>1. UNCHANGED <<options, environment, files, configPath, fileLayer>>
      BY <1>4 DEF CollectEnvVars
    <2>2. \/ UNCHANGED envLayer
          \/ envLayer' = [key \in DOMAIN environment.values |->
                             Parsed(key, environment.values[key])]
      BY <1>4 DEF CollectEnvVars
    <2>3. Parsed("engine_socket", environment.values["engine_socket"])
              = environment.values["engine_socket"]
      BY DEF Parsed, ListVariables
    <2>4. IsLayer(envLayer')
      BY <2>2, <2>3 DEF InputsInv, IsLayer, NamesASocket
    <2> QED  BY <2>1, <2>4 DEF InputsInv, IsLayer, NamesASocket
  <1>5. CASE MergeAndValidate
    BY <1>5 DEF MergeAndValidate, InputsInv, IsLayer, NamesASocket
  <1> QED  BY <1>1, <1>2, <1>3, <1>4, <1>5 DEF LoadStep

\* The merge has a value for each key, and the load lets through what serde accepts.
LEMMA LoadedIsAConfig ==
  ASSUME InputsInv, IsConfig(config), LoadStep
  PROVE  IsConfig(config')
  <1>1. CASE UNCHANGED config
    BY <1>1
  <1>2. CASE MergeAndValidate /\ config' # config
    <2>1. config' = ApplyDependentDefaults(Merged) /\ \A key \in Keys : Accepts(key, Merged[key])
      BY <1>2 DEF MergeAndValidate
    <2>2. IsLayer(Defaults) /\ DOMAIN Defaults = Keys
      BY DefaultsAreAConfig DEF IsConfig, IsLayer
    <2>3. IsLayer(fileLayer) /\ IsLayer(envLayer) /\ IsLayer(options.overrides)
      BY DEF InputsInv
    <2>4. /\ IsLayer(Over(fileLayer, Defaults))
          /\ DOMAIN Over(fileLayer, Defaults) = DOMAIN fileLayer \cup Keys
      BY <2>2, <2>3, OverIsLayer
    <2>5. /\ IsLayer(Over(envLayer, Over(fileLayer, Defaults)))
          /\ DOMAIN Over(envLayer, Over(fileLayer, Defaults))
                = DOMAIN envLayer \cup (DOMAIN fileLayer \cup Keys)
      BY <2>3, <2>4, OverIsLayer
    <2>6. /\ IsLayer(Merged)
          /\ DOMAIN Merged = DOMAIN options.overrides \cup
                                (DOMAIN envLayer \cup (DOMAIN fileLayer \cup Keys))
      BY <2>3, <2>5, OverIsLayer DEF Merged
    <2>7. DOMAIN Merged = Keys /\ NamesASocket(Merged)
      BY <2>3, <2>6 DEF IsLayer
    <2>8. "workspace_container_path" \notin DOMAIN Accepted
      BY DEF Accepted
    <2> HIDE DEF Merged
    <2>9. /\ DOMAIN config' = Keys
          /\ \A key \in Keys : key # "workspace_container_path" => config'[key] = Merged[key]
      BY <2>1, <2>7 DEF ApplyDependentDefaults
    <2>10. \A key \in Keys : Accepts(key, config'[key])
      BY <2>1, <2>8, <2>9 DEF Accepts
    <2>11. NamesASocket(config')
      BY <2>7, <2>9 DEF NamesASocket
    <2> QED  BY <2>9, <2>10, <2>11 DEF IsConfig
  <1> QED
    BY <1>1, <1>2 DEF LoadStep, ResolveConfigPath, FileDisappears, LoadConfigFile, CollectEnvVars

\* The invariant that the types need: what the layers may hold, and what the outcome rests on.
TypeInv ==
    /\ command \in Commands
    /\ InputsInv /\ IsConfig(config)
    /\ RunTypeOK /\ EngineTypeOK
    /\ engineStep # "done" => engineReport = "none"
    /\ outcome = "success" /\ command \in {"exec", "create"} =>
          engineReport \in {"connected", "created"}

LEMMA TypeInitInv == Init => TypeInv
  <1> SUFFICES ASSUME Init PROVE TypeInv
    OBVIOUS
  <1>1. InputsInv /\ IsConfig(config)
    BY InputsInitInv, DefaultsAreAConfig DEF Init, ConfigInit
  <1>2. RunTypeOK
    <2>1. 0 \in 0..MaxRetries
      BY RunAssumption
    <2> QED  BY <2>1 DEF Init, RunInit, RunTypeOK, OnThread
  <1>3. EngineTypeOK /\ engineReport = "none"
    BY DEF Init, EngineInit, EngineTypeOK, NoContainer
  <1>4. command \in Commands /\ outcome = "none"
    BY DEF Init
  <1> QED  BY <1>1, <1>2, <1>3, <1>4 DEF TypeInv

\* The steps of a run keep the types of a run.
LEMMA RunStepType ==
  ASSUME NEW c, RunTypeOK,
         StartRun \/ ValidateRunRequest \/ ValidateGitHubConfig(c) \/ ThreadStep
  PROVE  RunTypeOK'
  <1> USE DEF RunTypeOK, RunErrors, OnThread, RunEnds, RunGoesOn
  <1>1. CASE StartRun
    BY <1>1 DEF StartRun
  <1>2. CASE ValidateRunRequest
    BY <1>2 DEF ValidateRunRequest
  <1>3. CASE ValidateGitHubConfig(c)
    BY <1>3 DEF ValidateGitHubConfig
  <1>4. CASE CreateRuntime
    BY <1>4 DEF CreateRuntime
  <1>5. CASE LoadPrivateKey
    BY <1>5 DEF LoadPrivateKey
  <1>6. CASE BuildAppClient
    BY <1>6 DEF BuildAppClient
  <1>7. CASE AppAccepted
    BY <1>7 DEF AppAccepted
  <1>8. CASE AppRetried
    <2>1. appRetries' \in 0..MaxRetries
      <3>1. MaxRetries \in Nat /\ appRetries \in 0..MaxRetries
        BY RunAssumption
      <3>2. appRetries < MaxRetries /\ appRetries' = appRetries + 1
        BY <1>8 DEF AppRetried
      <3> HIDE DEF RunTypeOK
      <3> QED  BY <3>1, <3>2
    <2> QED  BY <1>8, <2>1 DEF AppRetried
  <1>9. CASE AppRefused \/ ThreadPanics
    BY <1>9 DEF AppRefused, ThreadPanics
  <1> QED
    BY <1>1, <1>2, <1>3, <1>4, <1>5, <1>6, <1>7, <1>8, <1>9 DEF ThreadStep

\* The socket that is dialled is one that somebody named, or the default.
LEMMA ResolvedSocket ==
  ASSUME NEW configured, IsSet(configured) => configured \in DOMAIN SocketOf, EngineTypeOK
  PROVE  ResolveSocket(configured) \in DOMAIN SocketOf
  <1>1. SetFallbacks \in SUBSET Nat
    BY DEF SetFallbacks, FallbackVariables
  <1>2. ASSUME SetFallbacks # {} PROVE Min(SetFallbacks) \in SetFallbacks
    <2>1. \E x \in SetFallbacks : \A y \in SetFallbacks : ~(y < x)
      BY <1>1, <1>2, LeastNumber
    <2>2. \E x \in SetFallbacks : \A y \in SetFallbacks : x =< y
      BY <1>1, <2>1
    <2> QED  BY <2>2 DEF Min
  <1>3. ASSUME NEW i \in SetFallbacks PROVE fallback[FallbackVariables[i]] \in DOMAIN SocketOf
    <2>1. i \in DOMAIN FallbackVariables /\ IsSet(fallback[FallbackVariables[i]])
      BY Zenon DEF SetFallbacks
    <2>2. fallback # NoFallback
      <3>1. \A k \in DOMAIN FallbackVariables : NoFallback[FallbackVariables[k]] = Unset
        BY DEF FallbackVariables, NoFallback
      <3> QED  BY <2>1, <3>1 DEF IsSet
    <2> QED  BY <2>1, <2>2, EngineAssumption DEF EngineTypeOK
  <1> QED  BY <1>2, <1>3, EngineAssumption DEF ResolveSocket

LEMMA ContainerType ==
  ASSUME NEW c
  PROVE  /\ BuildCreateBody(c).adds \subseteq {"SYS_ADMIN", "/dev/fuse", "label=disable"}
         /\ BuildCreateBody(c).privileged \in BOOLEAN
  BY DEF BuildCreateBody, BuildHostConfig

\* The steps of the engine keep its types, and report when they are done.
LEMMA EngineStepType ==
  ASSUME NEW c, EngineTypeOK, engineStep # "done" => engineReport = "none", EngineAction(c),
         IsSet(c["engine_socket"]) => c["engine_socket"] \in DOMAIN SocketOf
  PROVE  EngineTypeOK' /\ (engineStep' # "done" => engineReport' = "none")
  <1>1. engineStep # "done"
    BY DEF EngineAction, StartConnect, Connect, ConnectFails, RuntimeFails, PingAnswered,
           PingFails, PingTimesOut, CreateContainer, CreateRefused, RequestFails, CreateTimesOut
  <1>2. CASE StartConnect
    BY <1>1, <1>2 DEF StartConnect, EngineTypeOK
  <1>3. CASE Connect(c["engine_socket"], Verified)
    <2> DEFINE socket == ResolveSocket(c["engine_socket"])
    <2>1. socket \in DOMAIN SocketOf
      BY ResolvedSocket
    <2>2. /\ endpoint' = Endpoint(socket) /\ UNCHANGED <<fallback, container>>
          /\ engineStep' \in {"verify", "done"}
          /\ engineStep' = "verify" => engineReport' = engineReport
          /\ engineReport' \in {engineReport, "connected"}
      BY <1>3 DEF Connect
    <2> HIDE DEF socket
    <2>3. Endpoint(socket) \in [socket : DOMAIN SocketOf, scheme : Schemes]
      BY <2>1, EngineAssumption DEF Endpoint, Schemes
    <2> QED  BY <1>1, <2>2, <2>3 DEF EngineTypeOK
  <1>4. CASE ConnectFails(c["engine_socket"])
    BY <1>1, <1>4 DEF ConnectFails, EngineTypeOK, EngineFails, EngineErrors,
                      ClassifyConnectionError, ConnectionErrors
  <1>5. CASE RuntimeFails \/ PingAnswered \/ PingFails \/ PingTimesOut
    BY <1>1, <1>5 DEF RuntimeFails, PingAnswered, PingFails, PingTimesOut, EngineTypeOK,
                      EngineFails, EngineErrors
  <1>6. CASE CreateContainer(c)
    BY <1>1, <1>6, ContainerType DEF CreateContainer, EngineTypeOK
  <1>7. CASE CreateRefused(c) \/ RequestFails(c)
    BY <1>1, <1>7 DEF CreateRefused, RequestFails, EngineTypeOK, EngineFails, EngineErrors
  <1>8. CASE CreateTimesOut(c)
    BY <1>1, <1>8, ContainerType DEF CreateTimesOut, EngineTypeOK, EngineFails, EngineErrors
  <1> QED
    BY <1>2, <1>3, <1>4, <1>5, <1>6, <1>7, <1>8 DEF EngineAction

\* What does not move keeps its type.
LEMMA ConfigTypeUnchanged ==
  ASSUME InputsInv, UNCHANGED configVars PROVE InputsInv'
  BY DEF configVars, InputsInv, IsLayer, NamesASocket

LEMMA RunTypeUnchanged == ASSUME RunTypeOK, UNCHANGED runVars PROVE RunTypeOK'
  BY DEF runVars, RunTypeOK, OnThread

LEMMA EngineTypeUnchanged ==
  ASSUME EngineTypeOK, UNCHANGED engineVars
  PROVE  EngineTypeOK' /\ UNCHANGED <<engineStep, engineReport>>
  BY DEF engineVars, EngineTypeOK

LEMMA TypeStepInv == TypeInv /\ InvocationInv /\ [Next]_vars => TypeInv'
  <1> SUFFICES ASSUME TypeInv, InvocationInv, [Next]_vars PROVE TypeInv'
    OBVIOUS
  <1> USE DEF TypeInv
  <1>1. CASE UNCHANGED vars
    <2>1. UNCHANGED <<command, outcome, configVars, runVars, engineVars, config>>
      BY <1>1 DEF vars, configVars
    <2> QED
      BY <2>1, ConfigTypeUnchanged, RunTypeUnchanged, EngineTypeUnchanged
  <1>2. CASE Load
    <2>1. LoadStep /\ UNCHANGED <<command, runVars, engineVars>> /\ outcome' \in {"error", outcome}
      BY <1>2 DEF Load
    <2> QED
      BY <2>1, InputsStepInv, LoadedIsAConfig, RunTypeUnchanged, EngineTypeUnchanged
  <1>3. CASE DispatchRun
    <2>1. /\ StartRun /\ ForgetInputs /\ UNCHANGED <<command, config, engineVars>>
          /\ command = "run"
      BY <1>3 DEF DispatchRun
    <2>2. InputsInv'
      BY <2>1, NoLayerIsLayer DEF ForgetInputs, InputsInv, Missing
    <2> QED
      BY <2>1, <2>2, RunStepType, EngineTypeUnchanged
  <1>4. CASE DispatchHost \/ DispatchPlaceholder
    <2>1. /\ UNCHANGED <<command, configVars, runVars, engineVars, config>>
          /\ command \notin {"exec", "create"}
      BY <1>4 DEF DispatchHost, DispatchPlaceholder, configVars
    <2> QED
      BY <2>1, ConfigTypeUnchanged, RunTypeUnchanged, EngineTypeUnchanged
  <1>5. CASE RunAgent
    <2>1. /\ ValidateRunRequest \/ ValidateGitHubConfig(config) \/ ThreadStep
          /\ UNCHANGED <<command, configVars, engineVars, config>>
      BY <1>5 DEF RunAgent, configVars
    <2>2. command = "run"
      <3>1. runStep # "idle"
        BY <2>1 DEF ValidateRunRequest, ValidateGitHubConfig, ThreadStep, CreateRuntime,
                    LoadPrivateKey, BuildAppClient, AppAccepted, AppRetried, AppRefused,
                    ThreadPanics, OnThread
      <3> QED  BY <3>1 DEF InvocationInv, DispatchInv
    <2> QED
      BY <2>1, <2>2, RunStepType, ConfigTypeUnchanged, EngineTypeUnchanged
  <1>6. CASE EngineMoves
    <2>1. EngineAction(config) /\ UNCHANGED <<command, configVars, runVars, config>>
      BY <1>6 DEF EngineMoves, DispatchToEngine, ConnectToEngine, EngineAnswers, ImageMissing,
                  EngineTimesOut, EngineAction, Socket, configVars
    <2>2. EngineTypeOK' /\ (engineStep' # "done" => engineReport' = "none")
      <3>1. IsSet(config["engine_socket"]) => config["engine_socket"] \in DOMAIN SocketOf
        BY DEF IsConfig, NamesASocket, Keys
      <3> QED  BY <2>1, <3>1, EngineStepType
    <2>3. outcome' = "success" => engineReport' \in {"connected", "created"}
      <3>1. CASE DispatchToEngine
        BY <3>1 DEF DispatchToEngine, Dispatching
      <3>2. CASE ConnectToEngine \/ EngineAnswers \/ ImageMissing \/ EngineTimesOut
        <4>1. EngineEnds
          BY <3>2 DEF ConnectToEngine, EngineAnswers, ImageMissing, EngineTimesOut
        <4>2. engineStep # "done"
          BY <3>2 DEF ConnectToEngine, EngineAnswers, ImageMissing, EngineTimesOut, Connect,
                      ConnectFails, RuntimeFails, PingAnswered, PingFails, PingTimesOut,
                      CreateContainer, CreateRefused, RequestFails, CreateTimesOut
        <4>3. engineStep' = "done" \/ outcome' # "success"
          <5>1. outcome # "success" \/ command \notin {"exec", "create"}
            BY <4>2
          <5>2. command \in {"exec", "create"}
            <6>1. engineStep # "idle"
              BY <3>2 DEF ConnectToEngine, EngineAnswers, ImageMissing, EngineTimesOut, Connect,
                          ConnectFails, RuntimeFails, PingAnswered, PingFails, PingTimesOut,
                          CreateContainer, CreateRefused, RequestFails, CreateTimesOut
            <6> QED  BY <6>1 DEF InvocationInv, DispatchInv
          <5> QED  BY <4>1, <5>1, <5>2 DEF EngineEnds
        <4> QED  BY <4>1, <4>3 DEF EngineEnds
      <3> QED
        BY <1>6, <3>1, <3>2 DEF EngineMoves
    <2> QED
      BY <2>1, <2>2, <2>3, ConfigTypeUnchanged, RunTypeUnchanged
  <1> QED
    BY <1>1, <1>2, <1>3, <1>4, <1>5, <1>6 DEF Next, EngineMoves

\* Each variable of an invocation is of its type, and success is the report of every part
\* that took part in it: no error is swallowed on the way to the exit (main.rs:31-135).
THEOREM TypeCorrect == Spec => []TypeOK
  <1>1. TypeInv /\ InvocationInv => TypeOK
    <2> SUFFICES ASSUME TypeInv, InvocationInv PROVE TypeOK
      OBVIOUS
    <2>1. /\ outcome \in {"none", "success", "error"}
          /\ loadStep \in {"resolve", "read", "collect", "merge", "loaded", "failed"}
      BY DEF InvocationInv, DispatchInv, LayersInv
    <2>2. ASSUME outcome = "success"
          PROVE  loadStep = "loaded" /\ runReport \notin RunErrors /\ engineReport \notin EngineErrors
      <3>1. loadStep = "loaded"
        BY <2>1, <2>2 DEF InvocationInv, DispatchInv
      <3>2. runReport \in {"none", "success"}
        BY <2>2 DEF InvocationInv, DispatchInv, RunInv
      <3>3. engineReport \in {"none", "connected", "created"}
        BY <2>2 DEF TypeInv, InvocationInv, DispatchInv
      <3> QED  BY <3>1, <3>2, <3>3 DEF RunErrors, EngineErrors
    <2>3. configPath \in Places \cup {None}
      BY DEF TypeInv, InputsInv
    <2> QED  BY <2>1, <2>2, <2>3 DEF TypeInv, IsConfig, TypeOK
  <1> QED  BY <1>1, TypeInitInv, TypeStepInv, InvocationInvariant, PTL DEF Spec

=============================================================================
