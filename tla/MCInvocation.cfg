SPECIFICATION Spec
CONSTANTS
    LoadOptions <- LoadOptionSet
    Environments <- EnvironmentSet
    FileSystems <- FileSystemSet
    Letters = {"a"}
    RunRequests <- RunRequestSet
    KeyFiles <- KeyFileSet
    MaxRetries = 3
    SocketOf <- SocketSchemes
    FallbackEnvironments <- FallbackSet
INVARIANTS
    TypeOK
    HighestLayerWins
    RunSuccessIsAccepted
    AcceptedRunIsClonable
PROPERTIES
    EngineCallsEnd
CHECK_DEADLOCK FALSE
