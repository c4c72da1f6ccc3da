SPECIFICATION Spec
CONSTANTS
    CloneCalls = {c1, c2}
    Repos = {"podbot", "fork"}
    Branches = {"main", "v1"}
    BranchesOf <- RefsOf
    TagsOf <- TagNames
    Values = {"alice", "bob"}
    MaxIdentityChanges = 2
    Names = {".claude", ".codex", "a", "d", "x", "s"}
    Entries <- EntryPaths
    Children <- ChildrenOf
    EntryKind <- KindOf
    MaxFileBytes = 2
    MaxHostChanges = 2
    Lifetime = 3
    Buffers = {0, 2, 4, 9}
    MaxBuffer = 5
    MaxInstant = 9
    MaxRetries = 1
    StartTimes = {0}
    MaxCalls = 2
INVARIANT
    HeaderSizesMatch
CHECK_DEADLOCK FALSE
