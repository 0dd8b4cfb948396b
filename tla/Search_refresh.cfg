SPECIFICATION Spec
CONSTANTS
    None = None
    Patterns = {"error", "warning"}
    Contents = {"E", "W"}
    Hits <- MCHits
    ChunkLines = 1
    BlocksInFlight = 2
    MaxLines = 3
    UseCache = TRUE
    CacheLines = 3
    SavedMarks = {0}
    FirstText = "error"
    FirstLogs <- MCFirstLogs
    Rewrites <- MCRewrites
    MaxChanges = 1
    MaxCalls = 2
CHECK_DEADLOCK FALSE
INVARIANTS
    DifferencesAddUp
    SettledExact
    SettledTruthful
    CacheSound
