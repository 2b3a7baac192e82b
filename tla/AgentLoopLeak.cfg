SPECIFICATION FairSpec
CONSTANTS
    MaxRuns = 1
    MaxMessages = 2
    MaxTurns = 4
    MaxCalls = 1
    QueueMode = "all"
    HarmonyTarget = TRUE
INVARIANTS
    NoPartialInRequests
PROPERTIES
    AbortEndsRun
