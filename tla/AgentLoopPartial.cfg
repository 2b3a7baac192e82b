SPECIFICATION Spec
CONSTANTS
    MaxRuns = 1
    MaxMessages = 2
    MaxTurns = 3
    MaxCalls = 1
    QueueMode = "all"
    HarmonyTarget = TRUE
INVARIANTS
    NoPartialCommitted
