SPECIFICATION Spec
CONSTANTS
    MaxRuns = 2
    MaxMessages = 3
    MaxTurns = 2
    MaxCalls = 2
    QueueMode = "one-at-a-time"
    HarmonyTarget = TRUE
INVARIANTS
    ToolPairing
    MessagesConserved
    EveryPromptAnswered
    TranscriptMatchesContext
