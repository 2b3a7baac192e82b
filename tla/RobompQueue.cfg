SPECIFICATION FairSpec
CONSTANTS
    Events = {e1, e2}
    Issues = {i1, i2}
    Slots = {s1}
    NoEvent = NoEvent
    NoSlot = NoSlot
    MaxReplays = 1
    MaxRestarts = 1
    GracefulStops = TRUE
    Crashes = TRUE
INVARIANTS
    OneRunPerIssue
    RowsMatchTasks
    NoStraggler
PROPERTIES
    CancelledNeverDone
    EventuallyProcessed
