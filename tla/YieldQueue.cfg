SPECIFICATION FairSpec
CONSTANTS
    MaxEntries = 2
    MaxPrompts = 2
    MaxAborts = 1
    MaxStops = 1
    MaxContinues = 1
INVARIANTS
    EntriesAccounted
    NoBusyForEver
PROPERTIES
    UnmissedGetTold
CHECK_DEADLOCK FALSE
