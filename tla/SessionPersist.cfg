SPECIFICATION FairSpec
CONSTANTS
    MaxEntries = 3
    MaxRequests = 2
    MaxCrashes = 1
    MaxFaults = 3
INVARIANTS
    SavedSurvives
    FileMatchesEntries
PROPERTIES
    FlushIsDurable
    EntriesGetWritten
CHECK_DEADLOCK FALSE
