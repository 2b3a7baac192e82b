SPECIFICATION Spec
CONSTANTS
    MaxEntries = 2
    MaxRequests = 1
    MaxCrashes = 0
    MaxFaults = 0
INVARIANTS
    HotAppendSurvives
CHECK_DEADLOCK FALSE
