SPECIFICATION FairSpec
CONSTANTS
    NumCalls = 4
    MaxSteer = 2
INVARIANTS
    ExclusiveRunsAlone
    OneResultPerCall
    SteeringConserved
PROPERTIES
    ScheduleSpec
    AbortEndsBatch
