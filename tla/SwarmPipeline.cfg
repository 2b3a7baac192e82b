SPECIFICATION FairSpec
CONSTANTS
    AgentCount = 3
    MaxLinks = 3
    MaxIterations = 2
    MaxFaults = 1
    MaxAborts = 1
INVARIANTS
    NeverStuck
    WavesAreLevels
    AfterDependencies
    StatusIsEarned
    FileIsFinal
PROPERTIES
    PipelineReturns
CHECK_DEADLOCK FALSE
