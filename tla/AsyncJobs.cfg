SPECIFICATION FairSpec
CONSTANTS
    MaxJobs = 2
    MaxRunning = 2
    NumPolls = 2
    MaxFailures = 1
    LongRetention = TRUE
INVARIANTS
    DeliveredOnce
PROPERTIES
    ReportedNotDelivered
    EveryResultReported
    DisposeEnds
