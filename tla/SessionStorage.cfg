SPECIFICATION Spec
CONSTANTS
    Session = session
    Artifact = artifact
    Paths = {session, artifact}
    Writers = {w1}
    NoWriter = NoWriter
    MaxRequests = 3
    MaxFaults = 2
INVARIANTS
    NoGapInWriter
    IndexAgreesAtRest
PROPERTIES
    ReadsWhatWasWritten
CHECK_DEADLOCK FALSE
