SPECIFICATION ChoiceSpec
CONSTANTS
    MaxForces = 2
    MaxPreviews = 1
    MaxPrompts = 3
    MaxTurns = 4
    MaxAborts = 1
    MaxFaults = 1
INVARIANTS
    ChoicesKept
    ForcedBeforeNone
    HandlerInPlace
    NothingLeftInFlight
CHECK_DEADLOCK FALSE
