SPECIFICATION FairSpec
CONSTANTS
    h = h
    closer = closer
    MaxCalls = 2
    Scenarios <- MCScenarios
    Hosts = {h}
    Closer = closer
    None = None
CHECK_DEADLOCK FALSE
INVARIANTS
    SingleFlight
    CancelHonoured
    LaterUntouched
PROPERTY
    RunSettles
