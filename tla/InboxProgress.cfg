SPECIFICATION FairSpec
CONSTANTS
    Callers = {c1}
    i1 = i1
    i2 = i2
    Ids = {i1, i2}
    Requests <- SteerAndInterrupt
    Modes = {"loop", "fact"}
    HookKinds = {"prompt", "waiting"}
    MaxQueue = 1
    MaxSeen = 1
    MaxCalls = 2
    MaxTurn = 1
    MaxTime = 0
    None = None
CHECK_DEADLOCK FALSE
PROPERTIES
    AcceptedDecided CancelGetsThrough
