SPECIFICATION Spec
CONSTANTS
    Callers = {c1, c2}
    i1 = i1
    i2 = i2
    Ids = {i1, i2}
    Requests <- MixedRequests
    Modes = {"loop", "fact"}
    HookKinds = {"prompt"}
    MaxQueue = 2
    MaxSeen = 1
    MaxCalls = 3
    MaxTurn = 1
    MaxTime = 1
    None = None
SYMMETRY Symmetric
CHECK_DEADLOCK FALSE
INVARIANTS
    AcceptedOwned
    AppliedMeansLogged
    PostsInOrder
    InterruptIsLast
    ReleaseProofSound
    EffectOnce
