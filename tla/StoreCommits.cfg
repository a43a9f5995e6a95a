SPECIFICATION FairSpec
CONSTANTS
    Handles = {h1, h2}
    Sessions = {s1}
    Snapshots = {d1, d2}
    Holders = {p}
    MaxCalls = 2
    MaxCrashes = 1
    None = None
CHECK_DEADLOCK FALSE
INVARIANTS
    LogLoads SnapshotAnnounced CommittedWasDurable
PROPERTIES
    RecoveryComplete OperationsEnd
