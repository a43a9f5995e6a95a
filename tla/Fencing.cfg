SPECIFICATION Spec
CONSTANTS
    Handles = {h1, h2}
    Sessions = {s1}
    Snapshots = {d1}
    Holders = {p, q}
    MaxCalls = 3
    MaxCrashes = 0
    None = None
CHECK_DEADLOCK FALSE
PROPERTIES
    FencedByLease
