SPECIFICATION Spec
CONSTANTS
    Handles = {h1, h2}
    Sessions = {s1}
    Snapshots = {d1, d2}
    Holders = {p}
    MaxCalls = 2
    MaxCrashes = 0
    None = None
SYMMETRY Symmetric
CHECK_DEADLOCK FALSE
INVARIANTS
    NoSequenceMintedTwice
