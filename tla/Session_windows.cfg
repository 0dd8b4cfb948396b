SPECIFICATION Spec
CONSTANTS
    Windows = {w1, w2, w3}
    Files = {a, b}
    None = None
    MaxStarts = 2
    MaxForwards = 1
    MaxLoads = 1
SYMMETRY Symmetry
CHECK_DEADLOCK FALSE
INVARIANTS
    StoredAreOpen
    SnapshotHolds
    SessionKept
