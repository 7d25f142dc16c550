SPECIFICATION Spec
CONSTANTS
    Threads = {a, b, c}
    Values = {v1, v2}
    Cap = 2
    Laps = 4
    Start = 3
    MaxOps = 5
    None = None
INVARIANTS
    SlotOwnership
    SlotInitialised
    NobodyStuck
PROPERTIES
    Linearizable
SYMMETRY Symmetry
CHECK_DEADLOCK FALSE
