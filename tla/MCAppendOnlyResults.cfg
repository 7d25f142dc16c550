SPECIFICATION Spec
CONSTANTS
    Threads = {a, b, c}
    Values = {v1, v2}
    None = None
    Capacity = 4
    MaxRecord = 3
INVARIANTS
    DisjointRanges
    ReturnedComplete
    ReadsPublished
PROPERTIES
    NoOverwrite
SYMMETRY Symmetry
