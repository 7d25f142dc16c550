SPECIFICATION Spec
CONSTANTS
    NNodes = 2
    NStages = 2
    MaxSessions = 1
    Requests = {r1, r2}
    Capacity = 1
    MaxBatch = 2
    StreamCap = 1
    Prompt = 1
    MaxTokens = 2
    Backends = {"local", "remote"}
INVARIANTS
    StagesInStep
    PendingExact
    SessionsBounded
    StreamFaithful
CHECK_DEADLOCK FALSE
