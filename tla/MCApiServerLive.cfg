SPECIFICATION FairSpec
CONSTANTS
    NNodes = 1
    NStages = 1
    MaxSessions = 1
    Requests = {r1, r2}
    Capacity = 1
    MaxBatch = 2
    StreamCap = 1
    Prompt = 1
    MaxTokens = 2
    Backends = {"remote"}
PROPERTIES
    RequestsReturn
CHECK_DEADLOCK FALSE
