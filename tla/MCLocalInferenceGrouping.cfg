SPECIFICATION Spec
CONSTANTS
    Utf8 <- MCUtf8
    MaxSize = 100000
    MaxEvaluatedWeights = 1000
    Files <- MCFiles
    Scenarios <- MCScenarios
    Calls <- MCCalls
    Drawn <- MCDrawn
    MemoryLimit = 20000
    Letters <- MCLetters
    MaxText = 4
    MaxCalls = 4
    MaxFailures = 2
INVARIANTS
    DeclaredGroupingRuns
CHECK_DEADLOCK FALSE
