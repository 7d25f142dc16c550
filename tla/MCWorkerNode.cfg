SPECIFICATION Spec
CONSTANTS
    p = p
    q = q
    Handles = {p, q}
    Capacity = 1
    MaxWork = 2
    MaxUnread = 1
    Used <- MCUsed
    Timed = {p}
    Cut = {p}
    Preloaded = TRUE
INVARIANTS
    AtMostOnce
    LossBounded
    AdmissionTruthful
    AnswerOwed
CHECK_DEADLOCK FALSE
