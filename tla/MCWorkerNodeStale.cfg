SPECIFICATION Spec
CONSTANTS
    p = p
    q = q
    Handles = {p, q}
    Capacity = 1
    MaxWork = 2
    MaxUnread = 2
    Used <- MCBoth
    Timed = {p}
    Cut = {}
    Preloaded = TRUE
INVARIANTS
    AnswersOwnRequest
CHECK_DEADLOCK FALSE
