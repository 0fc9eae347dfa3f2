CONSTANTS
    Docs = {d1}
    Workers = {w1}
    MaxRetries = 1
    MaxFaults = 0
SPECIFICATION Spec
INVARIANT
    DeletedIsGone
CHECK_DEADLOCK FALSE
