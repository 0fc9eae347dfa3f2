CONSTANTS
    Docs = {d1}
    Workers = {w1, w2}
    MaxRetries = 1
    MaxFaults = 2
SPECIFICATION FairSpec
INVARIANTS
    TypeOK
    ObjectsFollowStatus
    OneWorkerPerJob
PROPERTIES
    VerdictIsFinal
    QueuedIsDecided
    DecidedLeavesQuarantine
CHECK_DEADLOCK FALSE
