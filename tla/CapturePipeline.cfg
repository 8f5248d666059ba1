SPECIFICATION FairSpec
CONSTANTS
    Sessions = {s1, s2}
    Workers = {w1, w2}
    QueueMax = 1
    BatchSize = 2
    MaxFaults = 1
    Importing = FALSE
    WorkerStop = WorkerStop
    NoSession = NoSession
INVARIANTS NothingLost StopLeavesNothing
PROPERTIES StopEnds PendingDrains
