SPECIFICATION Spec
CONSTANTS
    Sessions = {s1, s2}
    Workers = {w1}
    QueueMax = 2
    BatchSize = 1
    MaxFaults = 1
    Importing = TRUE
    WorkerStop = WorkerStop
    NoSession = NoSession
SYMMETRY Interchangeable
INVARIANTS TwoRunsOnlyByLiveImport AnnouncedOnce ImportComplete
PROPERTY KeepsCustody
