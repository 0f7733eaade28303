\* one document deleted once while its run executes
SPECIFICATION Spec
CONSTANTS
    Docs = {d1}
    Owner <- MCOwner
    Content <- MCContent
    Sources = {NoKey}
    VideoPurges = FALSE
    Workers = {w1}
    NoDoc = NoDoc
    NoWorker = NoWorker
    NoKey = NoKey
    File = File
    Concurrency = 2
    HealthyGoesStale = FALSE
    CacheMayFail = FALSE
    MaxRuns = 1
    MaxFaults = 0
    MaxCrashes = 0
    MaxApiCrashes = 0
    MaxRetries = 0
    MaxDeletes = 1
INVARIANT
    NoOrphanedChunks
CHECK_DEADLOCK FALSE
