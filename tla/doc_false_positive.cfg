\* one document, one worker crash: the claim of reconciler.py:88 with no proviso
SPECIFICATION Spec
CONSTANTS
    Docs = {d1}
    Owner <- MCOwner
    Content <- MCContent
    Sources = {NoKey}
    VideoPurges = FALSE
    Workers = {w1}
    NoDoc = NoDoc
    NoWorker = NoWorker
    NoKey = NoKey
    File = File
    Concurrency = 2
    HealthyGoesStale = TRUE
    CacheMayFail = FALSE
    MaxRuns = 2
    MaxFaults = 0
    MaxCrashes = 1
    MaxApiCrashes = 0
    MaxRetries = 0
    MaxDeletes = 0
INVARIANT
    NoFalsePositive
CHECK_DEADLOCK FALSE
