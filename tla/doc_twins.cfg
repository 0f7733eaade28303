\* two copies of one tenant's content, a retry request and a remote call that raises
SPECIFICATION Spec
CONSTANTS
    Docs = {d1, d2}
    Owner <- MCOwner
    Content <- MCContent
    Sources = {NoKey, d1, d2}
    VideoPurges = FALSE
    Workers = {w1}
    NoDoc = NoDoc
    NoWorker = NoWorker
    NoKey = NoKey
    File = File
    Concurrency = 2
    HealthyGoesStale = FALSE
    CacheMayFail = FALSE
    MaxRuns = 2
    MaxFaults = 1
    MaxCrashes = 0
    MaxApiCrashes = 0
    MaxRetries = 1
    MaxDeletes = 0
INVARIANT
    DuplicatesCaught
SYMMETRY Symmetry
CHECK_DEADLOCK FALSE
