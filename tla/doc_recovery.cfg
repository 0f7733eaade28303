\* one document, two worker crashes
SPECIFICATION FairSpec
CONSTANTS
    Docs = {d1}
    Owner <- MCOwner
    Content <- MCContent
    Sources = {NoKey}
    VideoPurges = FALSE
    Workers = {w1}
    NoDoc = NoDoc
    NoWorker = NoWorker
    NoKey = NoKey
    File = File
    Concurrency = 2
    HealthyGoesStale = FALSE
    CacheMayFail = FALSE
    MaxRuns = 4
    MaxFaults = 0
    MaxCrashes = 2
    MaxApiCrashes = 0
    MaxRetries = 0
    MaxDeletes = 0
PROPERTY
    NoDocumentLost
CHECK_DEADLOCK FALSE
