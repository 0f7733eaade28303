\* one document, an API crash after the enqueue and then a worker crash
SPECIFICATION FairSpec
CONSTANTS
    Docs = {d1}
    Owner <- MCOwner
    Content <- MCContent
    Sources = {NoKey}
    VideoPurges = FALSE
    Workers = {w1}
    NoDoc = NoDoc
    NoWorker = NoWorker
    NoKey = NoKey
    File = File
    Concurrency = 2
    HealthyGoesStale = FALSE
    CacheMayFail = FALSE
    MaxRuns = 3
    MaxFaults = 0
    MaxCrashes = 1
    MaxApiCrashes = 1
    MaxRetries = 0
    MaxDeletes = 0
PROPERTY
    NoDocumentLost
CHECK_DEADLOCK FALSE
