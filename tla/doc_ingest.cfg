\* one document, a worker crash, an API crash, a DELETE, a remote call that raises
SPECIFICATION Spec
CONSTANTS
    Docs = {d1}
    Owner <- MCOwner
    Content <- MCContent
    Sources = {NoKey, File}
    VideoPurges = TRUE
    Workers = {w1}
    NoDoc = NoDoc
    NoWorker = NoWorker
    NoKey = NoKey
    File = File
    Concurrency = 2
    HealthyGoesStale = FALSE
    CacheMayFail = FALSE
    MaxRuns = 2
    MaxFaults = 1
    MaxCrashes = 1
    MaxApiCrashes = 1
    MaxRetries = 0
    MaxDeletes = 1
INVARIANTS
    TypeOK
    IndexedSearchable
    DeletedUnsearchable
    DurableCopy
PROPERTIES
    LifecycleOrder
    ImplementsPromise
CHECK_DEADLOCK FALSE
