\* one YouTube video two tenants register, two workers, a DELETE, a crash and a fault
SPECIFICATION Spec
CONSTANTS
    Videos = {1}
    Uploads = {}
    Users = {u1, u2}
    Requesters <- MCRequesters
    Content <- MCContent
    Readers = {}
    Workers = {w1, w2}
    NoUser = NoUser
    NoVideo = NoVideo
    NoWorker = NoWorker
    MaxInflight = 1
    Concurrency = 1
    MaxRuns = 2
    MaxRegisters = 2
    MaxRetries = 0
    MaxDeletes = 1
    MaxFaults = 1
    MaxCrashes = 1
INVARIANTS
    TypeOK
    DeletedGone
    HandedOutOnce
    IndexedServable
PROPERTY
    StageOrder
SYMMETRY Interchangeable
CHECK_DEADLOCK FALSE
