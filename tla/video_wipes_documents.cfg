\* one video of a tenant that also has a paper
SPECIFICATION Spec
CONSTANTS
    Videos = {1}
    Uploads = {1}
    Users = {u1}
    Requesters <- MCRequesters
    Content <- MCContent
    Readers = {u1}
    Workers = {w1}
    NoUser = NoUser
    NoVideo = NoVideo
    NoWorker = NoWorker
    MaxInflight = 1
    Concurrency = 1
    MaxRuns = 1
    MaxRegisters = 1
    MaxRetries = 0
    MaxDeletes = 0
    MaxFaults = 0
    MaxCrashes = 0
PROPERTY
    DocumentsKept
CHECK_DEADLOCK FALSE
