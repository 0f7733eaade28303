\* two uploads of one file and one dispatcher, a retry and a DELETE; the tenant also has papers
SPECIFICATION FairSpec
CONSTANTS
    Videos = {1, 2}
    Uploads = {1, 2}
    Users = {u1}
    Requesters <- MCRequesters
    Content <- MCContent
    Readers = {u1}
    Workers = {w1}
    NoUser = NoUser
    NoVideo = NoVideo
    NoWorker = NoWorker
    MaxInflight = 1
    Concurrency = 1
    MaxRuns = 3
    MaxRegisters = 2
    MaxRetries = 1
    MaxDeletes = 1
    MaxFaults = 0
    MaxCrashes = 0
INVARIANTS
    CapacityKept
PROPERTY
    NoVideoStuck
CHECK_DEADLOCK FALSE
