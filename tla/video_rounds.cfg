\* one tenant's two uploads and another tenant's YouTube video
SPECIFICATION Spec
CONSTANTS
    Videos = {1, 2, 3}
    Uploads = {1, 2}
    Users = {u1, u2}
    Requesters <- MCRequesters
    Content <- MCContent
    Readers = {}
    Workers = {w1}
    NoUser = NoUser
    NoVideo = NoVideo
    NoWorker = NoWorker
    MaxInflight = 1
    Concurrency = 1
    MaxRuns = 3
    MaxRegisters = 3
    MaxRetries = 0
    MaxDeletes = 0
    MaxFaults = 0
    MaxCrashes = 0
INVARIANT
    NoMonopoly
CHECK_DEADLOCK FALSE
