\* the instance of service.cfg
SPECIFICATION ServiceSpec
CONSTANTS
    Points <- MCPoints
    Video <- MCVideo
    Source <- MCSource
    Second <- MCSecond
    Frames <- MCFrames
    Blank <- MCBlank
    NoVideo = 0
    NoPoint = 0
    RRF_K = 60
    FUSION_WINDOW_S = 15
    MAX_BOOST = 238266
    Scale = 4765320
    MaxRanked = 4
    Deployments <- MCDeployments
    VisualLists <- MCVisualLists
    TextLists <- MCTextLists
    GateScores = {1, 2}
    CrossScores <- MCCrossScores
    MatchedSets <- MCMatchedSets
    CONFIDENCE_THRESHOLD = 2
    TEXT_CONFIDENCE_THRESHOLD = 2
    TOP_K = 2
    Models = {m1}
    NoModel = NoModel
    EnvModel = env
    RawAnswers <- MCRawAnswers
    LLM_TIMEOUT_S = 250
    RETRY_DELAYS <- MCRetryDelays
    NewSources = {9}
    MaxSettings = 1
    MaxFaults = 1
    SeedSources = {1, 2, 3}
    SeedVideos = {1, 2}
    Copies = {3}
    MAX_PASSES = 3
    SeedBudget <- MCSeedBudget
    Threads = {t1, t2}
    Kids = {k1, k2}
    NoKeys = NoKeys
    MaxRotations = 2
    MaxOutages = 1
    MaxTokens = 3
    Clients = {c1, c2}
    Proxy = proxy
    ProxySets = {"fly"}
    Named = {c1, c2}
    NoAddress = NoAddress
    Credentials = {"none", "admin", "user"}
    HasAdminToken = TRUE
    DevEnv = FALSE
    TRUST_PROXY_HEADERS = TRUE
    RATE_LIMIT_ASK_MAX = 1
    RATE_LIMIT_MAX = 2
    RATE_LIMIT_WINDOW_S = 2
    MaxHits = 3
    MaxRedisOutages = 1
    Readers = {r1, r2}
    Asked = {"sources"}
    POLL_CACHE_TTL_S = 1
    MaxDelay = 1
    MaxTicks = 5
    MaxWrites = 1
    TRANSCRIPT_CHUNK_SECONDS = 3
    DEDUP_MAX_DISTANCE = 1
    LUMA_DELTA = 0
    MAX_FRAMES = 6
    CHUNK_MAX_CHARS = 5
    HEADING_MAX_CHARS = 5
    Transcripts <- MCTranscripts
    Reels <- MCReels
    FrameCounts = {1, 5, 6, 7, 8, 9, 10, 11, 13, 20}
    Papers <- MCPapers
    Procs = {"a1", "f1"}
    Role <- MCRole
    ProvBudget <- MCProvBudget
    Askers = {t1, t2}
    EmbedModels = {v1, v2}
    NoVector = NoVector
    POST_TRIES = 2
    EmbedBudget <- MCEmbedBudget
INVARIANT
    GateOnQuestion
CHECK_DEADLOCK FALSE
