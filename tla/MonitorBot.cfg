\* Two requests in a window of two, three streams, four claims in a buffer of two; two
\* creations at a time with one watch allowed; polls over three transactions with
\* pages of two, a queue of one and a cache of one.
SPECIFICATION BotSpec
CONSTANTS
    Client = {c1}
    Stream = {1, 2, 3}
    rateLimitMax = 2
    rateLimitWindowMs = 2
    MaxTime = 5
    claimBufferSize = 2
    PageLimit = 1
    MaxClaims = 4
    Wallet = {w1}
    Url = {url1}
    Request = {r1, r2}
    maxWatchesPerClient = 1
    MAX_RETRIES = 2
    MaxWatches = 2
    MaxHooked = 1
    MaxRestarts = 1
    NoUrl = NoUrl
    Torn = Torn
    Sig = {a, b, c}
    NumPrograms = 1
    Touches <- TouchedByAll
    Failed = {}
    Ws = FALSE
    LIMIT = 2
    CACHE_MAX = 1
    EVICT = 1
    MAX_ATTEMPTS = 1
    MaxStarts = 1
    MaxPolls = 3
    MAX_QUEUE_SIZE = 1
    MAX_CONCURRENCY = 1
    MaxTickets = 8
    NoSig = NoSig
INVARIANTS RateRespected OpenStreamsHear PagesMissNothing
INVARIANTS WatchLimit PostedAgainOnlyIfLate CursorCoverage
CHECK_DEADLOCK FALSE
