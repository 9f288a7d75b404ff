SPECIFICATION MonitorFairSpec
CONSTANTS
    a = a
    b = b
    c = c
    Sig = {b}
    NumPrograms = 2
    Touches <- MCTouches
    Failed = {}
    Ws = TRUE
    LIMIT = 2
    CACHE_MAX = 1
    EVICT = 1
    MAX_ATTEMPTS = 2
    MaxStarts = 2
    MaxPolls = 1
    MAX_QUEUE_SIZE = 1
    MAX_CONCURRENCY = 1
    MaxTickets = 4
    NoSig = NoSig
CHECK_DEADLOCK FALSE
PROPERTY StopEnds
PROPERTY QueuedIsFinished
