SPECIFICATION MonitorSpec
CONSTANTS
    a = a
    b = b
    c = c
    Sig = {a, b}
    NumPrograms = 2
    Touches <- MCTouches
    Failed = {}
    Ws = FALSE
    LIMIT = 2
    CACHE_MAX = 2
    EVICT = 1
    MAX_ATTEMPTS = 1
    MaxStarts = 1
    MaxPolls = 1
    MAX_QUEUE_SIZE = 2
    MAX_CONCURRENCY = 1
    MaxTickets = 4
    NoSig = NoSig
CHECK_DEADLOCK FALSE
INVARIANT NotifiedOnce
