\* Two overlapping polls over two programs that share transaction a, or log
\* subscriptions; a queue of 1, pages of 1, a cache of 1.
CONSTANTS
    a = a
    b = b
    NoSig = NoSig
    Sig = {a, b}
    NumPrograms = 2
    Touches <- MCTouches
    Failed = {}
    Claims = {a, b}
    Poller = {1, 2}
    WsConfigured = TRUE
    MAX_QUEUE = 1
    POLL_LIMIT = 1
    CACHE_MAX = 1
    CACHE_KEEP = 1
    MaxStarts = 1
SPECIFICATION FairSpec
INVARIANTS OncePerResidency CursorCoverage
CHECK_DEADLOCK FALSE
PROPERTY QueuedIsTakenUp
