\* Two programs, one transaction of both; a page, a cache and a queue of one.
CONSTANTS
    s1 = s1
    s2 = s2
    Sig = {s1, s2}
    NumPrograms = 2
    Touches <- MCTouches
    Failed = {}
    Social <- MCSocial
    LIMIT = 1
    CACHE_MAX = 1
    KEEP = 1
    MaxLoops = 1
    MAX_QUEUE_SIZE = 1
    MAX_CONCURRENCY = 1
    NoSig = NoSig
SPECIFICATION FairSpec
INVARIANTS FeedAlive AnnouncedPerResidency CursorCoverage
PROPERTIES QuietSocketReplaced PollingSees
CHECK_DEADLOCK FALSE
