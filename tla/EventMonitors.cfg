SPECIFICATION FairSpec
CONSTANTS
    Sig = {a, b}
    Carrying = {a, b}
    Relevant = {a}
    Failed = {}
    Kinds = {"channel", "launch", "pump"}
    LIMIT = 2
    CACHE_MAX = 1
    KEEP = 1
    EVICT = 1
    Slots = {1, 2}
    MaxCredit = 3
    NoSig = NoSig
CHECK_DEADLOCK FALSE
INVARIANTS AnnouncedPerResidency MarkedIsAnnounced
PROPERTY PollingSees
