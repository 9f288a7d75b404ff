\* A queue of 2 with two requests at a time and 8 requests; up to three subscriptions
\* and two reconnections at a time; a window of two mints; three endpoints, of which one
\* or none answers, with three overlapping calls of the bots' manager and two of the core
\* package's.
SPECIFICATION ConnectionsSpec
CONSTANTS
    MAX_QUEUE_SIZE = 2
    MAX_CONCURRENCY = 2
    MaxTickets = 8
    CoreSig = {a, b}
    SEEN_MAX = 1
    SEEN_DROP = 1
    MaxListeners = 3
    MaxReconnects = 2
    Mint = {m1, m2, m3}
    TRADE_WINDOW = 2
    MaxTimers = 3
    NumUrls = 3
    MAX_CONSECUTIVE_FAILS = 3
    BotCaller = {1, 2, 3}
    Caller = {1, 2}
    Healthy = {{}, {1}}
    Fatal = TRUE
    None = None
INVARIANTS NoLostWakeup SubscribedToWindow FreshStart
PROPERTIES ImplementsTaskQueue EveryAcceptedSettles GetsSubscribed RelayReturns DashboardReturns
PROPERTIES BotCallsSettle CooldownNeedsAll Failover
CHECK_DEADLOCK FALSE
