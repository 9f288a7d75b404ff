SPECIFICATION BotsSpec
CONSTANTS
    w1 = w1
    None = None
    Torn = Torn
    Users = {u1}
    Amounts = {1, 100}
    MAX_ENTRIES = 1
    MAX_RETRIES = 1
    BATCH = 2
    MaxTxs = 2
    MaxRestarts = 1
    SaveFaults = TRUE
    LostReplies = TRUE
    Chat = {c1, c2}
    Token = {t1}
    Handle = {h1, h2}
    MaxItems = 2
    MaxClaims = 1
    Wallet = {w1, w2}
    LeadingNumber <- BeginsWithTwo
    MaxWatches = 3
    MaxEvents = 1
    Kind = {"launches", "graduations"}
    MaxBroadcasts = 1
CHECK_DEADLOCK FALSE
INVARIANT FirstClaimsOnly
INVARIANT UnsavedIsScheduled
INVARIANT RestoredStaysSilent
INVARIANT TrackersHear
INVARIANT WatchersHear
INVARIANT BroadcastReaches
PROPERTY HandlersEnd
