SPECIFICATION FairSpec
CONSTANTS
    User = {"ann", "bob"}
    Token = {"t"}
    Mcap = {10, 12, 60}
    Poller = {1, 2}
    MaxJobs = 2
CHECK_DEADLOCK FALSE
INVARIANT LedgerBalances
PROPERTY HighsStand
PROPERTY OldCallsAreFinalized
