\* One transaction with two claim instructions, and nothing that goes wrong.
SPECIFICATION Spec
CONSTANTS
    Users = {u1, u2}
    Amounts = {1}
    MAX_ENTRIES = 4
    MAX_RETRIES = 0
    BATCH = 2
    MaxTxs = 1
    MaxRestarts = 0
    SaveFaults = FALSE
    LostReplies = FALSE
CHECK_DEADLOCK FALSE
INVARIANT AnnouncedOnce
