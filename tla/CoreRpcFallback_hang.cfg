SPECIFICATION CoreFairSpec
CONSTANTS
    NumUrls = 2
    MAX_CONSECUTIVE_FAILS = 3
    Caller = {1}
    None = None
PROPERTY CallsSettle
