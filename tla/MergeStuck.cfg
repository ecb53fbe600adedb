SPECIFICATION FairSpec
CONSTANTS
    None = None
    MaxHead = 2
    MaxMoves = 3
    MaxFaults = 0
    MaxPauses = 1
    Attempts = {a1}
PROPERTY DeferredIsRetried
CHECK_DEADLOCK FALSE
