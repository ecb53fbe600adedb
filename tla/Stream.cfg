SPECIFICATION FairSpec
CONSTANTS
    None = None
    MaxSeq = 3
    BusCap = 1
    RawCap = 2
    Reserve = 1
    ChanCap = 1
    PendMax = 1
    MaxLost = 1
    MaxFaults = 1
    MaxLags = 2
    MaxAsks = 1
INVARIANTS GridIsWhole LatchHasAnswer ReplaysAreSeamless QuietPaneIsCurrent
PROPERTY Converges
CHECK_DEADLOCK FALSE
