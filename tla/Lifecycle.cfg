SPECIFICATION FairSpec
CONSTANTS
    None = None
    Hooks = {h1}
    Streak = 2
    MaxWire = 1
    MaxSubmits = 1
    MaxUpsets = 1
INVARIANT DiskIsShown
PROPERTIES ExitIsFinal DialogIsKept RestIsSettled AskIsShown
CHECK_DEADLOCK FALSE
