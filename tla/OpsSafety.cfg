CONSTANTS
    d1 = d1
    d2 = d2
    None = None
    Boot = Boot
    Tasks = {"issue"}
    Primary = "issue"
    Fields = {"assignees"}
    Members = {"alice"}
    Values <- MCValues
    WriteKind <- MCAbsolute
    Drivers = {d1, d2}
    EarlyClients = FALSE
    MaxAttempts = 2
    SettleDeadline = 3
    BackoffUnit = 2
    MaxOps = 2
    MaxGen = 2
    MaxTime = 5
    MaxCrashes = 1
    MaxStoreFaults = 0
    MaxRefusals = 1
    MaxTimeouts = 0
    MaxEdits = 1
    MaxCancels = 1
    MaxAdds = 0
SPECIFICATION Spec
SYMMETRY Symmetry
INVARIANTS
    NeverReplayedBlind
    AckedWasExecuted
PROPERTIES
    ImplementsLedger
    AckedSettledWasSeen
