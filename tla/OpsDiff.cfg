CONSTANTS
    d1 = d1
    d2 = d2
    None = None
    Boot = Boot
    Tasks = {"issue"}
    Primary = "issue"
    Fields = {"assignees"}
    Members = {"alice"}
    Values <- MCValues
    WriteKind <- MCDiff
    Drivers = {d1, d2}
    EarlyClients = FALSE
    MaxAttempts = 2
    SettleDeadline = 3
    BackoffUnit = 2
    MaxOps = 1
    MaxGen = 2
    MaxTime = 6
    MaxCrashes = 0
    MaxStoreFaults = 0
    MaxRefusals = 0
    MaxTimeouts = 0
    MaxEdits = 0
    MaxCancels = 0
    MaxAdds = 0
SPECIFICATION Spec
SYMMETRY Symmetry
INVARIANTS
    AckedWasExecuted
