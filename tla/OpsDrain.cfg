CONSTANTS
    d1 = d1
    d2 = d2
    None = None
    Boot = Boot
    Tasks = {"issue"}
    Primary = "issue"
    Fields = {"assignees"}
    Members = {"alice"}
    Values <- MCValues
    WriteKind <- MCAbsolute
    Drivers = {d1}
    EarlyClients = FALSE
    MaxAttempts = 2
    SettleDeadline = 2
    BackoffUnit = 2
    MaxOps = 1
    MaxGen = 2
    MaxTime = 4
    MaxCrashes = 1
    MaxStoreFaults = 1
    MaxRefusals = 1
    MaxTimeouts = 1
    MaxEdits = 1
    MaxCancels = 0
    MaxAdds = 1
SPECIFICATION Spec
PROPERTIES
    LedgerDrains
    RowConverges
