CONSTANTS
    pr = pr
    issue = issue
    u = u
    v = v
    Tasks = {pr, issue}
    Fields = {"assignees"}
    Values <- MCValues
    MaxAttempts = 2
    SettleDeadline = 2
    BackoffUnit = 1
    MaxOps = 2
    MaxGen = 2
    MaxTime = 2
SPECIFICATION Spec
SYMMETRY Symmetry
INVARIANTS
    TypeOK
    ClaimsOrdered
    RowShowsOwner
    BaselineIsObserved
    RowIsAccountedFor
    AttemptsBounded
PROPERTIES
    StaleReadKeepsAckedWrite
