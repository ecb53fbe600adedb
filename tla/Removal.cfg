SPECIFICATION Spec
CONSTANTS
    p = p
    i = i
    r1 = r1
    r2 = r2
    None = None
    Keys = {p, i}
    Closes <- MCCloses
    Removals = {r1, r2}
    Spawns = {s1}
    SpawnKeys = {i}
    MaxFaults = 1
VIEW MCView
SYMMETRY MCSymmetry
CONSTRAINT MCUnexcused
INVARIANTS NoTerminalWithoutRow MarkIsReleased StandingRowIsNotArchived
