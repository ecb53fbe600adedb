SPECIFICATION Spec
CONSTANTS
    p = p
    i = i
    r1 = r1
    r2 = r2
    None = None
    Keys = {p, i}
    Closes <- MCCloses
    Removals = {r1, r2}
    Spawns = {}
    SpawnKeys = {p}
    MaxFaults = 0
SYMMETRY MCSymmetry
INVARIANT NoTombstoneIsStranded
CHECK_DEADLOCK FALSE
