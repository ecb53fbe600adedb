SPECIFICATION FairSpec
CONSTANTS
    None = None
    MaxHead = 2
    MaxMoves = 5
    MaxFaults = 1
    MaxPauses = 1
    Attempts = {a1, a2}
INVARIANTS LandsWhatWasGreen InFlightHasAttempt RejectedStandsDown
PROPERTY ReadyIsSettled
