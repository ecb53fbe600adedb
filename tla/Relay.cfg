SPECIFICATION FairSpec
CONSTANTS
    Conns = {c1, c2}
    Clients = {k1, k2}
    BoxIds = {b1}
    IdOf <- MCOneBox
    Slots = 1
    None = None
INVARIANTS TypeOK ParkedHasClient EntryIsServed LatestIsFound WaitingIsServed StreamHasClient AnnouncedOnce
PROPERTY ClientSettles
CHECK_DEADLOCK FALSE
