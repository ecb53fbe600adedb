SPECIFICATION FairSpec
CONSTANTS
    a1 = a1
    b1 = b1
    BoxA = BoxA
    BoxB = BoxB
    Boxes = {BoxA, BoxB}
    Holders = {a1, b1}
    Host <- MCHost
    TTL = 2
    MaxComments = 3
    Faulty = {BoxA}
    MaxFaults = 1
    None = None
INVARIANT ClaimHasRecord
PROPERTY LabelSettles
