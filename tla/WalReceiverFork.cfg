SPECIFICATION FairSpec
CONSTANTS
    WalSegSz = 2
    InitLSN = 3
    MaxLSN = 5
    MaxTLI = 2
    MaxChunk = 2
    MaxFaults = 1
    NoLoop = FALSE
    SlotExists = FALSE
    Faults = {"net"}
PROPERTY EventuallyAllAcked
