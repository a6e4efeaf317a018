SPECIFICATION Spec
CONSTANTS
    WalSegSz = 2
    InitLSN = 3
    MaxLSN = 6
    MaxTLI = 2
    MaxChunk = 3
    MaxFaults = 2
    NoLoop = FALSE
    SlotExists = FALSE
    Faults = {"overlap"}
INVARIANT AckedIsStored
