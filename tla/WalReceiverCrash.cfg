SPECIFICATION Spec
CONSTANTS
    WalSegSz = 2
    InitLSN = 3
    MaxLSN = 6
    MaxTLI = 2
    MaxChunk = 3
    MaxFaults = 2
    NoLoop = FALSE
    SlotExists = FALSE
    Faults = {"net", "power", "cancel", "recycle"}
INVARIANTS
    TypeOK
    AckedIsStored
    StartIsSane
    StartIsAvailable
    NextMessageFits
    FinalNameMeansFlushed
    IInv
    StartInv
