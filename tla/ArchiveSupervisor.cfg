SPECIFICATION FairArchiveSpec
CONSTANTS
    WalSegSz = 2
    InitLSN = 3
    MaxLSN = 5
    MaxTLI = 1
    MaxChunk = 2
    MaxFaults = 1
    NoLoop = FALSE
    SlotExists = FALSE
    Faults = {"net", "kill"}
    MaxConcurrency = 2
    MaxPutFailures = 1
    TornPuts = TRUE
INVARIANTS
    ArchiveTypeOK
    NothingLostToUploads
PROPERTIES
    RemovedOnlyWhenArchived
    ArchiveImplementsLife
    CompleteIsArchived
