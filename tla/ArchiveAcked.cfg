SPECIFICATION ArchiveSpec
CONSTANTS
    WalSegSz = 2
    InitLSN = 3
    MaxLSN = 5
    MaxTLI = 1
    MaxChunk = 2
    MaxFaults = 0
    NoLoop = FALSE
    SlotExists = FALSE
    Faults = {}
    MaxConcurrency = 1
    MaxPutFailures = 0
    TornPuts = TRUE
INVARIANTS
    AckedIsStoredOrArchived
