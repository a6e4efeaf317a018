SPECIFICATION FairSpec
CONSTANTS
    WalSegSz = 2
    InitLSN = 3
    MaxLSN = 6
    MaxTLI = 2
    MaxChunk = 3
    MaxFaults = 2
    NoLoop = FALSE
    SlotExists = TRUE
    Faults = {"io", "walk", "reopen", "kill", "cancel", "net"}
INVARIANTS
    NothingLost
PROPERTIES
    NoSilentSkip
    EventuallyAllAckedOrAtFork
