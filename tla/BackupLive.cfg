SPECIFICATION FairSpec
CONSTANTS
    Callers = {cron, manual}
    RecoveryWindow = 1
    KeepLast = 1
    RetentionEnable = TRUE
    MaxBackups = 2
    MaxTime = 2
    MaxSeg = 1
    MaxTLI = 1
    MaxFaults = 2
    Faults = {"storage", "kill", "manifest"}
PROPERTIES
    SlotIsReleased
