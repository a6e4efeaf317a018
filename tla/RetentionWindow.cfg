SPECIFICATION Spec
CONSTANTS
    Callers = {cron, manual}
    RecoveryWindow = 1
    KeepLast = 1
    RetentionEnable = TRUE
    MaxBackups = 3
    MaxTime = 4
    MaxSeg = 1
    MaxTLI = 1
    MaxFaults = 0
    Faults = {}
INVARIANT
    RecoverableToAnyPoint
