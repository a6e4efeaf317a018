SPECIFICATION Spec
CONSTANTS
    Callers = {cron, manual}
    RecoveryWindow = 3
    KeepLast = 2
    RetentionEnable = TRUE
    MaxBackups = 4
    MaxTime = 4
    MaxSeg = 1
    MaxTLI = 2
    MaxFaults = 1
    Faults = {"storage", "kill"}
SYMMETRY CallerSymmetry
INVARIANTS
    BackupTypeOK
    SingleRun
    BackupsAreRestorable
    WindowAnchored
    KeepsLast
