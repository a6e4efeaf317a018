SPECIFICATION FairSpec
CONSTANTS
    Names <- BackupObjects
    Backends = {"local", "s3"}
    MaxChunks = 5
    PartSize = 2
    MaxParts = 2
    MaxFaults = 2
    MaxBackups = 1
    MaxArchives = 2
CHECK_DEADLOCK FALSE
INVARIANTS
    BaseBackupTypeOK
    MarkedIsWhole
    RestoredIsWhole
    UploadsAreJoined
PROPERTIES
    PutImplementsStore
    BackupReturns
