SPECIFICATION FairSpec
CONSTANTS
    Backends = {"local", "s3"}
    WriteExts <- FirstAndLast
    MaxStarts = 2
    MaxFaults = 1
CHECK_DEADLOCK FALSE
INVARIANTS
    DaemonTypeOK
    RunsAsConfigured
    CompletedIsAvailable
    CompletedIsServed
    FatalIsReturned
    ReceivingGoesOn
PROPERTIES
    DaemonStops
    DaemonImplementsLife
