SPECIFICATION Spec
CONSTANTS
    Backends = {"sftp"}
    WriteExts <- FirstAndLast
    MaxStarts = 1
    MaxFaults = 0
CHECK_DEADLOCK FALSE
INVARIANT AcceptedIsUsable
