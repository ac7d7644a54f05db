CONSTANTS
    NumAddrs = 2
    ServerVersions <- MCServerVersions
    MaxPinRequests = 2
    MaxPinEntries = 3
    InitFailures <- MCInitFailuresSound
SPECIFICATION Spec
INVARIANT QuitReasonAssigned
CHECK_DEADLOCK FALSE
