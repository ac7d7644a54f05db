CONSTANTS
    NumAddrs = 2
    ServerVersions <- MCServerVersions
    MaxPinRequests = 2
    MaxPinEntries = 3
    InitFailures <- MCInitFailuresAll
SPECIFICATION Spec
INVARIANT ResourcesBalanced
CHECK_DEADLOCK FALSE
