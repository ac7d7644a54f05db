CONSTANTS
    NumAddrs = 1
    ServerVersions <- MCServerVersions
    MaxPinRequests = 1
    MaxPinEntries = 1
    InitFailures = {}
    ControllerStates <- MCControllerStates
SPECIFICATION LatchSpec
INVARIANT FeedbackCurrent
CHECK_DEADLOCK FALSE
