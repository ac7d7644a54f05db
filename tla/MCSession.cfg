CONSTANTS
    NumAddrs = 2
    ServerVersions <- MCServerVersions
    MaxPinRequests = 2
    MaxPinEntries = 3
    InitFailures <- MCInitFailuresSound
SPECIFICATION Spec
INVARIANT TypeOK TargetKnown CtrlJoinedBeforeQuit ResourcesBalanced RpVersionRoundTrip
PROPERTY StopLeadsToQuit ImplementsPhases PinForwardedToLiveCtrl
CHECK_DEADLOCK FALSE
