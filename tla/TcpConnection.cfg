\* One connection against a server that does anything at any time.
CONSTANTS
    RequestLen = 2
    ReadMax = 2
    SendSpace = 3
    PeerBytes = 3
SPECIFICATION FairSpec
INVARIANTS TypeOK WriteInterestIffOutput BytesAccounted CloseReportedOnce
PROPERTIES CloseHasCause SilentAfterClose ImplementsLife PeerCloseIsNoticed OutputIsFlushed
CHECK_DEADLOCK FALSE
