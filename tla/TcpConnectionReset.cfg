\* A write after a reset whose error is EPIPE or was fetched raises SIGPIPE.
CONSTANTS
    RequestLen = 2
    ReadMax = 2
    SendSpace = 3
    PeerBytes = 3
SPECIFICATION Spec
INVARIANTS SurvivesReset
CHECK_DEADLOCK FALSE
