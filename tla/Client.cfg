\* The client pool: the bookkeeping of its threads, and its liveness.
CONSTANTS
    NumSocks = 2
    NumLoops = 2
    Fds = {3, 4, 5}
    MaxConns = 4
SPECIFICATION FairSpec
INVARIANTS TypeOK RemovalFindsItsEntry OneChannelPerFd FunctorMeetsItsState
PROPERTIES DestroyedAfterTeardown ImplementsLife ImplementsPool DisconnectedIsDestroyed QuitEndsProgram
CHECK_DEADLOCK FALSE
