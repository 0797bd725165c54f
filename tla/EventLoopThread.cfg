\* The start and the end of three io threads, each of which may be scheduled
\* before the members it uses are constructed.
CONSTANTS
    NumThreads = 3
SPECIFICATION FairSpec
INVARIANTS TypeOK PooledLoopsExist WaiterIsNotified
PROPERTIES PoolStarts QuitThreadIsJoined
CHECK_DEADLOCK FALSE
