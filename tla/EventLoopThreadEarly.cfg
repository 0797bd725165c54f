\* A thread that is scheduled too early.
CONSTANTS
    NumThreads = 2
SPECIFICATION FairSpec
PROPERTIES PoolAlwaysStarts
CHECK_DEADLOCK FALSE
