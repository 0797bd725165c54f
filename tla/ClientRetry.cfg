\* A failed attempt is not repeated.
CONSTANTS
    NumSocks = 2
    NumLoops = 2
    Fds = {3, 4, 5}
    MaxConns = 4
SPECIFICATION Spec
INVARIANTS FailedClientsAreRetried
CHECK_DEADLOCK FALSE
