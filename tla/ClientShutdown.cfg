\* Connections are destroyed while connected at the end of main().
CONSTANTS
    NumSocks = 2
    NumLoops = 2
    Fds = {3, 4, 5}
    MaxConns = 4
SPECIFICATION Spec
INVARIANTS DestroyedDisconnected
CHECK_DEADLOCK FALSE
