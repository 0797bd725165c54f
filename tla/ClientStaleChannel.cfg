\* The channel of a failed attempt stays in the poller of the base loop.
CONSTANTS
    NumSocks = 2
    NumLoops = 2
    Fds = {3, 4, 5}
    MaxConns = 4
SPECIFICATION Spec
PROPERTIES ConnectFindsNoChannel
CHECK_DEADLOCK FALSE
