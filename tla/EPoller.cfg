\* Two clients; descriptors are reused after failures and closes.
CONSTANTS
    IoPollers = {"io1", "io2"}
    Fds = {3, 4, 5}
    NumSocks = 2
    MaxChannels = 6
    None = None
SPECIFICATION Spec
INVARIANTS TypeOK KernelAgrees ActiveChannelsLive
PROPERTIES ImplementsLife
CHECK_DEADLOCK FALSE
