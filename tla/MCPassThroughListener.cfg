SPECIFICATION Spec
CONSTANTS
    a = a
    b = b
    None = None
    Conn <- MCConn
    Stalled <- MCStalled
    ByName = TRUE
    MaxFault = 1
CHECK_DEADLOCK FALSE
INVARIANTS
    IInv
    CountMatchesHandlers
    ShutdownIsNoFailure
    OpenWhileHandled
PROPERTIES
    ShutdownWaits
    SocketCloses
    ShutdownEnds
    KeepsContract
