SPECIFICATION Spec
CONSTANTS
    a = a
    b = b
    None = None
    Conn <- MCConn
    Slow <- MCSlow
    ByName <- MCByName
    Config <- MCConfig
    Kind <- MCKind
    MaxFault = 1
CHECK_DEADLOCK FALSE
INVARIANTS
    IInv
    CleanExit
    StopIsNoFailure
PROPERTIES
    ContractKept
    AllServe
    StopEnds
