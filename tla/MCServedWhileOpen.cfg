SPECIFICATION Spec
CONSTANTS
    a = a
    b = b
    None = None
    Conn <- MCConn
    Stalled <- MCStalled
    ByName = TRUE
    MaxFault = 0
CHECK_DEADLOCK FALSE
INVARIANTS
    ServedWhileOpen
