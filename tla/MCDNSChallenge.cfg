SPECIFICATION Spec
CONSTANTS
    apex = apex
    wild = wild
    other = other
    plain = plain
    None = None
    Authz <- MCAuthz
    NameOf <- MCNameOf
    Fixed <- MCFixed
    MaxGen = 1
    MaxCrash = 1
    MaxFault = 1
CHECK_DEADLOCK FALSE
INVARIANTS
    IInv
    NoDuplicate
    NothingLeft
    FailsOnlyByFault
PROPERTIES
    AllValidInTheEnd
