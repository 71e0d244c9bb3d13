SPECIFICATION Spec
CONSTANTS
    staging = staging
    production = production
    None = None
    Config <- MCConfig
    Dir <- MCDir
    Class <- MCClass
    MaxCrash = 2
    MaxFault = 2
INVARIANTS
    IInv
    NoOrphan
    AccountWorks
    AcceptedStarts
    ACMECovered
PROPERTIES
    StartsAgain
