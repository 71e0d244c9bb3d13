SPECIFICATION ServiceSpec
CONSTANTS
    api = api
    wild = wild
    Main = main
    None = None
    Torn = Torn
    Domain <- MCDomain
    WildcardOf <- MCWildcardOf
    Rank <- MCRank
    Lists <- MCLists
    Caller <- MCCaller
    Lifetime = 6
    RenewBefore = 4
    Interval = 2
    MaxDay = 9
    MaxCrash = 1
    MaxFault = 1
INVARIANTS
    ServiceInv
    GraceHolds
    RestartFindsCertificates
PROPERTIES
    DiskSparesTheCA
    KeepsRenewing
