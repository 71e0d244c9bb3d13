SPECIFICATION ServiceSpec
CONSTANTS
    api = api
    wild = wild
    Main = main
    None = None
    Torn = Torn
    Domain <- MCDomain
    WildcardOf <- MCWildcardOf
    Rank <- MCRank
    Lists <- MCLists
    Caller <- MCCaller
    Lifetime = 3
    RenewBefore = 2
    Interval = 1
    MaxDay = 5
    MaxCrash = 1
    MaxFault = 0
INVARIANTS
    ServedCertsAreRenewed
