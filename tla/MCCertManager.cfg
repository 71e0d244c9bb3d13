\* Two callers, overlapping lists, one crash, one failed write or bad bundle.
SPECIFICATION Spec
CONSTANTS
    api = api
    wild = wild
    apex = apex
    c1 = c1
    c2 = c2
    None = None
    Torn = Torn
    Domain <- MCDomain
    WildcardOf <- MCWildcardOf
    Rank <- MCRank
    Lists <- MCLists
    Caller <- MCCaller
    Lifetime = 3
    RenewBefore = 2
    MaxDay = 3
    MaxCrash = 1
    MaxFault = 1
SYMMETRY Callers
CONSTRAINT FewIssued
CHECK_DEADLOCK FALSE
INVARIANTS
    IInv
    MemoryMatchesCertificates
    PairsWhole
    RequestsSpaced
PROPERTIES
    IssueOnlyIfNeeded
    DurableBeforeServed
    NoDowngrade
