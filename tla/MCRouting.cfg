SPECIFICATION Spec
CONSTANTS
    Host <- MCHost
    Pattern <- MCPattern
    Path <- MCPath
    Prefix <- MCPrefix
    Upstream <- AtRoot
    MaxRoutes = 3
INVARIANTS
    IInv
    BestRoute
    PassthroughKept
