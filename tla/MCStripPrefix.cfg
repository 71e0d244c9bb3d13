SPECIFICATION Spec
CONSTANTS
    Host <- MCHost
    Pattern <- MCPattern
    Path <- MCPath
    Prefix <- MCPrefix
    Upstream <- Below
    MaxRoutes = 2
INVARIANT PrefixStripped
