SPECIFICATION Spec
CONSTANTS
    Host <- MCHost
    Pattern <- MCPattern
    Path <- MCPath
    Prefix <- MCPrefix
    Upstream <- AtRoot
    MaxRoutes = 2
INVARIANT NeverDecrypted
