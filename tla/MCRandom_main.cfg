SPECIFICATION Spec
CONSTANTS
    Keys = {k1, k2, k3, k4}
    Values = {v1, v2}
    Hash <- Colliding
    InitSize = 2
    MaxSize = 8
    MaxNodes = 4
    NULL = NULL
    CacheSize = 3
INVARIANT TableExact
