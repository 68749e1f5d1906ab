SPECIFICATION Spec
CONSTANTS
    k1 = k1
    k2 = k2
    k3 = k3
    k4 = k4
    Keys = {k1, k2, k3, k4}
    Values = {v1, v2, v3, v4, v5}
    Threads = {t1, t2}
    Hash <- Colliding
    InitSize = 2
    MaxSize = 8
    MaxNodes = 4
    NULL = NULL
    CacheSize = 3
INVARIANT NoFault
SYMMETRY ValueSymmetry
