CONSTANTS
    Keys = {a, b, c, d, e}
    Gens = {1, 2}
    CacheSize = 2
    HirsPercent = 1
    SIZE_MAX = 16
    Recheck = TRUE
    Hash <- Colliding
    HtSize = 4
    NULL = NULL
SPECIFICATION Spec
SYMMETRY KeySymmetry
INVARIANT NoUseAfterFree
