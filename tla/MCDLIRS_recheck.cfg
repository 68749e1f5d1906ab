CONSTANTS
    Keys = {0, 1, 2, 3}
    Gens = {1, 2}
    CacheSize = 3
    HirsPercent = 1
    SIZE_MAX = 24
    Recheck = TRUE
    Hash <- Colliding
    HtSize = 2
    NULL = NULL
SPECIFICATION FairSpec
CONSTRAINT UntilTwice
INVARIANTS CountersExact StackExact GetAnswersContains NoFatal
PROPERTIES ImplementsBoundedCache CallsEnd
