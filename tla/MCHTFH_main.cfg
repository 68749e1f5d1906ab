SPECIFICATION Spec
CONSTANTS
    ALIGN_SIZE_LOG2 = 2
    SL_INDEX_COUNT_LOG2 = 3
    FL_INDEX_MAX = 8
    SizeBits = 16
    Threads = {t1, t2}
    NoThread = NoThread
    PoolSizes = {20, 180}
    HeapSizes <- MCHeapSizes
    Sizes = {0, 20, 66}
    Counts = {2}
    Aligns = {8, 16}
INVARIANTS Tiled PrevFlagExact NoFreeNeighbours FreeIndexExact SearchExact HeldExact
PROPERTY ImplementsArena
SYMMETRY Symmetry
