SPECIFICATION Spec
CONSTANTS
    GCA_SBRK_ALIGN = 64
    SizeBits = 12
    HeapSizes = {60, 256}
    Sizes = {0, 25, 4095}
    Counts = {0, 2, 820}
    GrowSizes = {0, 10, 60, 100}
INVARIANTS Tiled Coalesced ListExact HeldExact
PROPERTIES ImplementsArena BreakNeeded
