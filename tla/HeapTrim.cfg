SPECIFICATION HeapSpec
CONSTANTS
    PageUnits = 8
    GrowUnits = 8
    LargeUnits = 64
    Pages = {0, 1, 2, 3, 4}
    AllocSizes = {1, 18}
    Alignments = {8}
    MaxLive = 3
    MaxHeapSize = 40
INVARIANT SentinelsReachAreas
CHECK_DEADLOCK FALSE
