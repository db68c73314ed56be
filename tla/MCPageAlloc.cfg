SPECIFICATION KmSpec
CONSTANTS
    NPages = 14
    Align = 2
    Counts = {1, 2, 3, 5}
    W = 4
    PoolWords = 21
    SLLog = 1
    FLMax = 5
    Sizes = {0, 2, 4, 8}
    Aligns = {4}
    HeapCnt = 2
INVARIANTS
    Exclusive
    MapIsBlocks
    HeapSound
PROPERTIES
    PoolSpec
    HeapPromise
