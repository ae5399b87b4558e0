\* The silence ends a log whose current block is not empty.
SPECIFICATION Spec
CONSTANTS
    BufferBlockCount = 1
    DataDim = 2
    FileBlockCount = 9
    NumRequests = 2
    Uint16 = 4
    Uint32 = 8
    RxDepth = 2
    MaxArrivals = 3
    MaxKeys = 0
    MaxRequests = 0
INVARIANTS
    ExitsWhenDone
