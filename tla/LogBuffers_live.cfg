\* The end of a log under the fairness of the loop and of the card alone; of the
\* traffic only where the property says so.
SPECIFICATION FairSpec
CONSTANTS
    BufferBlockCount = 1
    DataDim = 2
    FileBlockCount = 4
    NumRequests = 2
    Uint16 = 4
    Uint32 = 8
    RxDepth = 2
    MaxArrivals = 7
    MaxKeys = 1
    MaxRequests = 1
PROPERTIES
    CharacterStopsLog
    SilenceStopsLog
