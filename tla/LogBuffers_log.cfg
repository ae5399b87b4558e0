\* Two buffers of two records behind a file of three blocks: buffers are reused, the
\* queues wrap, the card falls behind, the file fills while blocks are still queued,
\* or a character or the silence ends the log before that.
SPECIFICATION Spec
CONSTANTS
    BufferBlockCount = 2
    DataDim = 2
    FileBlockCount = 3
    NumRequests = 2
    Uint16 = 4
    Uint32 = 8
    RxDepth = 2
    MaxArrivals = 10
    MaxKeys = 1
    MaxRequests = 0
INVARIANTS
    TypeOK
    EveryBufferOnce
    RecordsInOrder
    StoppedLogIsComplete
PROPERTIES
    SilenceCloseIsGenuine
    ImplementsLogStream
