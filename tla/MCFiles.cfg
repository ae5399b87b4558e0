\* A file of three or two clusters of two blocks of two units; a stream with a buffer of
\* four characters, two of them for ungetc() when it is read.
SPECIFICATION SpecParts
CONSTANTS
    LastCluster = 4
    BlocksPerCluster = 2
    BlockSize = 2
    WriteSizes = {1, 3, 5}
    ReadSizes = {1, 5}
    OtherFiles = {{}, {3}}
    MaxCalls = 5
    MaxRefused = 1
    BufSize = 4
    UngetSize = 2
    Byte = 8
    Modes = {"r", "w", "a", "r+", "w+", "a+"}
    Counts = {2, 5}
    Offsets = {0, 1}
    MaxStreamCalls = 6
INVARIANTS
    FileIsAsWritten
    FailuresAreContained
    StreamIsInOrder
CHECK_DEADLOCK FALSE
