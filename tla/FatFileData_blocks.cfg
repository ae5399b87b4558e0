\* The same file, of one or two clusters, without refused writes.
SPECIFICATION Spec
CONSTANTS
    LastCluster = 3
    BlocksPerCluster = 2
    BlockSize = 2
    WriteSizes = {1, 4}
    ReadSizes = {4}
    OtherFiles = {{}, {3}}
    MaxCalls = 4
    MaxRefused = 0
INVARIANT MultipleBlocksAreCoherent
CHECK_DEADLOCK FALSE
