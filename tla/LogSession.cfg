\* Three files of five blocks, two power failures, eight names of which the last
\* is never given.
SPECIFICATION FairSpec
CONSTANTS
    FileBlockCount = 5
    EraseSize = 2
    Radix = 2
    MaxFiles = 3
    MaxFailures = 2
INVARIANTS
    LogsAreFound
PROPERTIES
    LogsStay
    ComesUp
