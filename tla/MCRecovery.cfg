\* A file of nine blocks, so that halves are odd and even, cut off in every state that
\* logData() can leave it in; and six entries of a directory, in blocks of two, for a
\* short name and two long ones; and directories with two entries each, on a volume of three
\* clusters, so that one directory can be renamed into another and the volume gets full.
SPECIFICATION SpecParts
CONSTANTS
    FileBlockCount = 9
    ShortNames = {100}
    LongNames = {2, 3}
    BlockEntries = 2
    MaxClusters = 3
    MaxSeq = 3
    EntryNames = {na, nb}
    Clusters = {2, 3, 4}
    Room = 2
    MaxPath = 2
    MaxCalls = 4
SYMMETRY NameSymmetry
INVARIANTS
    KeepsAllButTheLast
    NamesAreKept
    TreeIsKept
PROPERTIES
    ResultIsForeseen
    ProbeNarrows
