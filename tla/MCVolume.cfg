\* Five clusters, with or without a root directory in the first, and two files of
\* up to four.  Cards at the limits of initSizes() and on both sides of them.  A table
\* of ten entries in blocks of eight bytes; paths of five characters.
SPECIFICATION SpecParts
CONSTANTS
    LastCluster = 6
    Files = {f1, f2}
    MaxCount = 4
    StandardCards = {12000, 12289, 30000, 32768, 32769, 65536, 65537, 131072, 131073, 262144, 262145, 2097152, 2097153, 4194304, 4194305, 8388608}
    HighCapacityCards = {100000, 2097152, 4194304, 4194305, 8388608, 15523840, 67108864, 67108865, 134000000, 134219776, 536870912, 1053000000, 2140000000}
    LargestErased = 1000000
    MaxFormats = 2
    MaxWipes = 1
    BlockSize = 8
    LastEntry = 9
    Links = {2, 5, 9}
    MaxPuts = 2
    Letters = {"a", "B", ".", " ", "+", "?"}
    MaxLength = 5
    BaseLength = 2
    ExtLength = 1
    PerEntry = 2
    Sizes = {5}
    StampFiles = {g1, g2}
    MaxStamps = 4
INVARIANTS
    VolumeIsInOrder
    LayoutFits
    VolumeStartsEmpty
    EntriesAreReadBack
PROPERTIES
    RoomIsFound
