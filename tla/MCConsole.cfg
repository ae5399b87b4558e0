\* Three things typed in two logs of two blocks, four rates; a second of six ticks, of
\* which millis() sees three.  Texts of four characters, two calls; two items.
SPECIFICATION FairParts
CONSTANTS
    MaxTyped = 3
    MaxLogs = 2
    MaxBlocks = 2
    NumBaudRates = 4
    High = 17000
    Low = 12345
    HighTens = 100000
    LowTens = 100000
    DefaultTime = 1357041600
    Second = 6
    Milli = 2
    MaxTicks = 24
    MaxSets = 1
    HostTimes = {2, 7}
    Numbers <- Sample
    AvrLimit = 42000000
    Places = 6
    Precisions = {0, 1, 2}
    MaxDigits = 4
    FracLimit = 429
    TextLength = 4
    Limits = {2}
    MaxReads = 2
    Widths = {0, 7}
    MaxItems = 2
    BufferSize = 12
INVARIANTS
    TypedIsNotStale
    StampIsRight
    DigitsAreRight
    FloatsAreReadBack
    TextIsReadBack
PROPERTIES
    BaudRateIsFound
CHECK_DEADLOCK FALSE
