\* AnalogBinLogger: two pins, blocks of two samples, two buffers, a file of four blocks of data, and
\* intervals at the edges of what the converter and the timer can do.  LowLatencyLogger: blocks of two
\* records, two buffers, a file that is long enough for overruns and one that becomes full.
\* IntervalLogger: a recording that begins five steps before micros() wraps.
\* AnalogBinLogger stops in fatalBlink(), hence no check for deadlock.
SPECIFICATION SpecParts
CONSTANTS
    PinCount = 2
    SamplesPerBlock = 2
    BufferBlockCount = 1
    QueueDim = 4
    FileBlockCount = 5
    OverMax = 3
    Intervals = {100, 839, 840, 1319, 1320, 3200, 65535, 65536, 524287, 524288, 4194303, 4194304, 16777215, 16777216, 67108800, 67108863}
    CpuClock = 16000000
    MaxAdcClock = 1000000
    Word = 1073741824
    MaxTicks = 8
    MaxRecordings = 2
    DataDim = 2
    LongFile = 4
    ShortFile = 2
    LastName = 2
    FifoSize = 1
    MaxMessages = 7
    ShortMessages = 6
    MaxFiles = 2
    MaxFailures = 1
    Interval = 1
    TimeWord = 32
    FirstMicros = {27}
    TimedFile = 4
    TimedLast = 1
    MaxTimeSteps = 9
INVARIANTS
    TicksAreAccountedFor
    AcceptedRatesFit
    LogsAreKept
    ScheduleIsKept
CHECK_DEADLOCK FALSE
