------------------------------- MODULE MCLoggers -------------------------------
(***************************************************************************)
(* The loggers before the present one, for TLC: a behaviour is one of      *)
(* AnalogBinLogger, of LowLatencyLogger with a long file or with a short   *)
(* one, or of IntervalLogger, with the others at rest.  The last two share *)
(* the variables that have the same name in both.                          *)
(***************************************************************************)
EXTENDS AnalogBinLogger

CONSTANTS
    DataDim, LongFile, ShortFile, LastName, FifoSize, MaxMessages, ShortMessages, MaxFiles, MaxFailures,
    Interval, TimeWord, FirstMicros, TimedFile, TimedLast, MaxTimeSteps

VARIABLES
    part,               \* what the behaviour is about
    place, binName, curBlock, empty, full, overrun, overrunTotal, count, closeFile, content,
    cardReady, typed,
    dir, tmp, fifo, arrived, late, files, log, mixed, failures,         \* LowLatencyLogger
    logTime, startMicros, delta, minDelta, used, tmpExists, micros, acquired, passes, ticks

ASSUME LoggerAssumption ==
    /\ {DataDim, LongFile, ShortFile, LastName, FifoSize, TimedFile} \subseteq Nat \ {0}
    /\ {MaxMessages, ShortMessages, TimedLast, MaxFiles, MaxFailures, MaxTimeSteps} \subseteq Nat
\* No recording lasts so long that two times in it are half of a word apart.
ASSUME TimeAssumption ==
    /\ Interval \in Nat \ {0} /\ FirstMicros \subseteq 0 .. TimeWord - 1
    /\ MaxTimeSteps + Interval < TimeWord \div 2

Can == INSTANCE LowLatencyLogger WITH pc <- place, FileBlockCount <- LongFile
Short == INSTANCE LowLatencyLogger WITH
    pc <- place, FileBlockCount <- ShortFile, MaxMessages <- ShortMessages
Timed == INSTANCE IntervalLogger WITH
    pc <- place, FileBlockCount <- TimedFile, Word <- TimeWord, LastName <- TimedLast,
    MaxTicks <- MaxTimeSteps

sharedVars == <<place, binName, curBlock, empty, full, overrun, overrunTotal, count, closeFile,
                content, cardReady, typed>>
canVars == <<dir, tmp, fifo, arrived, late, files, log, mixed, failures>>
timedVars == <<logTime, startMicros, delta, minDelta, used, tmpExists, micros, acquired, passes,
               ticks>>
allVars == <<vars, sharedVars, canVars, timedVars, part>>

InitParts ==
    /\ Init
    /\ \/ /\ part \in {"analog", "long", "short"} /\ Can!Init
          /\ logTime = 0 /\ startMicros = 0 /\ delta = 0 /\ minDelta = 0 /\ used = 0
          /\ tmpExists = FALSE /\ micros = 0 /\ acquired = <<>> /\ passes = 0 /\ ticks = 0
       \/ /\ part = "timed" /\ Timed!Init
          /\ dir = 0 /\ tmp = 0 /\ fifo = <<>> /\ arrived = 0 /\ late = FALSE
          /\ files = 0 /\ log = <<>> /\ mixed = {} /\ failures = 0

OfAnalog(A) == part = "analog" /\ A /\ UNCHANGED <<sharedVars, canVars, timedVars, part>>
OfCan(p, A) == part = p /\ A /\ UNCHANGED <<vars, timedVars, part>>
OfTimed(A) == part = "timed" /\ A /\ UNCHANGED <<vars, canVars, part>>

NextParts ==
    \/ OfAnalog(Next) \/ OfCan("long", Can!Next) \/ OfCan("short", Short!Next)
    \/ OfTimed(Timed!Next)
SpecParts == InitParts /\ [][NextParts]_allVars

\* Every log of LowLatencyLogger that has its name is as it was taken, and says so.
LogsAreKept == (part = "long" => Can!LogsAreKept) /\ (part = "short" => Short!LogsAreKept)

\* IntervalLogger's lines tell when their records were due, and no record is late.
ScheduleIsKept == part = "timed" => Timed!ScheduleIsKept
=============================================================================
