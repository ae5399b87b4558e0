---------------------------- MODULE RecordClock ----------------------------
(***************************************************************************)
(* The time of a record.  Its seconds are those of the Time library's      *)
(* software clock, which now() advances by millis() and sets from the RTC  *)
(* once a second; its fraction is a counter of microseconds that the       *)
(* function reading the RTC puts back to 0.  A message from the host may   *)
(* set the RTC and the software clock, and not the counter.                *)
(***************************************************************************)
EXTENDS Integers

CONSTANTS
    Second,         \* ticks of a second
    Milli,          \* ticks of what millis() counts
    MaxTicks,       \* bound: ticks of a behaviour
    MaxSets,        \* bound: times the clock is set
    HostTimes       \* seconds the host may send

ASSUME TickAssumption ==
    Second \in Nat /\ Milli \in Nat \ {0} /\ Second % Milli = 0 /\ Second > Milli
ASSUME ClockBoundAssumption == MaxTicks \in Nat /\ MaxSets \in Nat /\ HostTimes \subseteq Nat

VARIABLES
    ticks,          \* time since the board was powered
    rtcAhead,       \* ticks the RTC is ahead of that
    sysTime, prevMillis, nextSyncTime,  \* the Time library
    counted,        \* microsecondsPerSecond is 0 at this tick
    timeStamp,      \* seconds of the record being acquired, or None
    usec            \* and its fraction, or None

VARIABLES
    setAt,          \* observation only: tick at which the clock was set last
    sets            \* counter of the bound

clockVars == <<ticks, rtcAhead, sysTime, prevMillis, nextSyncTime, counted, timeStamp, usec,
               setAt, sets>>
None == -1
Late == -2

DefaultInterval == 3
SyncInterval == 1

RTC == (ticks + rtcAhead) \div Second
millis == ticks \div Milli
microsecondsPerSecond == ticks - counted

setTime(t) ==
    /\ sysTime' = t /\ prevMillis' = millis /\ nextSyncTime' = t + SyncInterval

\* What now() returns before it looks at the RTC.
Advanced == sysTime + (millis - prevMillis) \div (Second \div Milli)

\* The sync provider reads the RTC, and starts the counter again.
ResetCounter == counted' = ticks
getTeensy3Time == ResetCounter /\ setTime(RTC)

SyncDue == nextSyncTime <= Advanced
now ==
    IF SyncDue
      THEN getTeensy3Time
      ELSE /\ sysTime' = Advanced
           /\ prevMillis' = prevMillis + (Advanced - sysTime) * (Second \div Milli)
           /\ UNCHANGED <<nextSyncTime, counted>>

\* setSyncProvider() and setSyncInterval(1) in setup().
InitClock ==
    /\ ticks = 0 /\ rtcAhead \in 0 .. Second - 1
    /\ sysTime = RTC /\ prevMillis = 0 /\ nextSyncTime = sysTime + SyncInterval
    /\ counted = 0
    /\ timeStamp = None /\ usec = None
    /\ setAt = 0 /\ sets = 0

\* acquireCANData(): the seconds first, then the fraction.
AcquireSeconds ==
    /\ timeStamp = None
    /\ now
    /\ timeStamp' = sysTime'
    /\ UNCHANGED <<ticks, rtcAhead, usec, setAt, sets>>

AcquireFraction ==
    /\ timeStamp # None /\ usec \in {None, Late}
    /\ usec' = microsecondsPerSecond
    /\ UNCHANGED <<ticks, rtcAhead, sysTime, prevMillis, nextSyncTime, counted, timeStamp,
                   setAt, sets>>

\* The record is in its block.
Acquired ==
    /\ usec \notin {None, Late}
    /\ timeStamp' = None /\ usec' = None
    /\ UNCHANGED <<ticks, rtcAhead, sysTime, prevMillis, nextSyncTime, counted, setAt, sets>>

\* processSetTimeUtility() while a message is waited for: the time is displayed, and
\* set when the host sends one.
Display ==
    /\ timeStamp = None /\ now
    /\ UNCHANGED <<ticks, rtcAhead, timeStamp, usec, setAt, sets>>

SetClock ==
    /\ timeStamp = None /\ sets < MaxSets
    /\ \E t \in HostTimes : rtcAhead' = t * Second - ticks /\ setTime(t)
    /\ setAt' = ticks /\ sets' = sets + 1
    /\ UNCHANGED <<ticks, counted, timeStamp, usec>>

\* At most a tick passes between the two readings of a record.
Tick ==
    /\ ticks < MaxTicks /\ usec = None
    /\ ticks' = ticks + 1
    /\ usec' = IF timeStamp = None THEN None ELSE Late
    /\ UNCHANGED <<rtcAhead, sysTime, prevMillis, nextSyncTime, counted, timeStamp, setAt, sets>>

NextClock ==
    AcquireSeconds \/ AcquireFraction \/ Acquired \/ Display \/ SetClock \/ Tick

SpecClock == InitClock /\ [][NextClock]_clockVars

-----------------------------------------------------------------------------
(* Properties *)

ClockTypeOK ==
    /\ ticks \in 0 .. MaxTicks /\ rtcAhead \in Int
    /\ sysTime \in Nat /\ prevMillis \in 0 .. millis /\ nextSyncTime \in Nat
    /\ nextSyncTime - sysTime \in 1 .. SyncInterval
    /\ counted \in 0 .. ticks
    /\ timeStamp \in Nat \cup {None} /\ usec \in Nat \cup {None, Late}
    /\ setAt \in 0 .. ticks /\ sets \in 0 .. MaxSets

\* A record read completely, a second or more after the clock was set by the host.
Complete ==
    /\ usec \notin {None, Late}
    /\ sets > 0 => ticks > setAt + Second

\* The counter of microseconds starts when the RTC is read and not when its second
\* begins: the time of a record is late for it, but by less than a second, and it is
\* never ahead of the RTC, however long no record has come.  What the host sets
\* without the counter is repaired by the first record a second later.
StampIsClose ==
    Complete =>
        LET stamp == timeStamp * Second + usec
            now_ == ticks + rtcAhead
        IN  stamp <= now_ /\ now_ < stamp + Second

\* The fraction of a record, which is printed in six digits behind the point, is a
\* second at most: and that only when the second ended between its two readings.
FractionFits == Complete => usec <= Second

\* A record's time is less than a second late for the RTC and never ahead of it, and
\* its fraction is a second at most, however its two readings fall between the ticks.
StampIsRight == ClockTypeOK /\ StampIsClose /\ FractionFits
=============================================================================
