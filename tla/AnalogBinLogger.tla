--------------------------- MODULE AnalogBinLogger ---------------------------
(***************************************************************************)
(* SdFat's example AnalogBinLogger, from which the loggers of this         *)
(* repository descend: a timer triggers the conversion of the first pin of *)
(* a sample, an interrupt of the converter stores each value and starts    *)
(* the conversion of the next pin, and the main loop writes the blocks     *)
(* that the interrupt has filled.  The two share the block queues without  *)
(* a lock: the interrupt owns emptyTail and fullHead, the loop emptyHead   *)
(* and fullTail.                                                           *)
(*                                                                         *)
(* Interrupts come between any two steps of the loop; the timer's goes     *)
(* before the converter's when both are due.  The timer's is assumed to    *)
(* run before the next tick, for which adcInit() leaves room.              *)
(***************************************************************************)
EXTENDS Integers, SequencesExt

CONSTANTS
    PinCount,           \* PIN_COUNT
    SamplesPerBlock,    \* SAMPLES_PER_BLOCK
    BufferBlockCount,   \* BUFFER_BLOCK_COUNT: buffers besides SdFat's own
    QueueDim,           \* QUEUE_DIM
    FileBlockCount,     \* FILE_BLOCK_COUNT, the block of metadata included
    OverMax,            \* 0XFFFF, or a small stand-in
    Intervals,          \* F_CPU*SAMPLE_INTERVAL + 0.5: CPU cycles between two samples
    CpuClock,           \* F_CPU
    MaxAdcClock,        \* 1000000: the fastest ADC clock for ten bits
    Word,               \* 2^32, or a smaller power of two far above every interval
    MaxTicks,           \* bound: ticks of the timer in one recording
    MaxRecordings       \* bound: recordings

ASSUME SizesAssumption ==
    /\ {PinCount, SamplesPerBlock, BufferBlockCount, OverMax} \subseteq Nat \ {0}
    /\ FileBlockCount \in Nat \ {0, 1}
    /\ QueueDim > BufferBlockCount + 1
ASSUME IntervalAssumption == Intervals \subseteq 1 .. Word - 256
ASSUME BoundsAssumption == MaxTicks \in Nat /\ MaxRecordings \in Nat

\* Buffer 0 is SdFat's cache block, buffer i > 0 is block[i - 1].
Buffers == 0 .. BufferBlockCount
NoBuffer == -1
Slots == 0 .. QueueDim - 1
Pins == 0 .. PinCount - 1
Dim == PinCount * SamplesPerBlock

\* A value is known by its sample, the tick that triggered it, and its pin; what a
\* buffer holds when a recording begins is of no sample.
Garbage == [tick |-> 0, pin |-> 0]
Unused == [overrun |-> 0, data |-> <<>>]
Leftovers == {Unused, [overrun |-> 0, data |-> [i \in 1 .. PinCount |-> Garbage]]}

NotSet == [interval |-> 0, adps |-> 0, tshift |-> 0]

VARIABLES
    pc, pBlock,
    meta,               \* what adcInit() has chosen, until the loop begins
    block,              \* count, overrun and data of every buffer
    emptyQueue, emptyHead, emptyTail,
    fullQueue, fullHead, fullTail,
    isrBuf, isrBufNeeded, isrOver, adcindex,
    timerError, timerFlag,
    \* the hardware
    adc,                \* the converter: "off", "armed" for a tick, "converting", in its "isr"
    pin,                \* the pin selected
    tickDue,            \* OCF1B: the timer's interrupt is due
    serial,             \* Serial.available()
    card,               \* the blocks of data written
    \* observation only
    tick,               \* ticks so far
    sample,             \* the tick that triggered the present sample
    recordings

loopVars == <<pc, pBlock, meta>>
queueVars == <<emptyQueue, emptyHead, emptyTail, fullQueue, fullHead, fullTail>>
isrVars == <<isrBuf, isrBufNeeded, isrOver, adcindex>>
timerVars == <<timerError, timerFlag, tickDue, tick>>
adcVars == <<adc, pin, sample>>
vars == <<loopVars, block, queueVars, isrVars, timerVars, adcVars, serial, card, recordings>>

queueNext(ht) == (ht + 1) % QueueDim

Init ==
    /\ pc = "idle" /\ pBlock = NoBuffer /\ meta = NotSet
    /\ block = [b \in Buffers |-> Unused]
    /\ emptyQueue = [i \in Slots |-> NoBuffer] /\ emptyHead = 0 /\ emptyTail = 0
    /\ fullQueue = [i \in Slots |-> NoBuffer] /\ fullHead = 0 /\ fullTail = 0
    /\ isrBuf = NoBuffer /\ isrBufNeeded = TRUE /\ isrOver = 0 /\ adcindex = 1
    /\ timerError = FALSE /\ timerFlag = FALSE /\ tickDue = FALSE /\ tick = 0
    /\ adc = "off" /\ pin = 0 /\ sample = 0
    /\ serial = FALSE /\ card = <<>> /\ recordings = 0

-----------------------------------------------------------------------------
(* adcInit(): the slowest ADC clock with which a sample fits into an       *)
(* interval, in unsigned arithmetic, and the timer's prescaler.            *)
IsrTimer0 == 160
IsrSetupAdc == IF PinCount > 1 THEN 100 ELSE 0
MinAdcCycles == 15

Signed(n) == IF n >= Word \div 2 THEN n - Word ELSE n
CyclesLeft(t) == ((t - IsrTimer0) % Word) \div PinCount
AdcCyclesNoSetup(t) == Signed(CyclesLeft(t))
AdcCycles(t) == Signed((CyclesLeft(t) - IsrSetupAdc) % Word)

Prescaler(t) ==
    LET fit == {a \in 1 .. 7 : AdcCycles(t) >= MinAdcCycles * 2 ^ a}
    IN  IF fit = {} THEN 0 ELSE CHOOSE a \in fit : \A b \in fit : b <= a

Rounded(t, adps) == ((t + 2 ^ (adps - 1)) \div 2 ^ adps) * 2 ^ adps

\* The prescalers of the timer, as shifts, and the one whose counter of 16 bits the
\* interval fits into.
TimerShifts == {0, 3, 6, 8, 10}
TimerFits(t, shift) == t < 2 ^ (16 + shift)
TooHigh(t) == CpuClock \div 2 ^ Prescaler(t) > MaxAdcClock
TooSlow(t) == \A shift \in TimerShifts : ~TimerFits(Rounded(t, Prescaler(t)), shift)
TimerShift(t) ==
    CHOOSE shift \in TimerShifts :
        /\ TimerFits(t, shift)
        /\ \A s \in TimerShifts : TimerFits(t, s) => shift <= s

AdcInit(t) ==
    LET rounded == Rounded(t, Prescaler(t))
    IN  [interval |-> t, adps |-> Prescaler(t), tshift |-> TimerShift(rounded)]

-----------------------------------------------------------------------------
(* The main loop. *)

\* loop() has read what was typed, and 'r' was.
Record ==
    /\ pc \in {"idle", "closed"} /\ recordings < MaxRecordings
    /\ recordings' = recordings + 1
    /\ serial' = FALSE /\ card' = <<>>
    /\ \E t \in Intervals :
         IF TooHigh(t) \/ TooSlow(t)
           THEN pc' = "fatal" /\ UNCHANGED meta
           ELSE pc' = "file" /\ meta' = AdcInit(t)
    /\ UNCHANGED <<pBlock, block, queueVars, isrVars, timerVars, adcVars>>

adcStart ==
    /\ isrBufNeeded' = TRUE /\ isrOver' = 0 /\ adcindex' = 1
    /\ timerError' = FALSE /\ timerFlag' = FALSE /\ tickDue' = FALSE /\ tick' = 0
    /\ adc' = "armed" /\ pin' = 0
    /\ UNCHANGED <<isrBuf, sample>>

\* The file is created and erased and the metadata written, which takes long enough
\* for a character to be typed; the queues are filled, and adcStart() starts the
\* interrupts.  It leaves isrBuf as it is.
StartLogging ==
    /\ pc = "file"
    /\ pc' = "loop" /\ meta' = NotSet
    /\ serial' \in BOOLEAN
    /\ block' \in [Buffers -> Leftovers]
    /\ emptyQueue' = [i \in Slots |-> IF i \in Buffers THEN i ELSE emptyQueue[i]]
    /\ emptyHead' = BufferBlockCount + 1 /\ emptyTail' = 0
    /\ fullHead' = 0 /\ fullTail' = 0
    /\ adcStart
    /\ UNCHANGED <<pBlock, fullQueue, card, recordings>>

StartFails ==
    /\ pc = "file"
    /\ pc' = "fatal" /\ meta' = NotSet
    /\ UNCHANGED <<pBlock, block, queueVars, isrVars, timerVars, adcVars, serial, card,
                   recordings>>

Goto(label) ==
    /\ pc' = label
    /\ UNCHANGED <<meta, block, isrVars, timerVars, adcVars, serial, recordings>>

TakeFull ==
    /\ pc = "loop"
    /\ IF fullHead # fullTail
         THEN pBlock' = fullQueue[fullTail] /\ Goto("write")
         ELSE UNCHANGED pBlock /\ Goto("check")
    /\ UNCHANGED <<queueVars, card>>

\* writeData() goes on for as long as the card takes.
WriteBlock ==
    /\ pc = "write"
    /\ \/ card' = Append(card, block[pBlock]) /\ Goto("recycle")
       \/ Goto("fatal") /\ UNCHANGED card
    /\ UNCHANGED <<pBlock, queueVars>>

Recycle ==
    /\ pc = "recycle"
    /\ emptyQueue' = [emptyQueue EXCEPT ![emptyHead] = pBlock]
    /\ Goto("publish")
    /\ UNCHANGED <<pBlock, emptyHead, emptyTail, fullQueue, fullHead, fullTail, card>>

adcStop == adc' = "off" /\ tickDue' = FALSE

\* The buffer is the interrupt's from the store to emptyHead on.
FileFull == Len(card) + 1 = FileBlockCount
Publish ==
    /\ pc = "publish"
    /\ emptyHead' = queueNext(emptyHead)
    /\ fullTail' = queueNext(fullTail)
    /\ IF FileFull
         THEN pc' = "close" /\ adcStop
         ELSE pc' = "check" /\ UNCHANGED <<adc, tickDue>>
    /\ UNCHANGED <<pBlock, meta, block, emptyQueue, emptyTail, fullQueue, fullHead, isrVars,
                   timerError, timerFlag, tick, pin, sample, serial, card, recordings>>

CheckTimer ==
    /\ pc = "check"
    /\ Goto(IF timerError THEN "fatal" ELSE "serial")
    /\ UNCHANGED <<pBlock, queueVars, card>>

\* The character that stops the recording is not read: the next passes come here
\* again, until the queue is empty.
AllValues(data) == data
CompleteSamples(data) == SubSeq(data, 1, PinCount * (Len(data) \div PinCount))

NotStopped ==
    /\ pc = "serial" /\ ~serial
    /\ Goto("loop")
    /\ UNCHANGED <<pBlock, queueVars, card>>

StopRecording ==
    /\ pc = "serial" /\ serial
    /\ adcStop
    /\ IF isrBuf # NoBuffer /\ Len(block[isrBuf].data) >= PinCount
         THEN /\ block' = [block EXCEPT ![isrBuf].data = CompleteSamples(@)]
              /\ fullQueue' = [fullQueue EXCEPT ![fullHead] = isrBuf]
              /\ fullHead' = queueNext(fullHead)
              /\ isrBuf' = NoBuffer
         ELSE UNCHANGED <<block, fullQueue, fullHead, isrBuf>>
    /\ pc' = IF fullHead' = fullTail THEN "close" ELSE "loop"
    /\ UNCHANGED <<pBlock, meta, emptyQueue, emptyHead, emptyTail, fullTail, isrBufNeeded,
                   isrOver, adcindex, timerError, timerFlag, tick, pin, sample, serial, card,
                   recordings>>

\* writeStop(), truncate() unless the file is full, and rename().
CloseFile ==
    /\ pc = "close"
    /\ Goto("closed") \/ Goto("fatal")
    /\ UNCHANGED <<pBlock, queueVars, card>>

-----------------------------------------------------------------------------
(* Interrupts.  After a fatal error they go on, and nobody looks.          *)
Running == adc # "off" /\ pc # "fatal"

\* A tick triggers a conversion only if the converter waits for it.
Tick ==
    /\ Running /\ tick < MaxTicks /\ ~tickDue
    /\ tick' = tick + 1 /\ tickDue' = TRUE
    /\ IF adc = "armed"
         THEN adc' = "converting" /\ sample' = tick + 1
         ELSE UNCHANGED <<adc, sample>>
    /\ UNCHANGED <<loopVars, block, queueVars, isrVars, timerError, timerFlag, pin, serial,
                   card, recordings>>

TimerIsr ==
    /\ Running /\ tickDue /\ adc # "isr"
    /\ tickDue' = FALSE
    /\ timerError' = (timerError \/ timerFlag)
    /\ timerFlag' = TRUE
    /\ UNCHANGED <<loopVars, block, queueVars, isrVars, tick, adcVars, serial, card,
                   recordings>>

ConversionDone ==
    /\ Running /\ adc = "converting" /\ ~tickDue
    /\ adc' = "isr"
    /\ UNCHANGED <<loopVars, block, queueVars, isrVars, timerVars, pin, sample, serial, card,
                   recordings>>

\* The converter waits for a tick if the first pin is selected, and only then.
NoRoom == isrBufNeeded /\ emptyHead = emptyTail
CountOverrun ==
    /\ Running /\ adc = "isr" /\ NoRoom
    /\ isrOver' = IF isrOver < OverMax THEN isrOver + 1 ELSE isrOver
    /\ timerFlag' = FALSE
    /\ adc' = IF pin = 0 THEN "armed" ELSE "stuck"
    /\ UNCHANGED <<loopVars, block, queueVars, isrBuf, isrBufNeeded, adcindex, timerError,
                   tickDue, tick, pin, sample, serial, card, recordings>>

NextIndex(i) == IF i < PinCount - 1 THEN i + 1 ELSE 0
StartAdc ==
    IF PinCount > 1
      THEN /\ pin' = adcindex
           /\ adc' = IF adcindex = 0 THEN "armed" ELSE "converting"
           /\ timerFlag' = IF adcindex = 0 THEN FALSE ELSE timerFlag
           /\ adcindex' = NextIndex(adcindex)
      ELSE /\ adc' = "armed" /\ timerFlag' = FALSE
           /\ UNCHANGED <<pin, adcindex>>

\* The value goes into the buffer at hand, or into one that is taken now.
Stored(b, old) ==
    [block EXCEPT ![b] = [old EXCEPT !.data = Append(@, [tick |-> sample, pin |-> pin])]]
TakesOver(b, over) == Stored(b, [overrun |-> over, data |-> <<>>])
Target == IF isrBufNeeded THEN emptyQueue[emptyTail] ELSE isrBuf
OverCleared == 0

StoreValue ==
    /\ Running /\ adc = "isr" /\ ~NoRoom
    /\ StartAdc
    /\ isrBuf' = Target
    /\ block' = IF isrBufNeeded THEN TakesOver(Target, isrOver) ELSE Stored(Target, block[Target])
    /\ emptyTail' = IF isrBufNeeded THEN queueNext(emptyTail) ELSE emptyTail
    /\ IF Len(block'[Target].data) >= Dim
         THEN /\ fullQueue' = [fullQueue EXCEPT ![fullHead] = Target]
              /\ fullHead' = queueNext(fullHead)
              /\ isrBufNeeded' = TRUE /\ isrOver' = OverCleared
         ELSE /\ isrBufNeeded' = FALSE
              /\ UNCHANGED <<fullQueue, fullHead, isrOver>>
    /\ UNCHANGED <<loopVars, emptyQueue, emptyHead, fullTail, timerError, tickDue, tick, sample,
                   serial, card, recordings>>

Type ==
    /\ pc \in {"loop", "write", "recycle", "publish", "check", "serial"} /\ ~serial
    /\ serial' = TRUE
    /\ UNCHANGED <<loopVars, block, queueVars, isrVars, timerVars, adcVars, card, recordings>>

-----------------------------------------------------------------------------
Loop ==
    \/ TakeFull \/ WriteBlock \/ Recycle \/ Publish \/ CheckTimer
    \/ NotStopped \/ StopRecording \/ CloseFile
Interrupts == Tick \/ TimerIsr \/ ConversionDone \/ CountOverrun \/ StoreValue
Next == Record \/ StartLogging \/ StartFails \/ Loop \/ Interrupts \/ Type

Spec == Init /\ [][Next]_vars

-----------------------------------------------------------------------------
(* What the three readers make of a file: rows of values, and how many     *)
(* samples are missing before them.                                        *)
Rows(blk) ==
    [k \in 1 .. Len(blk.data) \div PinCount |->
        SubSeq(blk.data, PinCount * (k - 1) + 1, PinCount * k)]

\* Readers stop at the first block without values.
ToRead(blks) ==
    LET empty == {i \in DOMAIN blks : blks[i].data = <<>>}
    IN  IF empty = {} THEN blks ELSE SubSeq(blks, 1, Min(empty) - 1)

\* The lines of binaryToCsv(), a number for an overrun.
CsvLines(blks) ==
    FlattenSeq([i \in DOMAIN ToRead(blks) |->
        (IF blks[i].overrun = 0 THEN <<>> ELSE <<[missing |-> blks[i].overrun]>>)
          \o [k \in DOMAIN Rows(blks[i]) |-> [row |-> Rows(blks[i])[k]]]])

\* The lines of checkOverrun(): block numbers, behind the one of metadata, and counts.
OverrunLines(blks) ==
    {<<i, blks[i].overrun>> : i \in {j \in DOMAIN ToRead(blks) : blks[j].overrun # 0}}

-----------------------------------------------------------------------------
(* Properties *)

TypeOK ==
    /\ pc \in {"idle", "file", "loop", "write", "recycle", "publish", "check", "serial",
               "close", "closed", "fatal"}
    /\ pBlock \in Buffers \cup {NoBuffer}
    /\ \A b \in Buffers : Len(block[b].data) <= Dim /\ block[b].overrun \in 0 .. OverMax
    /\ emptyQueue \in [Slots -> Buffers \cup {NoBuffer}]
    /\ fullQueue \in [Slots -> Buffers \cup {NoBuffer}]
    /\ {emptyHead, emptyTail, fullHead, fullTail} \subseteq Slots
    /\ isrBuf \in Buffers \cup {NoBuffer} /\ isrBufNeeded \in BOOLEAN
    /\ isrOver \in 0 .. OverMax /\ adcindex \in Pins \cup {1}
    /\ {timerError, timerFlag, tickDue, serial} \subseteq BOOLEAN
    /\ adc \in {"off", "armed", "converting", "isr"} /\ pin \in Pins
    /\ tick \in 0 .. MaxTicks /\ sample \in 0 .. MaxTicks

\* The buffer the loop is writing or giving back is never the one the interrupt
\* stores into.
NotInBothHands ==
    pc \in {"write", "recycle", "publish"} /\ adc # "off" =>
        isrBufNeeded \/ isrBuf # pBlock

\* A block of a file has whole samples, each row the pins in their order and of one
\* sample, however the interrupts ran into the loop and wherever they were stopped.
\* Only a recording that is stopped before its first value may hold what the buffer
\* of an earlier one had: then it has nothing else.
SamplesAreWhole ==
    /\ TypeOK /\ NotInBothHands
    /\ \A i \in DOMAIN card :
         \/ /\ Len(card[i].data) % PinCount = 0
            /\ \A k \in DOMAIN Rows(card[i]) :
                 LET row == Rows(card[i])[k] IN
                   \A p \in Pins : row[p + 1] = [tick |-> row[1].tick, pin |-> p]
         \/ Len(card) = 1 /\ Head(card[1].data) = Garbage

\* A character that comes when the buffer at hand has just been queued queues it
\* again: then the last block is in the file twice.
Undoubled(blks) ==
    IF Len(blks) > 1 /\ blks[Len(blks)] = blks[Len(blks) - 1] THEN Front(blks) ELSE blks

\* Every tick is in the lines of the csv file: as a row, or in the number of those
\* missing before a row.
EveryTickIn(lines) ==
    LET Ticks(line) == IF "row" \in DOMAIN line THEN 1 ELSE line.missing
        Before(k) == FoldSeq(LAMBDA line, n : n + Ticks(line), 0, SubSeq(lines, 1, k - 1))
    IN  \A k \in DOMAIN lines :
          "row" \in DOMAIN lines[k] /\ lines[k].row[1] # Garbage =>
              lines[k].row[1].tick = Before(k) + 1

\* The time of each sample follows from the interval and the overruns in the file: no
\* tick is missing from it without being counted, until the counter is full, or being
\* reported as a missed timer event.  The last block of a full file is the exception:
\* the loop leaves without looking at timerError again.
GapsAreReported ==
    LET log == Undoubled(card)
        doubtful == timerError /\ (pc # "closed" \/ FileFull) /\ log # <<>>
        sure == IF doubtful THEN Front(log) ELSE log
    IN  (\A i \in DOMAIN sure : sure[i].overrun < OverMax) =>
          /\ EveryTickIn(CsvLines(sure))
          /\ OverrunLines(sure) = {} => \A k \in DOMAIN CsvLines(sure) :
                                          "row" \in DOMAIN CsvLines(sure)[k]

\* The samples of every tick, in the file or missing from it by number.
TicksAreAccountedFor == SamplesAreWhole /\ GapsAreReported

\* When adcInit() accepts an interval, a sample fits into it, with the slowest clock
\* for which it does; the timer's counter can count it, and it is off by less than an
\* ADC clock and a count of the timer.  Intervals below the 160 cycles of the system's
\* interrupt are left out: there the unsigned difference wraps.
AcceptedRatesFit ==
    pc = "file" /\ meta.interval >= IsrTimer0 =>
        LET Takes(adps) == PinCount * (MinAdcCycles * 2 ^ adps + IsrSetupAdc) + IsrTimer0
            counts == Rounded(meta.interval, meta.adps) \div 2 ^ meta.tshift
            sampleInterval == counts * 2 ^ meta.tshift
        IN  /\ Takes(meta.adps) <= meta.interval
            /\ meta.adps < 7 => Takes(meta.adps + 1) > meta.interval
            /\ counts \in 1 .. 2 ^ 16
            /\ sampleInterval - meta.interval < 2 ^ meta.adps
            /\ meta.interval - sampleInterval < 2 ^ meta.adps + 2 ^ meta.tshift
=============================================================================
