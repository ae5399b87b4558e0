---------------------------- MODULE IntervalLogger ----------------------------
(***************************************************************************)
(* SdFat's example LowLatencyLogger: a record every LOG_INTERVAL_USEC, by  *)
(* a loop that waits for the time of the next record, and writes a block   *)
(* when it has one and the card is ready.  A pass without a buffer waits   *)
(* for its time too, so that a reader can tell from the number of records  *)
(* and of overruns when a record was due.                                  *)
(*                                                                         *)
(* A behaviour is one recording, with the names and the temporary file     *)
(* that earlier ones have left.  Time goes on before every step that reads *)
(* it.  Buffers are counted and queued by what they hold.                  *)
(***************************************************************************)
EXTENDS Integers, SequencesExt

CONSTANTS
    BufferBlockCount,   \* BUFFER_BLOCK_COUNT: buffers besides SdFat's own
    DataDim,            \* DATA_DIM: records in a block
    FileBlockCount,     \* FILE_BLOCK_COUNT
    Interval,           \* LOG_INTERVAL_USEC
    Word,               \* 2^32, or a smaller power of two
    FirstMicros,        \* what micros() may be when a recording begins
    LastName,           \* the last name, 99
    MaxTicks            \* bound: time steps in a recording

Uint16 == 65536
NoBlock == [data |-> <<>>]

VARIABLES
    pc,
    binName, curBlock,
    empty,              \* buffers in the empty queue
    full,               \* the full queue
    overrun, overrunTotal, count, closeFile,
    logTime, startMicros, delta, minDelta,
    \* the card
    used,               \* names of logs: those below this number
    tmpExists,          \* TMP_FILE_NAME
    content,            \* the blocks of binFile
    cardReady,
    \* the clock and the user
    micros, typed,
    \* observation only
    acquired,           \* the records of this recording
    passes,             \* its passes that waited for their time
    ticks

queueVars == <<curBlock, empty, full, overrun>>
sumVars == <<overrunTotal, count, minDelta>>
timeVars == <<logTime, startMicros, delta>>
cardVars == <<used, tmpExists, content, cardReady>>
hostVars == <<micros, typed>>
seenVars == <<acquired, passes, ticks>>
vars == <<pc, binName, queueVars, sumVars, closeFile, timeVars, cardVars, hostVars, seenVars>>

\* A difference of two times, as int32_t has it.
Signed(d) == IF d % Word < Word \div 2 THEN d % Word ELSE (d % Word) - Word

Init ==
    /\ pc = "menu" /\ binName = 0
    /\ curBlock = NoBlock /\ empty = 0 /\ full = <<>> /\ overrun = 0
    /\ overrunTotal = 0 /\ count = 0 /\ minDelta = Word
    /\ closeFile = FALSE
    /\ logTime = 0 /\ startMicros = 0 /\ delta = 0
    /\ used \in 0 .. LastName + 1 /\ tmpExists \in BOOLEAN
    /\ content = <<>> /\ cardReady = TRUE
    /\ micros \in FirstMicros /\ typed = FALSE
    /\ acquired = <<>> /\ passes = 0 /\ ticks = 0

Go(from, to) == pc = from /\ pc' = to

-----------------------------------------------------------------------------
(* The menu, and what is done before the loop.  What was typed is read     *)
(* before the menu is printed.                                             *)
Record ==
    /\ Go("menu", "names")
    /\ UNCHANGED <<binName, queueVars, sumVars, closeFile, timeVars, cardVars, hostVars, seenVars>>

TryNextName ==
    /\ pc = "names" /\ binName < used
    /\ IF binName = LastName THEN pc' = "halted" /\ UNCHANGED binName
                             ELSE binName' = binName + 1 /\ UNCHANGED pc
    /\ UNCHANGED <<queueVars, sumVars, closeFile, timeVars, cardVars, hostVars, seenVars>>
NameFound ==
    /\ Go("names", "create") /\ binName >= used
    /\ tmpExists' = FALSE
    /\ UNCHANGED <<binName, queueVars, sumVars, closeFile, timeVars, used, content, cardReady,
                   hostVars, seenVars>>
\* Created, erased, and the write started.
CreateFile ==
    /\ Go("create", "start")
    /\ tmpExists' = TRUE /\ content' = <<>> /\ cardReady' = TRUE
    /\ empty' = BufferBlockCount + 1 /\ full' = <<>>
    /\ UNCHANGED <<binName, curBlock, overrun, sumVars, closeFile, timeVars, used, hostVars,
                   seenVars>>
StartLogging ==
    /\ Go("start", "pass")
    /\ curBlock' = NoBlock /\ overrun' = 0
    /\ overrunTotal' = 0 /\ count' = 0 /\ minDelta' = Word
    /\ closeFile' = FALSE
    /\ logTime' = micros /\ startMicros' = (micros + Interval) % Word
    /\ acquired' = <<>> /\ passes' = 0 /\ ticks' = 0
    /\ UNCHANGED <<binName, empty, full, delta, cardVars, hostVars>>

-----------------------------------------------------------------------------
(* The loop. *)
\* When the file is being closed logTime goes on, but is not used any more.
BeginPass ==
    /\ pc = "pass"
    /\ closeFile' = (closeFile \/ typed)
    /\ logTime' = (IF closeFile' THEN logTime ELSE (logTime + Interval) % Word)
    /\ pc' = (IF closeFile' THEN "flush" ELSE "take")
    /\ UNCHANGED <<binName, queueVars, sumVars, startMicros, delta, cardVars, hostVars, seenVars>>

Flush ==
    /\ Go("flush", "drain")
    /\ full' = (IF curBlock = NoBlock THEN full ELSE Append(full, curBlock))
    /\ curBlock' = NoBlock
    /\ UNCHANGED <<binName, empty, overrun, sumVars, closeFile, timeVars, cardVars, hostVars,
                   seenVars>>

Opened == [overrun |-> overrun % Uint16, data |-> <<>>]
OverrunKept == overrun
OverrunAfter == 0
TakeBuffer ==
    /\ Go("take", "check")
    /\ IF curBlock = NoBlock /\ empty > 0
         THEN curBlock' = Opened /\ empty' = empty - 1 /\ overrun' = OverrunAfter
         ELSE UNCHANGED <<curBlock, empty, overrun>>
    /\ UNCHANGED <<binName, full, sumVars, closeFile, timeVars, cardVars, hostVars, seenVars>>

\* The time of the record has passed: "Rate too fast".
IsLate == Signed(logTime - micros) < 0
CheckRate ==
    /\ pc = "check"
    /\ pc' = (IF IsLate THEN "halted" ELSE "wait")
    /\ UNCHANGED <<binName, queueVars, sumVars, closeFile, timeVars, cardVars, hostVars, seenVars>>

IsDue == Signed(micros - logTime) >= 0
WaitForTime ==
    /\ pc = "wait" /\ IsDue
    /\ delta' = Signed(micros - logTime)
    /\ passes' = passes + 1
    /\ IF curBlock = NoBlock THEN overrun' = overrun + 1 /\ pc' = "drain"
                             ELSE pc' = "acquire" /\ UNCHANGED overrun
    /\ UNCHANGED <<binName, curBlock, empty, full, sumVars, closeFile, logTime, startMicros,
                   cardVars, hostVars, acquired, ticks>>

AcquireData ==
    LET b == [curBlock EXCEPT !.data = Append(@, micros)] IN
    /\ Go("acquire", "drain")
    /\ IF Len(b.data) = DataDim THEN full' = Append(full, b) /\ curBlock' = NoBlock
                                ELSE curBlock' = b /\ UNCHANGED full
    /\ minDelta' = Min({minDelta, delta})
    /\ acquired' = Append(acquired, micros)
    /\ UNCHANGED <<binName, empty, overrun, overrunTotal, count, closeFile, timeVars, cardVars,
                   hostVars, passes, ticks>>

LeaveLoop ==
    /\ Go("drain", "close") /\ full = <<>> /\ closeFile
    /\ UNCHANGED <<binName, queueVars, sumVars, closeFile, timeVars, cardVars, hostVars, seenVars>>
NothingToWrite ==
    /\ Go("drain", "pass")
    /\ IF full = <<>> THEN ~closeFile ELSE ~cardReady
    /\ UNCHANGED <<binName, queueVars, sumVars, closeFile, timeVars, cardVars, hostVars, seenVars>>
WriteBlock ==
    LET b == Head(full) IN
    /\ pc = "drain" /\ full # <<>> /\ cardReady
    /\ full' = Tail(full) /\ empty' = empty + 1
    /\ content' = Append(content, b)
    /\ cardReady' \in BOOLEAN
    /\ count' = count + Len(b.data)
    /\ overrunTotal' = overrunTotal + b.overrun
    /\ pc' = (IF Len(content') = FileBlockCount THEN "close" ELSE "pass")
    /\ UNCHANGED <<binName, curBlock, overrun, minDelta, closeFile, timeVars, used, tmpExists,
                   hostVars, seenVars>>

\* The write is ended, the file cut and renamed.
CloseFile ==
    /\ Go("close", "done")
    /\ tmpExists' = FALSE /\ used' = binName + 1
    /\ UNCHANGED <<binName, queueVars, sumVars, closeFile, timeVars, content, cardReady, hostVars,
                   seenVars>>

\* A call on the card fails, and the program blinks for ever.
CallFails ==
    /\ \/ pc \in {"create", "close"} \/ (pc = "names" /\ tmpExists)
       \/ pc = "drain" /\ full # <<>> /\ cardReady
    /\ pc' = "halted"
    /\ UNCHANGED <<binName, queueVars, sumVars, closeFile, timeVars, cardVars, hostVars, seenVars>>

-----------------------------------------------------------------------------
(* The clock, the card and the user. *)
InLoop == pc \in {"pass", "take", "check", "wait", "acquire", "drain"}
Tick ==
    /\ pc \in {"check", "wait", "acquire"} /\ ticks < MaxTicks
    /\ ticks' = ticks + 1
    /\ micros' = (micros + 1) % Word
    /\ UNCHANGED <<pc, binName, queueVars, sumVars, closeFile, timeVars, cardVars, typed, acquired,
                   passes>>
CardReady ==
    /\ ~cardReady /\ cardReady' = TRUE
    /\ UNCHANGED <<pc, binName, queueVars, sumVars, closeFile, timeVars, used, tmpExists, content,
                   hostVars, seenVars>>
Type ==
    /\ pc \in {"start", "pass"} /\ ~typed /\ typed' = TRUE
    /\ UNCHANGED <<pc, binName, queueVars, sumVars, closeFile, timeVars, cardVars, micros, seenVars>>

\* Bounded, or stuck.
Rests ==
    /\ \/ pc \in {"done", "halted"}
       \/ pc = "wait" /\ ticks = MaxTicks
    /\ UNCHANGED vars

Program ==
    \/ Record \/ TryNextName \/ NameFound \/ CreateFile \/ StartLogging \/ BeginPass \/ Flush
    \/ TakeBuffer \/ CheckRate \/ WaitForTime \/ AcquireData \/ LeaveLoop \/ NothingToWrite
    \/ WriteBlock \/ CloseFile \/ CallFails
Next == Program \/ Tick \/ CardReady \/ Type \/ Rests
Spec == Init /\ [][Next]_vars

-----------------------------------------------------------------------------
(* What the readers make of a file: lines with the time since the start,   *)
(* or a number of overruns.                                                *)
CsvLines(blks) ==
    FlattenSeq([i \in DOMAIN blks |->
        (IF blks[i].overrun = 0 THEN <<>> ELSE <<[missing |-> blks[i].overrun]>>)
          \o [k \in DOMAIN blks[i].data |-> [row |-> (blks[i].data[k] - startMicros) % Word]]])

\* The blocks with overruns, and how many, of a file without blocks that are empty.
OverrunLines(blks) ==
    {<<i, blks[i].overrun>> : i \in {j \in DOMAIN blks : blks[j].overrun # 0}}

\* The intervals that the lines before line k stand for.
DueAt(lines, k) ==
    FoldSeq(LAMBDA line, n : n + IF "row" \in DOMAIN line THEN 1 ELSE line.missing, 0,
            SubSeq(lines, 1, k - 1))

\* A record's line is in its interval: not before it was due, by what its place among
\* the lines tells, and, unless it is the last that was acquired, not after the next
\* was.
LinesAreOnSchedule ==
    pc \in {"drain", "close"} =>
    LET blks == content \o full \o IF curBlock = NoBlock THEN <<>> ELSE <<curBlock>>
        lines == CsvLines(blks)
        rows == {k \in DOMAIN lines : "row" \in DOMAIN lines[k]}
    IN  \A k \in rows :
          LET late == Signed(lines[k].row - DueAt(lines, k) * Interval) IN
          /\ late >= 0 /\ late >= minDelta
          /\ k # Max(rows) => late <= Interval

\* What the program prints of a recording is what its file holds; of the records it
\* acquired the file lacks none, unless the file became full; and every pass that
\* waited for its time is a record or is counted.
RecordingIsAccounted ==
    /\ pc = "close" =>
         LET records == FlattenSeq([i \in DOMAIN content |-> content[i].data]) IN
         /\ count = Len(records)
         /\ overrunTotal = FoldSet(LAMBDA line, n : line[2] + n, 0, OverrunLines(content))
         /\ IsPrefix(records, acquired)
         /\ Len(content) < FileBlockCount => records = acquired
    /\ InLoop /\ pc # "acquire" =>
         passes = Len(acquired) + overrun + overrunTotal
                   + FoldSeq(LAMBDA b, n : b.overrun + n, 0, full)
                   + IF curBlock = NoBlock THEN 0 ELSE curBlock.overrun

\* A recording names its records by their times, whatever the card delays, and gives
\* up rather than record late.
ScheduleIsKept == LinesAreOnSchedule /\ RecordingIsAccounted
=============================================================================
