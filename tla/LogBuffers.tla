----------------------------- MODULE LogBuffers -----------------------------
(***************************************************************************)
(* logData() of the sketch _07_Low_Latency_Logger_with_Requests, from the  *)
(* initialisation of its two block queues to the end of the function: the  *)
(* main loop takes CAN messages from the controller's receive FIFO, packs  *)
(* them into 512-byte blocks, and hands the blocks to the SD card when the *)
(* card is not busy.  What happens to the file around the loop (creation,  *)
(* truncation, names, recovery after a power failure) is the subject of    *)
(* LogSession and TempFileRecovery.                                        *)
(*                                                                         *)
(* A pass of the loop is three steps, "poll" (the serial port), "fill"     *)
(* (the current block) and "drain" (one block to the card).  The CAN       *)
(* controller, the card, the user at the serial port and the clock act     *)
(* between any two of them.                                                *)
(***************************************************************************)
EXTENDS Integers, Sequences

CONSTANTS
    BufferBlockCount,   \* BUFFER_BLOCK_COUNT: buffers besides SdFat's cache
    DataDim,            \* DATA_DIM: records in a block
    FileBlockCount,     \* FILE_BLOCK_COUNT: blocks in the temporary file
    NumRequests,        \* numRequests: length of PGNRequestList
    Uint16, Uint32,     \* 2^16 and 2^32, or small stand-ins with a ratio
    RxDepth,            \* messages the CAN controller holds
    MaxArrivals,        \* bound: messages on the bus in one run
    MaxKeys,            \* bound: characters typed in one run
    MaxRequests         \* bound: times requestTimer expires in one run

ASSUME SizesAssumption ==
    /\ BufferBlockCount \in Nat \ {0}
    /\ DataDim \in Nat \ {0}
    /\ FileBlockCount \in Nat \ {0}
    /\ NumRequests \in Nat \ {0}
    /\ RxDepth \in Nat \ {0}

ASSUME WidthsAssumption ==
    /\ Uint16 \in Nat /\ Uint16 > DataDim
    /\ Uint32 \in Nat \ {0} /\ Uint32 % Uint16 = 0

ASSUME BoundsAssumption ==
    /\ MaxArrivals \in Nat
    /\ MaxKeys \in Nat
    /\ MaxRequests \in Nat

QueueDim == BufferBlockCount + 2
Slots == 0 .. QueueDim - 1

\* Buffer 0 is SdFat's own cache block, buffer i > 0 is block[i - 1].
Buffers == 0 .. BufferBlockCount
NoBlock == -1

\* A message is its place in the order of arrival on the bus; 0 stands for
\* whatever a buffer held before logData() filled it.
Messages == 1 .. MaxArrivals
Records == 0 .. MaxArrivals

Chars == {"c", "d", "other"}

Blocks == [count : 0 .. DataDim, overrun : 0 .. Uint16 - 1,
           data : [1 .. DataDim -> Records]]

VARIABLES
    pc,             \* where logData() is
    closeFile, serialInput,
    curBlock,       \* the buffer being filled
    block,          \* contents of every buffer
    emptyQueue, emptyHead, emptyTail,
    fullQueue, fullHead, fullTail,
    overrun, overrunTotal, count,
    pgnIndex,
    sentIndex,      \* index of PGNRequestList read for the last request
    errorLed,       \* ERROR_LED_PIN
    fifo,           \* messages waiting in the CAN controller
    serial,         \* characters waiting in the serial port
    cardBusy, card, \* sd.card()->isBusy(), and the blocks it was given
    silence,        \* lastCANmessageTimer > 10000
    requestDue      \* requestTimer >= millisBetweenRequests

VARIABLES           \* observation only: no step of the program reads them
    arrived,        \* messages that reached the controller
    lost,           \* ... that found its FIFO full
    acquired,       \* messages put into a block, in order
    spins,          \* passes that found no buffer, modulo 2^16
    busQuiet,       \* the bus has been silent for more than 10 s
    typed, expired  \* counters of the bounds MaxKeys and MaxRequests

queueVars == <<emptyQueue, emptyHead, emptyTail, fullQueue, fullHead, fullTail>>
fillVars == <<curBlock, block, overrun, pgnIndex, sentIndex, acquired, spins>>
drainVars == <<card, cardBusy, overrunTotal, count, errorLed>>
portVars == <<fifo, serial, silence, requestDue, arrived, lost, busQuiet,
              typed, expired>>
vars == <<pc, closeFile, serialInput, queueVars, fillVars, drainVars, portVars>>

QueueNextLate(ht) == IF ht < QueueDim THEN ht + 1 ELSE 0
queueNext(ht) == IF ht < QueueDim - 1 THEN ht + 1 ELSE 0

\* The slots between a queue's tail and its head, and how many they are.
Live(head, tail) ==
    {i \in Slots : IF tail <= head THEN tail <= i /\ i < head
                                   ELSE tail <= i \/ i < head}
QueueLen(head, tail) == IF tail <= head THEN head - tail
                                        ELSE head - tail + QueueDim

-----------------------------------------------------------------------------
Init ==
    /\ pc = "wait"
    /\ closeFile = FALSE
    /\ serialInput = " "
    /\ curBlock = NoBlock
    /\ block = [b \in Buffers |->
                  [count |-> 0, overrun |-> 0, data |-> [i \in 1 .. DataDim |-> 0]]]
    /\ emptyQueue = [i \in Slots |-> IF i \in Buffers THEN i ELSE NoBlock]
    /\ emptyHead = BufferBlockCount + 1 /\ emptyTail = 0
    /\ fullQueue = [i \in Slots |-> NoBlock]
    /\ fullHead = 0 /\ fullTail = 0
    /\ overrun = 0 /\ overrunTotal = 0 /\ count = 0
    /\ pgnIndex = 0 /\ sentIndex = 0
    /\ errorLed = TRUE
    /\ fifo = <<>> /\ serial = <<>>
    /\ cardBusy = FALSE /\ card = <<>>
    /\ silence = FALSE /\ requestDue = FALSE
    /\ arrived = 0 /\ lost = {} /\ acquired = <<>> /\ spins = 0
    /\ busQuiet = FALSE
    /\ typed = 0 /\ expired = 0

-----------------------------------------------------------------------------
(* The environment. *)

\* A message that finds the controller's FIFO full is dropped there.
MessageArrives ==
    /\ arrived < MaxArrivals
    /\ arrived' = arrived + 1
    /\ busQuiet' = FALSE
    /\ IF Len(fifo) < RxDepth
         THEN fifo' = Append(fifo, arrived') /\ UNCHANGED lost
         ELSE lost' = lost \cup {arrived'} /\ UNCHANGED fifo
    /\ UNCHANGED <<pc, closeFile, serialInput, queueVars, fillVars, drainVars,
                   serial, silence, requestDue, typed, expired>>

BusGoesQuiet ==
    /\ ~busQuiet
    /\ busQuiet' = TRUE
    /\ UNCHANGED <<pc, closeFile, serialInput, queueVars, fillVars, drainVars,
                   fifo, serial, silence, requestDue, arrived, lost, typed, expired>>

\* lastCANmessageTimer is older than 10 s.  It is restarted by each message
\* recorded, so once logging has begun this needs a bus silent for as long, or
\* a message left in the FIFO.  While logData() prepares the file and waits for
\* its first message nothing restarts it.
SilenceExpires ==
    /\ ~silence
    /\ pc = "wait" \/ busQuiet \/ fifo # <<>>
    /\ silence' = TRUE
    /\ UNCHANGED <<pc, closeFile, serialInput, queueVars, fillVars, drainVars,
                   fifo, serial, requestDue, arrived, lost, busQuiet, typed, expired>>

RequestExpires ==
    /\ ~requestDue
    /\ expired < MaxRequests
    /\ requestDue' = TRUE
    /\ expired' = expired + 1
    /\ UNCHANGED <<pc, closeFile, serialInput, queueVars, fillVars, drainVars,
                   fifo, serial, silence, arrived, lost, busQuiet, typed>>

TypeCharacter ==
    /\ typed < MaxKeys
    /\ typed' = typed + 1
    /\ \E c \in Chars : serial' = Append(serial, c)
    /\ UNCHANGED <<pc, closeFile, serialInput, queueVars, fillVars, drainVars,
                   fifo, silence, requestDue, arrived, lost, busQuiet, expired>>

CardReady ==
    /\ cardBusy
    /\ cardBusy' = FALSE
    /\ UNCHANGED <<pc, closeFile, serialInput, queueVars, fillVars, card,
                   overrunTotal, count, errorLed, portVars>>

-----------------------------------------------------------------------------
(* Waiting for the bus: the message found is not recorded. *)

\* processSetTimeUtility() looks for a time message and consumes what it read.
SetTimeWhileWaiting ==
    /\ pc = "wait" /\ fifo = <<>> /\ serial # <<>>
    /\ \E n \in 1 .. Len(serial) : serial' = SubSeq(serial, n + 1, Len(serial))
    /\ UNCHANGED <<pc, closeFile, serialInput, queueVars, fillVars, drainVars,
                   fifo, silence, requestDue, arrived, lost, busQuiet, typed, expired>>

FirstMessage ==
    /\ pc = "wait" /\ fifo # <<>>
    /\ fifo' = Tail(fifo)
    /\ errorLed' = FALSE
    /\ pc' = "poll"
    /\ UNCHANGED <<closeFile, serialInput, queueVars, fillVars, card, cardBusy,
                   overrunTotal, count, serial, silence, requestDue, arrived, lost,
                   busQuiet, typed, expired>>

-----------------------------------------------------------------------------
(* One pass of the main loop. *)

\* Mutant: only the two commands stop the log.
PollSerialCommandsOnly ==
    /\ pc = "poll"
    /\ IF serial # <<>>
         THEN /\ closeFile' = (closeFile \/ Head(serial) \in {"c", "d"})
              /\ serialInput' = Head(serial)
              /\ serial' = Tail(serial)
         ELSE UNCHANGED <<closeFile, serialInput, serial>>
    /\ pc' = "fill"
    /\ UNCHANGED <<queueVars, fillVars, drainVars, fifo, silence, requestDue,
                   arrived, lost, busQuiet, typed, expired>>

PollSerial ==
    /\ pc = "poll"
    /\ IF serial # <<>>
         THEN /\ closeFile' = TRUE
              /\ serialInput' = Head(serial)
              /\ serial' = Tail(serial)
         ELSE UNCHANGED <<closeFile, serialInput, serial>>
    /\ pc' = "fill"
    /\ UNCHANGED <<queueVars, fillVars, drainVars, fifo, silence, requestDue,
                   arrived, lost, busQuiet, typed, expired>>

PushFull(b) ==
    /\ fullQueue' = [fullQueue EXCEPT ![fullHead] = b]
    /\ fullHead' = queueNext(fullHead)

\* Mutant: the block is not flushed.
FlushNothing == curBlock' = NoBlock /\ UNCHANGED <<fullQueue, fullHead>>
Flush == PushFull(curBlock) /\ curBlock' = NoBlock

\* closeFile is set: what is in the current block goes to the card as it is.
FlushCurBlock ==
    /\ pc = "fill" /\ closeFile
    /\ IF curBlock # NoBlock
         THEN Flush
         ELSE UNCHANGED <<fullQueue, fullHead, curBlock>>
    /\ pc' = "drain"
    /\ UNCHANGED <<closeFile, serialInput, emptyQueue, emptyHead, emptyTail,
                   fullTail, block, overrun, pgnIndex, sentIndex, acquired, spins,
                   drainVars, portVars>>

CountOverrun ==
    /\ pc = "fill" /\ ~closeFile
    /\ curBlock = NoBlock /\ emptyTail = emptyHead
    /\ overrun' = (overrun + 1) % Uint32
    /\ spins' = (spins + 1) % Uint16
    /\ pc' = "drain"
    /\ UNCHANGED <<closeFile, serialInput, queueVars, curBlock, block, pgnIndex,
                   sentIndex, acquired, drainVars, portVars>>

\* The block this pass fills, taken from the empty queue if there is none.
PassBlock == IF curBlock # NoBlock THEN curBlock ELSE emptyQueue[emptyTail]

\* Mutant: the count of the block's last use is kept.
OpenedKeepingCount ==
    IF curBlock # NoBlock THEN block[curBlock]
    ELSE [block[PassBlock] EXCEPT !.overrun = overrun % Uint16]
Opened ==
    IF curBlock # NoBlock THEN block[curBlock]
    ELSE [block[PassBlock] EXCEPT !.count = 0, !.overrun = overrun % Uint16]

\* ... with the message CANbus.read() returned, if it did.
Filled ==
    IF fifo = <<>> THEN Opened
    ELSE [Opened EXCEPT !.count = @ + 1, !.data[Opened.count + 1] = Head(fifo)]

\* Mutant: a message recorded does not restart lastCANmessageTimer.
ReadBusNoRestart ==
    IF fifo # <<>>
      THEN /\ fifo' = Tail(fifo)
           /\ acquired' = Append(acquired, Head(fifo))
           /\ UNCHANGED silence
      ELSE UNCHANGED <<fifo, acquired, silence>>
ReadBus ==
    IF fifo # <<>>
      THEN /\ fifo' = Tail(fifo)
           /\ acquired' = Append(acquired, Head(fifo))
           /\ silence' = FALSE
      ELSE UNCHANGED <<fifo, acquired, silence>>

\* Mutant: the silence is never looked at.
IgnoreSilence == UNCHANGED closeFile
CheckSilence == closeFile' = silence'

SendRequest ==
    IF requestDue
      THEN /\ requestDue' = FALSE
           /\ sentIndex' = pgnIndex
           /\ pgnIndex' = IF pgnIndex + 1 > NumRequests THEN 0 ELSE pgnIndex + 1
      ELSE UNCHANGED <<requestDue, sentIndex, pgnIndex>>

FillBlock ==
    /\ pc = "fill" /\ ~closeFile
    /\ curBlock # NoBlock \/ emptyTail # emptyHead
    /\ IF curBlock # NoBlock
         THEN UNCHANGED <<emptyTail, overrun>>
         ELSE emptyTail' = queueNext(emptyTail) /\ overrun' = 0
    /\ block' = [block EXCEPT ![PassBlock] = Filled]
    /\ ReadBus
    /\ SendRequest
    /\ CheckSilence
    /\ IF Filled.count >= DataDim
         THEN PushFull(PassBlock) /\ curBlock' = NoBlock
         ELSE curBlock' = PassBlock /\ UNCHANGED <<fullQueue, fullHead>>
    /\ pc' = "drain"
    /\ UNCHANGED <<serialInput, emptyQueue, emptyHead, fullTail, spins, drainVars,
                   serial, arrived, lost, busQuiet, typed, expired>>

\* Nothing can be written in this pass.
SkipDrain ==
    /\ pc = "drain"
    /\ IF fullHead = fullTail THEN ~closeFile ELSE cardBusy
    /\ pc' = "poll"
    /\ UNCHANGED <<closeFile, serialInput, queueVars, fillVars, drainVars, portVars>>

\* Mutant: the loop ends as soon as closeFile is set.
ExitLoopAtOnce ==
    /\ pc = "drain" /\ closeFile
    /\ pc' = "close"
    /\ UNCHANGED <<closeFile, serialInput, queueVars, fillVars, drainVars, portVars>>
ExitLoop ==
    /\ pc = "drain" /\ fullHead = fullTail /\ closeFile
    /\ pc' = "close"
    /\ UNCHANGED <<closeFile, serialInput, queueVars, fillVars, drainVars, portVars>>

NextToWrite == fullQueue[fullTail]

\* Mutant: the block written is not given back.
RecycleNot(b) == UNCHANGED <<emptyQueue, emptyHead>>
Recycle(b) ==
    /\ emptyQueue' = [emptyQueue EXCEPT ![emptyHead] = b]
    /\ emptyHead' = queueNext(emptyHead)

WriteBlock ==
    /\ pc = "drain" /\ fullHead # fullTail /\ ~cardBusy
    /\ LET b == NextToWrite IN
         /\ card' = Append(card, block[b])
         /\ count' = (count + block[b].count) % Uint32
         /\ overrunTotal' = (overrunTotal + block[b].overrun) % Uint32
         /\ errorLed' = (errorLed \/ block[b].overrun # 0)
         /\ Recycle(b)
    /\ fullTail' = queueNext(fullTail)
    /\ cardBusy' = TRUE
    /\ IF Len(card') = FileBlockCount
         THEN closeFile' = TRUE /\ pc' = "close"
         ELSE pc' = "poll" /\ UNCHANGED closeFile
    /\ UNCHANGED <<serialInput, emptyTail, fullQueue, fullHead, fillVars, portVars>>

\* writeData() fails: errorFlash(), which blinks until the next reset.
WriteFails ==
    /\ pc = "drain" /\ fullHead # fullTail /\ ~cardBusy
    /\ fullTail' = queueNext(fullTail)
    /\ pc' = "writeFailed"
    /\ UNCHANGED <<closeFile, serialInput, emptyQueue, emptyHead, emptyTail,
                   fullQueue, fullHead, fillVars, drainVars, portVars>>

-----------------------------------------------------------------------------
\* writeStop(), truncate() to the blocks written, rename(), the summary; then
\* the serial port is emptied.
CloseLog ==
    /\ pc = "close"
    /\ pc' = "closed"
    /\ errorLed' = TRUE
    /\ serial' = <<>>
    /\ serialInput' = " "
    /\ UNCHANGED <<closeFile, queueVars, fillVars, card, cardBusy, overrunTotal,
                   count, fifo, silence, requestDue, arrived, lost, busQuiet,
                   typed, expired>>

CloseFails ==
    /\ pc = "close"
    /\ pc' = "closeFailed"
    /\ UNCHANGED <<closeFile, serialInput, queueVars, fillVars, drainVars, portVars>>

\* logData() has returned, or fatalBlink() is in its loop.
Stopped ==
    /\ pc \in {"closed", "writeFailed", "closeFailed"}
    /\ UNCHANGED vars

LoopStep ==
    \/ SetTimeWhileWaiting \/ FirstMessage
    \/ PollSerial
    \/ FlushCurBlock \/ CountOverrun \/ FillBlock
    \/ SkipDrain \/ ExitLoop \/ WriteBlock \/ WriteFails
    \/ CloseLog \/ CloseFails

Environment ==
    \/ MessageArrives \/ BusGoesQuiet
    \/ SilenceExpires \/ RequestExpires
    \/ TypeCharacter \/ CardReady

Next == LoopStep \/ Environment \/ Stopped

Spec == Init /\ [][Next]_vars
-----------------------------------------------------------------------------
Pcs == {"wait", "poll", "fill", "drain", "close", "closed", "writeFailed",
        "closeFailed"}

\* Every variable has its type; a block being filled has room for the record
\* that data[count++] will write.
TypeOK ==
    /\ pc \in Pcs
    /\ closeFile \in BOOLEAN
    /\ serialInput \in Chars \cup {" "}
    /\ curBlock \in Buffers \cup {NoBlock}
    /\ block \in [Buffers -> Blocks]
    /\ curBlock # NoBlock => block[curBlock].count < DataDim
    /\ emptyQueue \in [Slots -> Buffers \cup {NoBlock}]
    /\ fullQueue \in [Slots -> Buffers \cup {NoBlock}]
    /\ emptyHead \in Slots /\ emptyTail \in Slots
    /\ fullHead \in Slots /\ fullTail \in Slots
    /\ overrun \in 0 .. Uint32 - 1
    /\ overrunTotal \in 0 .. Uint32 - 1
    /\ count \in 0 .. Uint32 - 1
    /\ pgnIndex \in 0 .. NumRequests
    /\ sentIndex \in 0 .. NumRequests
    /\ errorLed \in BOOLEAN
    /\ fifo \in Seq(Messages)
    /\ serial \in Seq(Chars)
    /\ cardBusy \in BOOLEAN
    /\ card \in Seq(Blocks)
    /\ silence \in BOOLEAN /\ requestDue \in BOOLEAN
    /\ arrived \in 0 .. MaxArrivals
    /\ lost \subseteq Messages
    /\ acquired \in Seq(Messages)
    /\ spins \in 0 .. Uint16 - 1
    /\ busQuiet \in BOOLEAN
    /\ typed \in 0 .. MaxKeys
    /\ expired \in 0 .. MaxRequests

EmptySlots == Live(emptyHead, emptyTail)
FullSlots == Live(fullHead, fullTail)

\* No buffer is queued twice, queued while it is being filled, or queued on
\* both sides: the card is never given a block that CAN records are going into,
\* and a queue never runs over its own tail.
NoSharedBlock ==
    /\ \A i, j \in EmptySlots : emptyQueue[i] = emptyQueue[j] => i = j
    /\ \A i, j \in FullSlots : fullQueue[i] = fullQueue[j] => i = j
    /\ \A i \in EmptySlots, j \in FullSlots : emptyQueue[i] # fullQueue[j]
    /\ \A i \in EmptySlots : emptyQueue[i] \notin {curBlock, NoBlock}
    /\ \A j \in FullSlots : fullQueue[j] \notin {curBlock, NoBlock}

\* No buffer leaks: unless a write failed, each one is in a queue or is the
\* current block, so a stalled card delays logging but cannot end it.
NoLeakedBlock ==
    pc # "writeFailed" =>
        \A b \in Buffers :
            \/ curBlock = b
            \/ \E i \in EmptySlots : emptyQueue[i] = b
            \/ \E j \in FullSlots : fullQueue[j] = b

\* Each buffer is in one place, and in one only, whatever the card does: at the stop of
\* a log too, where the current block is queued early, and when an empty block is.
EveryBufferOnce == NoSharedBlock /\ NoLeakedBlock

\* The queues and the current block account for every buffer.
Accounted ==
    QueueLen(emptyHead, emptyTail) + QueueLen(fullHead, fullTail)
        + (IF curBlock = NoBlock THEN 0 ELSE 1)
      = (IF pc = "writeFailed" THEN BufferBlockCount ELSE BufferBlockCount + 1)
=============================================================================
