-------------------------- MODULE LowLatencyLogger --------------------------
(***************************************************************************)
(* The sketch _03_Low_Latency_Logger, from which the present logger was    *)
(* made: it logs again and again without being asked, deletes the          *)
(* temporary file that a power failure leaves instead of recovering it,    *)
(* and ends a log when a character is typed, which nothing ever reads.     *)
(*                                                                         *)
(* Buffers are counted and queued by what they hold: that none is shared   *)
(* is the subject of LogBuffers, whose queues are the same.  A message is  *)
(* its number in the order of arrival.                                     *)
(***************************************************************************)
EXTENDS Integers, SequencesExt

CONSTANTS
    BufferBlockCount,   \* BUFFER_BLOCK_COUNT: buffers besides SdFat's own
    DataDim,            \* DATA_DIM: records in a block
    FileBlockCount,     \* FILE_BLOCK_COUNT
    LastName,           \* the name that is refused, 999
    FifoSize,           \* messages the CAN controller holds
    OverMax,            \* 0XFFFF, or a small stand-in
    MaxMessages,        \* bound: messages
    MaxFiles,           \* bound: temporary files that are made
    MaxFailures         \* bound: power failures

Names == 0 .. LastName
FileIds == 1 .. MaxFiles
NoFile == 0
NoBlock == [count |-> -1]

VARIABLES
    pc,
    binName, curBlock,
    empty,              \* buffers in the empty queue
    full,               \* the full queue
    overrun, overrunTotal, count, closeFile,
    \* the card
    dir,                \* the file of every name
    tmp,                \* the file of TMP_FILE_NAME
    content,            \* the blocks written to every file that has its clusters
    cardReady,
    \* the bus, the clock and the user
    fifo, arrived,
    late,               \* lastCANmessageTimer > 30000
    typed,              \* Serial.available()
    \* observation only
    files,              \* temporary files made
    log,                \* of every file: the messages acquired, the one that ended the
                        \* wait, if a character was there already, and why it was closed
    mixed,              \* files that had two names when the power failed
    failures

ramVars == <<binName, curBlock, empty, full, overrun, overrunTotal, count, closeFile>>
cardVars == <<dir, tmp, content>>
seenVars == <<files, log, mixed, failures>>
hostVars == <<fifo, arrived, late, typed>>
vars == <<pc, ramVars, cardVars, cardReady, hostVars, seenVars>>

NoLog == [acquired |-> <<>>, since |-> 0, deaf |-> FALSE, why |-> "open"]

Init ==
    /\ pc = "names" /\ binName = 0
    /\ curBlock = NoBlock /\ empty = 0 /\ full = <<>>
    /\ overrun = 0 /\ overrunTotal = 0 /\ count = 0 /\ closeFile = FALSE
    /\ dir = [n \in Names |-> NoFile] /\ tmp = NoFile /\ content = [f \in FileIds |-> <<>>]
    /\ cardReady = TRUE
    /\ fifo = <<>> /\ arrived = 0 /\ late = FALSE /\ typed = FALSE
    /\ files = 0 /\ log = [f \in FileIds |-> NoLog] /\ mixed = {} /\ failures = 0

Go(from, to) == pc = from /\ pc' = to

-----------------------------------------------------------------------------
(* Before the log. *)

\* A turn of the search for a name; the last one is refused even if it is unused.
TryNextName ==
    /\ pc = "names" /\ dir[binName] # NoFile
    /\ binName' = binName + 1
    /\ pc' = (IF binName' = LastName THEN "halted" ELSE "names")
    /\ UNCHANGED <<curBlock, empty, full, overrun, overrunTotal, count, closeFile, cardVars,
                   cardReady, hostVars, seenVars>>
NameFound ==
    /\ Go("names", "delete") /\ dir[binName] = NoFile
    /\ late' = FALSE                    \* lastCANmessageTimer = 0, at the beginning
    /\ UNCHANGED <<ramVars, cardVars, cardReady, fifo, arrived, typed, seenVars>>

\* A file that is removed gives its clusters back, also if it has another name.
FreedTmp(f) == IF f = NoFile THEN content ELSE [content EXCEPT ![f] = <<>>]
DeleteTmp ==
    /\ Go("delete", "create")
    /\ tmp' = NoFile /\ content' = FreedTmp(tmp)
    /\ UNCHANGED <<ramVars, dir, cardReady, hostVars, seenVars>>

CreateFile ==
    /\ Go("create", "erase") /\ files < MaxFiles
    /\ files' = files + 1 /\ tmp' = files'
    /\ UNCHANGED <<ramVars, dir, content, cardReady, hostVars, log, mixed, failures>>
\* The range of the file is erased, and a multiple block write started.
Prepare ==
    /\ Go("erase", "wait")
    /\ empty' = BufferBlockCount + 1 /\ full' = <<>>
    /\ UNCHANGED <<binName, curBlock, overrun, overrunTotal, count, closeFile, cardVars,
                   cardReady, hostVars, seenVars>>

\* The message that ends the wait is read and not recorded.
FirstMessage ==
    /\ Go("wait", "poll") /\ fifo # <<>>
    /\ fifo' = Tail(fifo)
    /\ curBlock' = NoBlock /\ overrun' = 0 /\ overrunTotal' = 0 /\ count' = 0
    /\ closeFile' = FALSE
    /\ log' = [log EXCEPT ![tmp].since = Head(fifo), ![tmp].deaf = typed]
    /\ UNCHANGED <<binName, empty, full, cardVars, cardReady, arrived, late, typed, files, mixed,
                   failures>>

-----------------------------------------------------------------------------
(* The loop. *)

\* Once something has been typed every log is closed in its first pass: the port is
\* asked whether there is a character, which is never read.
PollSerial ==
    /\ pc = "poll"
    /\ closeFile' = (closeFile \/ typed)
    /\ pc' = (IF closeFile' THEN "flush" ELSE "take")
    /\ log' = (IF typed /\ ~closeFile THEN [log EXCEPT ![tmp].why = "typed"] ELSE log)
    /\ UNCHANGED <<binName, curBlock, empty, full, overrun, overrunTotal, count, cardVars,
                   cardReady, hostVars, files, mixed, failures>>

FlushNothing == <<>>
FlushCurBlock == IF curBlock = NoBlock THEN <<>> ELSE <<curBlock>>
Flush ==
    /\ Go("flush", "drain")
    /\ full' = full \o FlushCurBlock
    /\ curBlock' = NoBlock
    /\ UNCHANGED <<binName, empty, overrun, overrunTotal, count, closeFile, cardVars, cardReady,
                   hostVars, seenVars>>

Opened == [count |-> 0, overrun |-> overrun, data |-> <<>>]
Taken == IF curBlock = NoBlock /\ empty > 0 THEN Opened ELSE curBlock
\* A pass that records or counts an overrun.
CountOverrun ==
    /\ pc = "take" /\ Taken = NoBlock
    /\ pc' = "drain"
    /\ overrun' = Min({overrun + 1, OverMax})
    /\ UNCHANGED <<binName, curBlock, empty, full, overrunTotal, count, closeFile, cardVars,
                   cardReady, hostVars, seenVars>>

\* The block with the message of the CAN controller, if there is one.
Acquired(b) ==
    IF fifo = <<>> THEN b
    ELSE [b EXCEPT !.count = @ + 1, !.data = Append(@, Head(fifo))]
FillBlock ==
    LET b == Acquired(Taken)
        silent == late /\ fifo = <<>>
    IN /\ pc = "take" /\ Taken # NoBlock
       /\ pc' = "drain"
       /\ IF curBlock = NoBlock THEN empty' = empty - 1 /\ overrun' = 0
                                ELSE UNCHANGED <<empty, overrun>>
       /\ fifo' = (IF fifo = <<>> THEN fifo ELSE Tail(fifo))
       /\ late' = silent
       /\ closeFile' = silent
       /\ IF b.count >= DataDim THEN full' = Append(full, b) /\ curBlock' = NoBlock
                                ELSE curBlock' = b /\ UNCHANGED full
       /\ log' = [log EXCEPT
              ![tmp].acquired = IF fifo = <<>> THEN @ ELSE Append(@, Head(fifo)),
              ![tmp].why = IF silent THEN "silence" ELSE @]
       /\ UNCHANGED <<binName, overrunTotal, count, cardVars, cardReady, arrived, typed, files,
                      mixed, failures>>

LeaveLoop ==
    /\ Go("drain", "close") /\ full = <<>> /\ closeFile
    /\ UNCHANGED <<ramVars, cardVars, cardReady, hostVars, seenVars>>
NothingToWrite ==
    /\ Go("drain", "poll")
    /\ IF full = <<>> THEN ~closeFile ELSE ~cardReady
    /\ UNCHANGED <<ramVars, cardVars, cardReady, hostVars, seenVars>>
WriteBlock ==
    LET b == Head(full) IN
    /\ pc = "drain" /\ full # <<>> /\ cardReady
    /\ full' = Tail(full) /\ empty' = empty + 1
    /\ content' = [content EXCEPT ![tmp] = Append(@, b)]
    /\ cardReady' \in BOOLEAN
    /\ count' = count + b.count
    /\ overrunTotal' = overrunTotal + b.overrun
    /\ pc' = (IF Len(content'[tmp]) = FileBlockCount THEN "close" ELSE "poll")
    /\ log' = (IF pc' = "close" THEN [log EXCEPT ![tmp].why = "full"] ELSE log)
    /\ UNCHANGED <<binName, curBlock, overrun, closeFile, dir, tmp, hostVars, files, mixed,
                   failures>>

-----------------------------------------------------------------------------
(* After the log: the end of the write and the truncation; the two writes  *)
(* of rename().                                                            *)
CloseFile ==
    /\ Go("close", "rename")
    /\ UNCHANGED <<ramVars, cardVars, cardReady, hostVars, seenVars>>
WriteNewEntry ==
    /\ Go("rename", "unlink")
    /\ dir' = [dir EXCEPT ![binName] = tmp]
    /\ UNCHANGED <<ramVars, tmp, content, cardReady, hostVars, seenVars>>
RemoveOldEntry ==
    /\ Go("unlink", "names")
    /\ tmp' = NoFile
    /\ UNCHANGED <<ramVars, dir, content, cardReady, hostVars, seenVars>>

\* Any call on the card may fail, and the sketch then blinks for ever.
CallFails ==
    /\ \/ pc \in {"delete", "create", "erase", "close", "rename", "unlink"}
       \/ pc = "drain" /\ full # <<>> /\ cardReady
    /\ pc' = "halted"
    /\ UNCHANGED <<ramVars, cardVars, cardReady, hostVars, seenVars>>

PowerFails ==
    /\ failures < MaxFailures /\ failures' = failures + 1
    /\ pc' = "names" /\ binName' = 0
    /\ curBlock' = NoBlock /\ empty' = 0 /\ full' = <<>>
    /\ overrun' = 0 /\ overrunTotal' = 0 /\ count' = 0 /\ closeFile' = FALSE
    /\ cardReady' = TRUE /\ fifo' = <<>> /\ late' = FALSE /\ typed' = FALSE
    /\ mixed' = mixed \cup (({tmp} \cap {dir[n] : n \in Names}) \ {NoFile})
    /\ UNCHANGED <<cardVars, arrived, files, log>>

\* Bounded, and a sketch that is stuck: nothing more happens.
Rests ==
    /\ pc = "halted" \/ (pc = "create" /\ files = MaxFiles) \/ (pc = "wait" /\ fifo = <<>>)
    /\ UNCHANGED vars

-----------------------------------------------------------------------------
(* The bus, the card, the clock and the user. *)
Outside == UNCHANGED <<pc, ramVars, cardVars, seenVars>>

\* A message that finds the controller full is lost.
MessageArrives ==
    /\ pc \in {"wait", "poll", "take", "drain"} /\ arrived < MaxMessages
    /\ arrived' = arrived + 1
    /\ fifo' = (IF Len(fifo) < FifoSize THEN Append(fifo, arrived') ELSE fifo)
    /\ UNCHANGED <<cardReady, late, typed>> /\ Outside
CardReady == ~cardReady /\ cardReady' = TRUE /\ UNCHANGED hostVars /\ Outside
SilenceExpires ==
    /\ pc \in {"wait", "poll"} /\ ~late /\ late' = TRUE
    /\ UNCHANGED <<cardReady, fifo, arrived, typed>> /\ Outside
Type ==
    /\ pc \in {"wait", "poll"} /\ ~typed /\ typed' = TRUE
    /\ UNCHANGED <<cardReady, fifo, arrived, late>> /\ Outside

Sketch ==
    \/ TryNextName \/ NameFound \/ DeleteTmp \/ CreateFile \/ Prepare \/ FirstMessage
    \/ PollSerial \/ Flush \/ CountOverrun \/ FillBlock \/ LeaveLoop \/ NothingToWrite
    \/ WriteBlock \/ CloseFile \/ WriteNewEntry \/ RemoveOldEntry \/ CallFails \/ Rests
Next == Sketch \/ PowerFails \/ MessageArrives \/ CardReady \/ SilenceExpires \/ Type
Spec == Init /\ [][Next]_vars

-----------------------------------------------------------------------------
\* What a reader takes from a file: block after block, to the first without records.
BlocksRead(blks) ==
    LET none == {i \in DOMAIN blks : blks[i].count = 0}
    IN  1 .. IF none = {} THEN Len(blks) ELSE Min(none) - 1
ReadFile(blks) ==
    FlattenSeq([i \in BlocksRead(blks) |-> SubSeq(blks[i].data, 1, blks[i].count)])
\* The blocks with overruns, and how many.
OverrunLines(blks) ==
    {<<i, blks[i].overrun>> : i \in {j \in BlocksRead(blks) : blks[j].overrun # 0}}

TypeOK ==
    /\ pc \in {"names", "delete", "create", "erase", "wait", "poll", "flush", "take", "drain",
               "close", "rename", "unlink", "halted"}
    /\ binName \in Names /\ dir \in [Names -> FileIds \cup {NoFile}]
    /\ tmp \in FileIds \cup {NoFile}
    /\ empty \in 0 .. BufferBlockCount + 1 /\ overrun \in 0 .. OverMax
    /\ \A f \in FileIds : Len(content[f]) <= FileBlockCount

\* What was acquired for file f and is not in it: what silence leaves in the current
\* block, and what a full file leaves in the buffers; nothing, if a character ended it.
MayLack(f) ==
    IF log[f].why = "silence" THEN DataDim - 1
    ELSE IF log[f].why = "full" THEN BufferBlockCount * DataDim ELSE 0

\* A log that has its name holds what was acquired for it, from the first message on:
\* records in the order of arrival, none twice, none of another log, but for the end
\* that silence or a full file cost it.  Only a power failure inside rename() takes a
\* log away, which is then deleted as the temporary file that it also is.
NamedLogsAreWhole ==
    \A n \in Names : dir[n] \notin mixed \cup {NoFile} =>
        LET f == dir[n]  records == ReadFile(content[f]) IN
        /\ records = SubSeq(log[f].acquired, 1, Len(records))
        /\ Len(log[f].acquired) - Len(records) <= MayLack(f)
        /\ \A k \in DOMAIN records : records[k] > (IF k = 1 THEN log[f].since ELSE records[k - 1])

\* The logs of one boot are named in their order, and no log has another's messages.
LogsAreApart ==
    \A m, n \in Names : m < n /\ {dir[m], dir[n]} \cap (mixed \cup {NoFile}) = {} =>
        /\ dir[m] # dir[n]
        /\ ToSet(log[dir[m]].acquired) \cap ToSet(log[dir[n]].acquired) = {}
        /\ dir[m] < dir[n]

\* What is printed at the end of a log: the records that a reader finds in it, and the
\* overruns, those of a last block without records included, where no reader comes.
SummaryIsRight ==
    pc \in {"close", "rename", "unlink"} =>
        LET blks == content[tmp]
            unread == IF blks # <<>> /\ Last(blks).count = 0 THEN Last(blks).overrun ELSE 0
        IN  /\ count = Len(ReadFile(blks))
            /\ overrunTotal = unread + FoldSet(LAMBDA line, n : line[2] + n, 0, OverrunLines(blks))

\* A log that begins after something was typed stays empty: what the program does, for
\* one character in a whole session.
DeafLogsAreEmpty == \A f \in FileIds : log[f].deaf => log[f].acquired = <<>>

\* Every log that has its name is as it was taken, and says so.
LogsAreKept ==
    TypeOK /\ NamedLogsAreWhole /\ LogsAreApart /\ SummaryIsRight /\ DeafLogsAreEmpty
=============================================================================
