--------------------------- MODULE LogBuffersProps ---------------------------
(***************************************************************************)
(* What the main loop of logData() promises about the records, stated over *)
(* the states of LogBuffers: the order of the records on the card, what a  *)
(* stop or a full file may cost, what the counters report, and that a log  *)
(* is closed at last.                                                      *)
(***************************************************************************)
EXTENDS LogBuffers, SequencesExt

\* The records a reader takes from a block, the first count of them, and from a
\* file: dumpData() and binaryToCsv() stop at the first block without records.
RecordsOf(blk) == SubSeq(blk.data, 1, blk.count)
RecordsOfAll(blks) == FlattenSeq([i \in DOMAIN blks |-> RecordsOf(blks[i])])
ReadBlocks(blks) ==
    LET empty == {i \in DOMAIN blks : blks[i].count = 0}
        last == IF empty = {} THEN Len(blks) ELSE Min(empty) - 1
    IN  SubSeq(blks, 1, last)
ReadFile(blks) == RecordsOfAll(ReadBlocks(blks))

\* The lines that checkOverrun() prints: the blocks with overruns.
checkOverrun(blks) ==
    LET read == ReadBlocks(blks)
        lines[i \in 0 .. Len(read)] ==
            IF i = 0 THEN <<>>
            ELSE IF read[i].overrun = 0 THEN lines[i - 1]
            ELSE Append(lines[i - 1], [bn |-> i - 1, overrun |-> read[i].overrun])
    IN  lines[Len(read)]

\* The overruns of some blocks, or of some of those lines, in all.
OverrunOf(blks) ==
    LET total[i \in 0 .. Len(blks)] ==
            IF i = 0 THEN 0 ELSE total[i - 1] + blks[i].overrun
    IN  total[Len(blks)]

\* The blocks waiting for the card, oldest first, and then the current one.
FullBlocks ==
    [i \in 1 .. QueueLen(fullHead, fullTail) |->
        block[fullQueue[(fullTail + i - 1) % QueueDim]]]
CurrentBlocks == IF curBlock = NoBlock THEN <<>> ELSE <<block[curBlock]>>

FileRecords == ReadFile(card)
BufferedRecords == RecordsOfAll(FullBlocks \o CurrentBlocks)

-----------------------------------------------------------------------------
\* Every record taken from the controller is in a queued buffer, or on the card
\* where a reader finds it, once and in the order in which it was taken, through
\* every reuse of a buffer and every block queued empty; only the block whose
\* write failed is in neither.  The summary printed at the end does not lie: its
\* sample count is the number of records a reader finds, and the passes that found
\* no buffer are the overruns of the blocks written, of those queued and the
\* counter not yet given to a block, up to the 16 bits of a block's overrun field.
\* checkOverrun() lists the total that was printed, but for the overruns of an empty block
\* at the end.
RecordsInOrder ==
    LET Unlisted == IF card # <<>> /\ card[Len(card)].count = 0
                    THEN card[Len(card)].overrun ELSE 0
    IN  pc # "writeFailed" =>
          /\ acquired = FileRecords \o BufferedRecords
          /\ count = Len(FileRecords) % Uint32
          /\ spins = (overrunTotal + OverrunOf(FullBlocks \o CurrentBlocks)
                        + overrun) % Uint16
          /\ overrunTotal = (OverrunOf(checkOverrun(card)) + Unlisted) % Uint32

\* A log that a character stopped before its file was full holds every message
\* that reached the controller, but for the one that ended the wait, those the
\* controller had no room for, and those still in the controller.  The partly
\* filled block is not left behind.
StoppedLogIsComplete ==
    pc = "close" /\ Len(card) # FileBlockCount /\ serialInput # " " =>
        Messages \cap (2 .. arrived)
          \subseteq ToSet(FileRecords) \cup lost \cup ToSet(fifo)

\* "Exit loop if done" (line 688), below "Put buffer in full queue" (line 625):
\* the loop ends, with room left in the file, when every record is written.
ExitsWhenDone ==
    pc = "close" /\ Len(card) # FileBlockCount => FileRecords = acquired

\* The silence timer closes a log that has recorded anything only when the bus
\* has been silent for 10 s, however long the loop was held up by the card.
SilenceCloseIsGenuine ==
    [][pc = "fill" /\ ~closeFile /\ closeFile' =>
         busQuiet \/ acquired' = <<>>]_vars

-----------------------------------------------------------------------------
Phase ==
    IF pc = "closed" THEN "closed"
    ELSE IF pc \in {"writeFailed", "closeFailed"} THEN "failed"
    ELSE IF Len(card) = FileBlockCount THEN "full"
    ELSE IF ~closeFile THEN "logging"
    ELSE IF serialInput = " " THEN "silent" ELSE "stopped"

Stream == INSTANCE LogStream WITH
    recorded <- acquired,
    file <- FileRecords,
    phase <- Phase,
    SilentLoss <- DataDim - 1,
    FullLoss <- BufferBlockCount * DataDim

\* The queues implement a stream of records: each step of the loop, with its
\* block at a time, its reused buffers and its full queues, records one message
\* that is newer than the last, extends the file by records already taken, or
\* does neither; and it closes with the losses LogStream allows, no more.
ImplementsLogStream == Stream!StreamSpec

-----------------------------------------------------------------------------
\* The loop runs, and a card that programs a block is ready again at last.
FairSpec == Spec /\ WF_vars(LoopStep) /\ WF_vars(CardReady)

\* The traffic ends, and time passes: a silent bus is noticed.
TrafficEnds == WF_vars(BusGoesQuiet) /\ WF_vars(SilenceExpires)

Ended == pc \in {"closed", "writeFailed", "closeFailed"}

\* "Logging - type any character to stop" (line 593): whatever state the
\* queues and the card are in, a character ends the log.
CharacterStopsLog == pc \notin {"wait"} /\ serial # <<>> ~> Ended

\* When the traffic ends, the log ends: the timer, which is looked at only when
\* there is a buffer to fill, is not starved by a slow card.
SilenceStopsLog == TrafficEnds => (pc = "poll" ~> Ended)
=============================================================================
