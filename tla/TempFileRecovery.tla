-------------------------- MODULE TempFileRecovery --------------------------
(***************************************************************************)
(* truncateTempfiles(): at boot, a temporary file left by a power failure  *)
(* is cut down to the blocks that were written, found by bisection over    *)
(* the first four bytes of its blocks, and kept as a log.                  *)
(*                                                                         *)
(* A block counts as erased when those bytes are all 0xFF; a block that    *)
(* was written starts with a count of at most DATA_DIM records, so it      *)
(* never does.  Nor does an erased block on a card that erases to zeros.   *)
(* seekSet() refuses a position past the end of the file, or past what the *)
(* cluster chain reaches, and leaves the file where it was; the loop does  *)
(* not look at its result.  read() returns -1, stored as 0xFF, at the end  *)
(* of the file.  Card errors are left out.                                 *)
(***************************************************************************)
EXTENDS TempFile

VARIABLES
    cause,      \* what logData() was doing when the power failed
    dataEnd,    \* blocks it had written
    size,       \* blocks in the file, by its directory entry
    chainEnd,   \* ... and by its cluster chain
    blank,      \* the blocks whose first bytes are 0xFF
    step, lowIndex, highIndex, fileIndex,
    at, inside  \* position of the file: a block, and whether past its start

diskVars == <<ones, cause, dataEnd, size, chainEnd, blank>>
recoveryVars == <<diskVars, step, lowIndex, highIndex, fileIndex, at, inside>>

FileBlocks == 0 .. FileBlockCount - 1

\* The file the power failure left.  createContiguous() makes it FileBlockCount blocks
\* long, and writes the directory entry before the last of the cluster chain; the blocks
\* not yet erased hold anything.  truncate() first frees the clusters and then writes the
\* directory entry; it is called when a log ends, and again by each recovery, so that the
\* file may already lack blocks.
InitRecovery ==
    /\ ones \in BOOLEAN
    /\ cause \in Causes
    /\ dataEnd \in 0 .. FileBlockCount
    /\ size \in 0 .. FileBlockCount
    /\ chainEnd \in 0 .. size
    /\ cause \in {"creating", "erasing"} => dataEnd = 0
    /\ cause \in {"erasing", "logging"} => size = FileBlockCount /\ chainEnd = size
    /\ cause = "cutting" =>
         /\ dataEnd <= size /\ dataEnd <= chainEnd + 1
         /\ ones /\ size < FileBlockCount => size = dataEnd
    /\ blank \in SUBSET FileBlocks
    /\ cause \in {"logging", "cutting"} =>
         blank = {b \in FileBlocks : ones /\ b >= dataEnd}
    /\ step = "open"
    /\ lowIndex = 0 /\ highIndex = FileBlockCount /\ fileIndex = 0
    /\ at = 0 /\ inside = FALSE

\* The outcomes of reading four bytes at a position and comparing them to 0xFF.
\* Past the start of a written block they are bytes of a record.
ReadsErased(block, past) ==
    IF block >= chainEnd THEN {TRUE}
    ELSE IF past /\ (block < dataEnd \/ cause \in {"creating", "erasing"}) THEN BOOLEAN
    ELSE {block \in blank}

\* A file without a written block is removed.
OpenTemp ==
    /\ step = "open"
    /\ \E erase \in ReadsErased(0, FALSE) :
         step' = IF erase THEN "removed" ELSE "probe"
    /\ inside' = (chainEnd > 0)
    /\ UNCHANGED <<diskVars, lowIndex, highIndex, fileIndex, at>>

\* Mutant: the half above the probe without its odd block.
LowerHighLess ==
    /\ highIndex' = highIndex - (highIndex - lowIndex) \div 2 - 1
    /\ lowIndex' = lowIndex
LowerHigh ==
    /\ highIndex' = highIndex - (highIndex - lowIndex) \div 2
    /\ lowIndex' = lowIndex

\* Mutant: the block probed is taken to be below the data it belongs to.
RaiseLowPast ==
    /\ lowIndex' = lowIndex + (highIndex - lowIndex) \div 2 + 1
    /\ highIndex' = highIndex
RaiseLow ==
    /\ lowIndex' = lowIndex + (highIndex - lowIndex) \div 2
    /\ highIndex' = highIndex

\* Mutant: an interval of one block is searched again.
StillSearchingAtOne == highIndex' - lowIndex' >= 1
StillSearching == highIndex' - lowIndex' >= 2

Probe ==
    /\ step = "probe"
    /\ fileIndex' = (highIndex + lowIndex) \div 2
    /\ IF fileIndex' <= chainEnd
         THEN at' = fileIndex' /\ inside' = (fileIndex' < chainEnd)
         ELSE UNCHANGED <<at, inside>>
    /\ \E erase \in ReadsErased(at', fileIndex' > chainEnd /\ inside) :
         IF erase THEN LowerHigh ELSE RaiseLow
    /\ step' = IF StillSearching THEN "probe" ELSE "found"
    /\ UNCHANGED diskVars

\* truncate() to the block probed last; a longer file than there is, or than the
\* chain reaches, is an error, and errorFlash() does not return.
Truncate ==
    /\ step = "found"
    /\ IF fileIndex <= size /\ fileIndex <= chainEnd
         THEN step' = "kept" /\ size' = fileIndex /\ chainEnd' = fileIndex
         ELSE step' = "fatal" /\ UNCHANGED <<size, chainEnd>>
    /\ UNCHANGED <<ones, cause, dataEnd, blank, lowIndex, highIndex, fileIndex, at, inside>>

\* The file has its new name, has been removed, or the LED blinks for ever.
Ended == step \in {"kept", "removed", "fatal"}
Recovered ==
    /\ Ended
    /\ UNCHANGED recoveryVars

NextRecovery == OpenTemp \/ Probe \/ Truncate \/ Recovered

SpecRecovery == InitRecovery /\ [][NextRecovery]_recoveryVars

-----------------------------------------------------------------------------
RecoveryTypeOK ==
    /\ ones \in BOOLEAN
    /\ cause \in Causes
    /\ dataEnd \in 0 .. FileBlockCount
    /\ size \in 0 .. FileBlockCount
    /\ chainEnd \in 0 .. FileBlockCount
    /\ blank \in SUBSET FileBlocks
    /\ step \in {"open", "probe", "found", "kept", "removed", "fatal"}
    /\ lowIndex \in 0 .. FileBlockCount
    /\ highIndex \in 0 .. FileBlockCount
    /\ fileIndex \in 0 .. FileBlockCount
    /\ at \in 0 .. FileBlockCount
    /\ inside \in BOOLEAN

\* While logging was cut off, the end that can be seen stays between the two indices,
\* whatever the number of blocks and wherever the data ends: that of the data on a card
\* that erases to ones, and that of the file on one that erases to zeros.
EndIsBracketed ==
    cause = "logging" /\ step \in {"probe", "found"} =>
        /\ lowIndex < EndSeen(dataEnd, FileBlockCount)
        /\ EndSeen(dataEnd, FileBlockCount) <= highIndex

\* A log cut off by a power failure keeps every block written, but perhaps the last.  On
\* a card that erases to ones it keeps no block that was only erased, and one in which
\* nothing was written leaves no file; on a card that erases to zeros it keeps all blocks
\* of the file but the last, those never written among them, and is never removed.
KeepsAllButTheLast ==
    cause = "logging" =>
        /\ step = "kept" =>
             /\ size >= dataEnd - 1
             /\ IF ones THEN size <= dataEnd ELSE size = FileBlockCount - 1
        /\ step = "removed" => dataEnd = 0 /\ ones
        /\ step # "fatal"

\* The recovery does to the file what the log session, which sees one step of
\* it, takes it to do.
ResultIsForeseen ==
    [][LET results == RecoveryResults(cause, dataEnd, chainEnd)
       IN  /\ step' = "removed" => Removed \in results
           /\ step' = "fatal" => Fatal \in results
           /\ step' = "kept" => size' \in results]_recoveryVars

\* Each probe narrows the search, so that the loop cannot run for ever even if
\* what it reads makes no sense: an interrupted erase, a cut cluster chain.
ProbeNarrows ==
    [][step = "probe" => \/ highIndex' - lowIndex' < highIndex - lowIndex
                       \/ step' = "found"]_recoveryVars
=============================================================================
