------------------------------ MODULE LogSession ------------------------------
(***************************************************************************)
(* The life of the logger's files from boot to boot: truncateTempfiles()   *)
(* and, over and over, logData(), as far as they change the SD card: the   *)
(* search for a name, the temporary file created, erased, written, cut to  *)
(* its length and renamed.  A step is one write that a power failure can   *)
(* separate from the next.  The blocks of a log are counted, not looked    *)
(* into: how they come to be written is the subject of LogBuffers, and how *)
(* the end of a file that was cut off is found that of TempFileRecovery.   *)
(***************************************************************************)
EXTENDS TempFile

CONSTANTS
    EraseSize,      \* ERASE_SIZE: blocks after the first of an erase call
    Radix,          \* ten: the digits of a log's number
    MaxFiles,       \* files the card has room for
    MaxFailures     \* bound: power failures

\* A single block left over by the calls of EraseSize + 1 blocks would not be
\* erased; the code does not check its constants for it.
ASSUME EraseAssumption ==
    EraseSize \in Nat \ {0} /\ FileBlockCount % (EraseSize + 1) # 1

ASSUME NamesAssumption ==
    Radix \in Nat /\ Radix > 1 /\ MaxFiles \in Nat \ {0} /\ MaxFailures \in Nat

\* The number in a log's name, FILE_BASE_NAME "000.bin", and the other name.
Numbers == [1 .. 3 -> 0 .. Radix - 1]
FirstNumber == <<0, 0, 0>>
LastNumber == <<Radix - 1, Radix - 1, Radix - 1>>
Tmp == <<>>
Names == Numbers \cup {Tmp}

\* Files are numbered in the order of their creation.
Files == 1 .. MaxFiles
NoEntry == [file |-> 0, size |-> 0]

VARIABLES
    dir,        \* the directory: each name's file and size in blocks, or NoEntry
    reach,      \* of each file: blocks that its cluster chain reaches
    erased,     \* ... blocks erased, counted from the first
    written,    \* ... blocks of it that logData() wrote
    created,    \* the number of files created
    pc,
    recovering, \* in truncateTempfiles(), not yet in logData()
    binName,    \* the number in the name searched for
    keep        \* the length, in blocks, that truncate() was given

VARIABLES       \* observation only
    made,       \* of each file: blocks written before anything was cut off
    recovered,  \* ... how often truncateTempfiles() cut it
    aliased,    \* files whose rename was cut off
    failures

cardVars == <<ones, dir, reach, erased, written, created>>
ramVars == <<pc, recovering, binName, keep>>
seenVars == <<made, recovered, aliased, failures>>
vars == <<cardVars, ramVars, seenVars>>

\* sd.exists(), and O_EXCL.  Mutant: a file without data does not count.
ExistsWithData(name) == dir[name].size # 0
Exists(name) == dir[name] # NoEntry
TmpFile == dir[Tmp].file

Init ==
    /\ ones \in BOOLEAN
    /\ dir = [n \in Names |-> NoEntry]
    /\ reach = [f \in Files |-> 0]
    /\ erased = [f \in Files |-> 0]
    /\ written = [f \in Files |-> 0]
    /\ created = 0
    /\ pc = "boot" /\ recovering = TRUE
    /\ binName = FirstNumber
    /\ keep = 0
    /\ made = [f \in Files |-> 0]
    /\ recovered = [f \in Files |-> 0]
    /\ aliased = {}
    /\ failures = 0

-----------------------------------------------------------------------------
(* truncateTempfiles() *)

NoTempFile ==
    /\ pc = "boot" /\ ~Exists(Tmp)
    /\ pc' = "name" /\ recovering' = FALSE
    /\ UNCHANGED <<cardVars, binName, keep, seenVars>>

\* How far the logger had come with the file that was found.
CauseFound ==
    LET whole == dir[Tmp].size = FileBlockCount /\ reach[TmpFile] >= FileBlockCount
    IN  IF erased[TmpFile] < FileBlockCount
          THEN IF whole THEN "erasing" ELSE "creating"
          ELSE IF whole THEN "logging" ELSE "cutting"

FindEnd ==
    \E result \in RecoveryResults(CauseFound, written[TmpFile], reach[TmpFile]) :
        \/ /\ result = Removed
           /\ pc' = "remove"
           /\ UNCHANGED <<keep, recovered>>
        \/ /\ result = Fatal
           /\ pc' = "fatal"
           /\ UNCHANGED <<keep, recovered>>
        \/ /\ result \in 0 .. dir[Tmp].size
           /\ pc' = "free" /\ keep' = result
           /\ recovered' = [recovered EXCEPT ![TmpFile] = @ + 1]

RecoverTempFile ==
    /\ pc = "boot" /\ Exists(Tmp)
    /\ FindEnd
    /\ UNCHANGED <<cardVars, recovering, binName, made, aliased, failures>>

\* remove(): the clusters of a file without data are freed, then its entry.
FreeFile ==
    /\ pc = "remove"
    /\ reach' = [reach EXCEPT ![TmpFile] = 0]
    /\ pc' = "delete"
    /\ UNCHANGED <<ones, dir, erased, written, created, recovering, binName, keep, seenVars>>

DeleteEntry ==
    /\ pc = "delete"
    /\ dir' = [dir EXCEPT ![Tmp] = NoEntry]
    /\ pc' = "name" /\ recovering' = FALSE
    /\ UNCHANGED <<ones, reach, erased, written, created, binName, keep, seenVars>>

-----------------------------------------------------------------------------
(* truncate(): the clusters behind the new end, then the entry. *)

FreeTail ==
    /\ pc = "free"
    /\ IF keep <= reach[TmpFile] /\ keep <= dir[Tmp].size
         THEN /\ reach' = [reach EXCEPT ![TmpFile] = keep]
              /\ pc' = "resize"
         ELSE UNCHANGED reach /\ pc' = "fatal"
    /\ UNCHANGED <<ones, dir, erased, written, created, recovering, binName, keep, seenVars>>

Resize ==
    /\ pc = "resize"
    /\ dir' = [dir EXCEPT ![Tmp].size = keep]
    /\ written' = [written EXCEPT ![TmpFile] = IF keep < @ THEN keep ELSE @]
    /\ pc' = IF recovering THEN "name" ELSE "rename"
    /\ UNCHANGED <<ones, reach, erased, created, recovering, binName, keep, seenVars>>

-----------------------------------------------------------------------------
(* The search for a name, in both functions. *)

\* Mutant: nothing is carried.
NextNumberNoCarry(d) ==
    IF d[3] # Radix - 1 THEN [d EXCEPT ![3] = @ + 1] ELSE [d EXCEPT ![3] = 0]
NextNumber(d) ==
    IF d[3] # Radix - 1 THEN [d EXCEPT ![3] = @ + 1]
    ELSE IF d[2] # Radix - 1 THEN [d EXCEPT ![3] = 0, ![2] = @ + 1]
    ELSE [d EXCEPT ![3] = 0, ![2] = 0, ![1] = @ + 1]

TryNextName ==
    /\ pc = "name" /\ Exists(binName)
    /\ binName' = NextNumber(binName)
    /\ pc' = IF binName' = LastNumber THEN "fatal" ELSE "name"
    /\ UNCHANGED <<cardVars, recovering, keep, seenVars>>

NameFound ==
    /\ pc = "name" /\ ~Exists(binName)
    /\ pc' = IF recovering THEN "rename" ELSE "create"
    /\ UNCHANGED <<cardVars, recovering, binName, keep, seenVars>>

-----------------------------------------------------------------------------
(* logData() *)

\* createContiguous(): the entry is written before the last of the chain.
CreateFile ==
    /\ pc = "create" /\ ~Exists(Tmp) /\ created < MaxFiles
    /\ created' = created + 1
    /\ dir' = [dir EXCEPT ![Tmp] = [file |-> created', size |-> FileBlockCount]]
    /\ pc' = "link"
    /\ UNCHANGED <<ones, reach, erased, written, recovering, binName, keep, seenVars>>

LinkClusters ==
    /\ pc = "link"
    /\ reach' = [reach EXCEPT ![TmpFile] = FileBlockCount]
    /\ pc' = "erase"
    /\ UNCHANGED <<ones, dir, erased, written, created, recovering, binName, keep, seenVars>>

\* The erase calls start at bgnErase = erased[TmpFile]; block FileBlockCount - 1
\* is endBlock.
MoreToErase == erased[TmpFile] < FileBlockCount - 1
EndErase ==
    IF erased[TmpFile] + EraseSize > FileBlockCount - 1
      THEN FileBlockCount - 1
      ELSE erased[TmpFile] + EraseSize

EraseBlocks ==
    /\ pc = "erase" /\ MoreToErase
    /\ erased' = [erased EXCEPT ![TmpFile] = EndErase + 1]
    /\ UNCHANGED <<ones, dir, reach, written, created, ramVars, seenVars>>

\* writeStart(), and the wait for a message.
StartWriting ==
    /\ pc = "erase" /\ ~MoreToErase
    /\ pc' = "wait"
    /\ UNCHANGED <<cardVars, recovering, binName, keep, seenVars>>

FirstMessage ==
    /\ pc = "wait"
    /\ pc' = "log"
    /\ UNCHANGED <<cardVars, recovering, binName, keep, seenVars>>

WriteBlock ==
    /\ pc = "log"
    /\ written' = [written EXCEPT ![TmpFile] = @ + 1]
    /\ made' = [made EXCEPT ![TmpFile] = @ + 1]
    /\ pc' = IF written'[TmpFile] = FileBlockCount THEN "stop" ELSE "log"
    /\ UNCHANGED <<ones, dir, reach, erased, created, recovering, binName, keep,
                   recovered, aliased, failures>>

StopLogging ==
    /\ pc = "log"
    /\ pc' = "stop"
    /\ UNCHANGED <<cardVars, recovering, binName, keep, seenVars>>

\* writeStop(); a full file is not cut.  Mutant: a block too many is kept.
LengthToKeepOneMore == written[TmpFile] + 1
LengthToKeep == written[TmpFile]

CloseFile ==
    /\ pc = "stop"
    /\ IF written[TmpFile] # FileBlockCount
         THEN pc' = "free" /\ keep' = LengthToKeep
         ELSE pc' = "rename" /\ UNCHANGED keep
    /\ UNCHANGED <<cardVars, recovering, binName, seenVars>>

-----------------------------------------------------------------------------
(* rename(), and what follows: loop() calls logData() again. *)

AfterRename == pc' = "name" /\ recovering' = FALSE

\* Both entries are in one block of the directory.
RenameAtOnce ==
    /\ pc = "rename" /\ ~Exists(binName)
    /\ dir' = [dir EXCEPT ![binName] = dir[Tmp], ![Tmp] = NoEntry]
    /\ AfterRename
    /\ UNCHANGED <<ones, reach, erased, written, created, binName, keep, seenVars>>

\* They are in two: the new one is written first.
WriteNewEntry ==
    /\ pc = "rename" /\ ~Exists(binName)
    /\ dir' = [dir EXCEPT ![binName] = dir[Tmp]]
    /\ pc' = "renamed"
    /\ UNCHANGED <<ones, reach, erased, written, created, recovering, binName, keep, seenVars>>

RemoveOldEntry ==
    /\ pc = "renamed"
    /\ dir' = [dir EXCEPT ![Tmp] = NoEntry]
    /\ AfterRename
    /\ UNCHANGED <<ones, reach, erased, written, created, binName, keep, seenVars>>

-----------------------------------------------------------------------------
\* A rename that ends here has left two names for the file.
RenameCutOff ==
    aliased' = IF pc = "renamed" THEN aliased \cup {TmpFile} ELSE aliased

\* One of the calls that change the card fails, and error() does not return.
CallFails ==
    /\ pc \in {"remove", "delete", "create", "link", "erase", "log", "stop",
              "free", "resize", "rename", "renamed"}
    /\ pc' = "fatal"
    /\ RenameCutOff
    /\ UNCHANGED <<cardVars, recovering, binName, keep, made, recovered, failures>>

\* The power fails and comes back: setup() starts with what is on the card.
PowerFails ==
    /\ failures < MaxFailures
    /\ failures' = failures + 1
    /\ pc' = "boot" /\ recovering' = TRUE
    /\ binName' = FirstNumber
    /\ RenameCutOff
    /\ UNCHANGED <<cardVars, keep, made, recovered>>

\* fatalBlink(), until the power fails.
Blinking ==
    /\ pc = "fatal"
    /\ UNCHANGED vars

ProgramStep ==
    \/ NoTempFile \/ RecoverTempFile \/ FreeFile \/ DeleteEntry
    \/ FreeTail \/ Resize
    \/ TryNextName \/ NameFound
    \/ CreateFile \/ LinkClusters \/ EraseBlocks \/ StartWriting
    \/ FirstMessage \/ WriteBlock \/ StopLogging \/ CloseFile \/ CallFails
    \/ RenameAtOnce \/ WriteNewEntry \/ RemoveOldEntry

Next == ProgramStep \/ PowerFails \/ Blinking

Spec == Init /\ [][Next]_vars
FairSpec == Spec /\ WF_vars(ProgramStep)

-----------------------------------------------------------------------------
Pcs == {"boot", "remove", "delete", "free", "resize", "name", "create", "link",
        "erase", "wait", "log", "stop", "rename", "renamed", "fatal"}

TypeOK ==
    /\ ones \in BOOLEAN
    /\ dir \in [Names -> [file : 0 .. MaxFiles, size : 0 .. FileBlockCount]]
    /\ reach \in [Files -> 0 .. FileBlockCount]
    /\ erased \in [Files -> 0 .. FileBlockCount]
    /\ written \in [Files -> 0 .. FileBlockCount]
    /\ created \in 0 .. MaxFiles
    /\ pc \in Pcs
    /\ recovering \in BOOLEAN
    /\ binName \in Numbers
    /\ keep \in 0 .. FileBlockCount
    /\ made \in [Files -> 0 .. FileBlockCount]
    /\ recovered \in [Files -> Nat]
    /\ aliased \subseteq Files
    /\ failures \in 0 .. MaxFailures

Logs == {n \in Numbers : dir[n] # NoEntry}

\* The names of the logs give the order in which they were recorded.
Value(d) == (d[1] * Radix + d[2]) * Radix + d[3]
NamesInOrder ==
    \A m, n \in Logs : Value(m) < Value(n) => dir[m].file <= dir[n].file

\* The entry of a log promises only blocks that its clusters reach, however often the
\* power failed, unless its erasure was not completed or its rename was cut off between
\* the two writes.  All of them were written by logData() if the card erases to ones or
\* the file was never recovered; a card that erases to zeros hides where the data ended.
WrittenOnly(f) == ones \/ recovered[f] = 0
LogsPromiseNoMore ==
    \A n \in Logs :
        LET f == dir[n].file IN
        f \notin aliased /\ erased[f] >= FileBlockCount =>
            /\ dir[n].size <= reach[f]
            /\ WrittenOnly(f) => dir[n].size <= written[f]

\* When blocks are written the whole file has been erased: the recovery relies
\* on it to find the end.
ErasedBeforeWriting == pc \in {"wait", "log"} => erased[TmpFile] >= FileBlockCount

\* A log is whole and has its place among the others, and what the recovery relies
\* on to make it whole is there.
LogsAreWhole == TypeOK /\ NamesInOrder /\ LogsPromiseNoMore /\ ErasedBeforeWriting

\* What was written is found: when logging starts, every earlier file into which
\* blocks were written is a log that lacks at most one block for each time it
\* was recovered.
NothingWrittenIsLost ==
    pc = "wait" =>
        \A f \in Files :
            made[f] > recovered[f] =>
                /\ reach[f] >= made[f] - recovered[f]
                /\ \E n \in Logs :
                     dir[n].file = f /\ dir[n].size >= made[f] - recovered[f]

\* The logs of all sessions, as the next session finds them: names in order, entries that
\* promise no more than is there, nothing but the log's own in them, and every block that
\* was written but for the last ones of a recovered file.
LogsAreFound == LogsAreWhole /\ NothingWrittenIsLost

\* No log loses anything to another: a log that has its name keeps its entry,
\* its clusters and its blocks in every step, unless the temporary file is the
\* same file, left by a rename that was cut off.
LogsStay ==
    [][\A n \in Logs :
         /\ dir'[n] = dir[n]
         /\ LET f == dir[n].file IN
              f # TmpFile => reach'[f] = reach[f] /\ written'[f] = written[f]]_vars

\* Nothing that a power failure leaves keeps the logger from coming up, or from
\* reporting that it cannot: the search for a name ends, too.
ComesUp == pc = "boot" ~> pc \in {"wait", "fatal"}
=============================================================================
