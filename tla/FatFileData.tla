---------------------------- MODULE FatFileData ----------------------------
(***************************************************************************)
(* A file of SdFat as its owner reads, writes, seeks, cuts and             *)
(* synchronises it: FatFile's position and cluster, the one block FatCache *)
(* keeps of data and directory, the one it keeps of the FAT, and the card. *)
(* Loops over the blocks of a transfer are taken one turn at a time.  The  *)
(* card may refuse a write; the power may fail in every state, and what    *)
(* the card then holds is a function of the state.                         *)
(***************************************************************************)
EXTENDS Integers, Sequences, SequencesExt

CONSTANTS
    LastCluster,    \* m_lastCluster
    BlocksPerCluster,
    BlockSize,      \* units of a block: what a write may be a multiple of
    WriteSizes, ReadSizes,  \* units given to write() and read()
    OtherFiles,     \* the sets of clusters that other files, of one each, may have
    MaxCalls,       \* bound: calls
    MaxRefused      \* bound: writes the card refuses

ASSUME SizesAssumption ==
    /\ LastCluster \in Nat /\ LastCluster >= 2
    /\ BlocksPerCluster \in Nat \ {0} /\ BlockSize \in Nat \ {0, 1}
    /\ WriteSizes \subseteq Nat \ {0} /\ ReadSizes \subseteq Nat \ {0}
    /\ MaxCalls \in Nat /\ MaxRefused \in Nat

Clusters == 2 .. LastCluster
ASSUME OthersAssumption == OtherFiles \subseteq SUBSET Clusters
ClusterSize == BlockSize * BlocksPerCluster
Blocks == 0 .. (LastCluster - 1) * BlocksPerCluster - 1
NoBlock == -100     \* what an empty cache holds: 0xFFFFFFFF
DirBlock == -50     \* the block of the directory entry, far from the data
Free == 0
Eoc == -1
Old == 0            \* what is in a block that was never written
EmptyEntry == [size |-> 0, first |-> 0]
NoPosition == -1    \* sync() was not called by truncate()

VARIABLES           \* the open file
    pc,
    m_fileSize, m_curPosition, m_curCluster, m_firstCluster, dirDirty,
    value, nToWrite, toRead, got, newPos

VARIABLES           \* the volume
    cache, fatCache, fatDirty, disk, fatDisk, searchStart,
    others          \* clusters of other files

VARIABLES           \* observation only
    content,        \* the units of the file, those of a write under way included
    size,           \* how many of them the file has
    synced, grown,  \* the file when it was synchronised last, if only grown since
    unmoored,       \* the file was cut to nothing and kept a cluster
    overlapped,     \* a transfer of several blocks missed the block in the cache
    refused,        \* a write was refused: number of times
    calls

memory == <<m_fileSize, m_curPosition, m_curCluster, m_firstCluster, dirDirty>>
local == <<value, nToWrite, toRead, got, newPos>>
fatVars == <<fatCache, fatDirty, fatDisk, searchStart, others>>
observed == <<content, size, synced, grown, unmoored, overlapped, refused>>
vars == <<pc, memory, local, cache, disk, fatVars, observed, calls>>

Blank == [i \in 1 .. BlockSize |-> Old]
Init ==
    /\ pc = "idle"
    /\ m_fileSize = 0 /\ m_curPosition = 0 /\ m_curCluster = 0 /\ m_firstCluster = 0
    /\ dirDirty = FALSE
    /\ value = 0 /\ nToWrite = 0 /\ toRead = 0 /\ got = <<>> /\ newPos = NoPosition
    /\ cache = [lbn |-> NoBlock, dirty |-> FALSE, data |-> Blank]
    /\ others \in OtherFiles
    /\ fatCache = [c \in Clusters |-> IF c \in others THEN Eoc ELSE Free]
    /\ fatDisk = fatCache /\ fatDirty = FALSE
    /\ disk = [b \in Blocks \cup {DirBlock} |->
                 IF b = DirBlock THEN EmptyEntry ELSE Blank]
    /\ searchStart = 1
    /\ content = <<>> /\ size = 0 /\ synced = <<>> /\ grown = TRUE
    /\ unmoored = FALSE /\ overlapped = FALSE /\ refused = 0 /\ calls = 0

-----------------------------------------------------------------------------
(* FatVolume, FatCache *)

StartBlock(c) == (c - 2) * BlocksPerCluster

\* FatCache::sync(): what the card holds when the cached block has been written.
Synced == IF cache.dirty THEN [disk EXCEPT ![cache.lbn] = cache.data] ELSE disk

\* FatCache::read(): the cached block is written back before another takes its
\* place; a reserved block is not read.
Fetch(block, reserve) ==
    IF cache.lbn = block THEN cache
    ELSE [lbn |-> block, dirty |-> FALSE,
          data |-> IF reserve THEN [i \in 1 .. BlockSize |-> Old] ELSE disk[block]]
Flushed(block) == IF cache.lbn = block THEN disk ELSE Synced
\* A cached block that is fetched can only be refused to be written back.
MayBeRefused(block) == cache.lbn # block /\ cache.dirty

\* The cluster n places behind c in its chain.
Follow(fat, c, n) ==
    LET after[k \in 0 .. n] ==
          IF k = 0 THEN c
          ELSE IF after[k - 1] \in Clusters THEN fat[after[k - 1]] ELSE after[k - 1]
    IN  after[n]
Chain(fat, c) == {Follow(fat, c, k) : k \in 0 .. LastCluster} \cap Clusters

\* allocateCluster(): the first free cluster behind the last one of the file, or
\* behind the place where the search begins.
Distance(c, start) == (c - start - 1) % (LastCluster - 1)
FreeClusters == {c \in Clusters : fatCache[c] = Free}
FirstFree(start) ==
    CHOOSE c \in FreeClusters :
        \A d \in FreeClusters : Distance(c, start) <= Distance(d, start)

-----------------------------------------------------------------------------
(* seekSet() *)

\* The cluster that seekSet(pos) arrives at, from the position and the cluster now.
Index(pos) == (pos - 1) \div ClusterSize
ClusterAt(pos) ==
    IF pos = m_curPosition THEN m_curCluster
    ELSE IF pos = 0 THEN 0
    ELSE IF m_curPosition = 0 \/ Index(pos) < Index(m_curPosition)
           THEN Follow(fatCache, m_firstCluster, Index(pos))
           ELSE Follow(fatCache, m_curCluster, Index(pos) - Index(m_curPosition))

\* A chain that ends before makes the seek fail, and whatever needs it: nothing is
\* changed.
Reached(pos) == ClusterAt(pos) # Eoc

SeekSet ==
    /\ pc = "idle" /\ calls < MaxCalls
    /\ \E p \in 0 .. m_fileSize :
         /\ p # m_curPosition /\ Reached(p)
         /\ m_curCluster' = ClusterAt(p) /\ m_curPosition' = p
    /\ calls' = calls + 1
    /\ UNCHANGED <<pc, m_fileSize, m_firstCluster, dirDirty, local, cache, disk, fatVars,
                   observed>>

-----------------------------------------------------------------------------
(* write() *)

\* A refused write at position 0 leaves the file a cluster that a seek to 0 would
\* take from it, but truncate(0) there does not seek.  The next write follows the
\* freed cluster to cluster 0, in front of the data: what it does there is not in
\* this model.
StartWrite ==
    /\ pc = "idle" /\ calls < MaxCalls /\ ~unmoored
    /\ calls' = calls + 1
    /\ nToWrite' \in WriteSizes /\ value' = calls'
    /\ \E append \in BOOLEAN :     \* O_APPEND
         /\ m_curPosition' = IF append THEN m_fileSize ELSE m_curPosition
         /\ Reached(m_curPosition') /\ m_curCluster' = ClusterAt(m_curPosition')
    /\ grown' = (grown /\ m_curPosition' >= Len(synced))
    /\ pc' = "cluster"
    /\ UNCHANGED <<m_fileSize, m_firstCluster, dirDirty, toRead, got, newPos, cache, disk, fatVars, content, size,
                   synced, unmoored, overlapped, refused>>

Offset == m_curPosition % BlockSize
BlockOfCluster == (m_curPosition \div BlockSize) % BlocksPerCluster
AtNewCluster == Offset = 0 /\ BlockOfCluster = 0
Block == StartBlock(m_curCluster) + BlockOfCluster

WriteFails ==
    /\ pc' = "idle" /\ nToWrite' = 0 /\ value' = 0

\* At the start of a cluster the file goes on to its next one, or gets one.
AddCluster(c) ==
    /\ fatCache' = [d \in Clusters |->
                      IF d = c THEN Eoc ELSE IF d = m_curCluster THEN c ELSE fatCache[d]]
    /\ fatDirty' = TRUE /\ dirDirty' = TRUE
    /\ m_curCluster' = c
    /\ m_firstCluster' = IF m_curCluster = 0 THEN c ELSE m_firstCluster
    /\ searchStart' = IF m_curCluster = 0 THEN c ELSE searchStart
    /\ UNCHANGED <<fatDisk, others>>

EnterCluster ==
    /\ pc = "cluster" /\ nToWrite > 0
    /\ LET needed == IF m_curCluster # 0 THEN fatCache[m_curCluster] = Eoc
                                         ELSE m_firstCluster = 0
           start == IF m_curCluster # 0 THEN m_curCluster ELSE searchStart
       IN  IF AtNewCluster /\ needed /\ FreeClusters = {}
             THEN \* the card is full: what was written behind the end is no part
                  \* of the file, but the position stays there
                  /\ WriteFails /\ dirDirty' = TRUE
                  /\ content' = SubSeq(content, 1, size)
                  /\ UNCHANGED <<m_fileSize, m_curPosition, m_curCluster, m_firstCluster,
                                 fatVars>>
             ELSE /\ IF AtNewCluster
                       THEN IF needed
                              THEN AddCluster(FirstFree(start))
                              ELSE /\ m_curCluster' = IF m_curCluster # 0
                                                        THEN fatCache[m_curCluster]
                                                        ELSE m_firstCluster
                                   /\ UNCHANGED <<m_firstCluster, dirDirty, fatVars>>
                       ELSE UNCHANGED <<m_curCluster, m_firstCluster, dirDirty, fatVars>>
                  /\ pc' = "block"
                  /\ UNCHANGED <<m_fileSize, m_curPosition, value, nToWrite, content>>
    /\ UNCHANGED <<toRead, got, newPos, cache, disk, size, synced, grown, unmoored, overlapped,
                   refused, calls>>

\* The units a turn has written.
Wrote(n) ==
    /\ m_curPosition' = m_curPosition + n /\ nToWrite' = nToWrite - n
    /\ content' = [i \in 1 .. IF m_curPosition + n > Len(content)
                                THEN m_curPosition + n ELSE Len(content) |->
                     IF i > m_curPosition /\ i <= m_curPosition + n THEN value
                     ELSE IF i <= Len(content) THEN content[i] ELSE Old]
    /\ pc' = "cluster"
    /\ UNCHANGED <<m_fileSize, m_curCluster, m_firstCluster, dirDirty, value, refused>>
\* The turn ends because the card refuses a write: write() returns -1.
Refused ==
    /\ refused < MaxRefused /\ refused' = refused + 1
    /\ WriteFails
    /\ UNCHANGED <<memory, content>>

Smaller(a, b) == IF a < b THEN a ELSE b
Multiple == Offset = 0 /\ nToWrite >= 2 * BlockSize
Single == Offset = 0 /\ nToWrite >= BlockSize /\ ~Multiple

\* A part of a block goes through the cache, which is written when the block is
\* full; a block behind the end of the file need not be read first.
ReserveAnyNew == Offset = 0
Reserve == Offset = 0 /\ m_curPosition >= m_fileSize
WritePart ==
    /\ pc = "block" /\ ~Multiple /\ ~Single
    /\ LET n == Smaller(BlockSize - Offset, nToWrite)
           fetched == Fetch(Block, Reserve)
           data == [i \in 1 .. BlockSize |->
                      IF i > Offset /\ i <= Offset + n THEN value ELSE fetched.data[i]]
           full == Offset + n = BlockSize
           flushed == Flushed(Block)
       IN \/ /\ Wrote(n)
             /\ cache' = [lbn |-> Block, dirty |-> ~full, data |-> data]
             /\ disk' = IF full THEN [flushed EXCEPT ![Block] = data] ELSE flushed
          \/ /\ MayBeRefused(Block) /\ Refused
             /\ UNCHANGED <<cache, disk>>
          \/ /\ full /\ Refused
             /\ cache' = [lbn |-> Block, dirty |-> TRUE, data |-> data]
             /\ disk' = flushed
    /\ UNCHANGED <<toRead, got, newPos, fatVars, size, synced, grown, unmoored, overlapped, calls>>

\* Whole blocks go to the card as they are, and the cache forgets them.
Invalidated == [cache EXCEPT !.lbn = NoBlock, !.dirty = FALSE]
WholeBlock == [i \in 1 .. BlockSize |-> value]
WriteBlock ==
    /\ pc = "block" /\ Single
    /\ cache' = IF cache.lbn = Block THEN Invalidated ELSE cache
    /\ \/ Wrote(BlockSize) /\ disk' = [disk EXCEPT ![Block] = WholeBlock]
       \/ Refused /\ UNCHANGED disk
    /\ UNCHANGED <<toRead, got, newPos, fatVars, size, synced, grown, unmoored, overlapped, calls>>

\* Several blocks, in the present cluster.  The block in the cache is compared with
\* the first block of the transfer, from the wrong side.
InRange(nb) == cache.lbn \in Block .. Block + nb - 1
Compared(nb) == cache.lbn <= Block /\ Block < cache.lbn + nb
WriteBlocks ==
    /\ pc = "block" /\ Multiple
    /\ LET nb == Smaller(BlocksPerCluster - BlockOfCluster, nToWrite \div BlockSize)
       IN  /\ cache' = IF Compared(nb) THEN Invalidated ELSE cache
           /\ overlapped' = (overlapped \/ IF Compared(nb) THEN ~InRange(nb) /\ cache.dirty
                                                           ELSE InRange(nb))
           /\ \/ /\ Wrote(nb * BlockSize)
                 /\ disk' = [b \in DOMAIN disk |->
                               IF b \in Block .. Block + nb - 1 THEN WholeBlock ELSE disk[b]]
              \/ /\ Refused
                 /\ \E k \in 0 .. nb - 1 :
                      disk' = [b \in DOMAIN disk |->
                                 IF b \in Block .. Block + k - 1 THEN WholeBlock
                                                                 ELSE disk[b]]
    /\ UNCHANGED <<toRead, got, newPos, fatVars, size, synced, grown, unmoored, calls>>

\* The date of the last change makes the entry due even if the size stays.
WriteReturns ==
    /\ pc = "cluster" /\ nToWrite = 0
    /\ m_fileSize' = IF m_curPosition > m_fileSize THEN m_curPosition ELSE m_fileSize
    /\ dirDirty' = TRUE
    /\ size' = Len(content)
    /\ value' = 0
    /\ pc' \in {"idle", "entry"}    \* O_SYNC
    /\ UNCHANGED <<m_curPosition, m_curCluster, m_firstCluster, nToWrite, toRead, got,
                   newPos, cache, disk, fatVars, content, synced, grown, unmoored, overlapped,
                   refused, calls>>

-----------------------------------------------------------------------------
(* read() *)

\* What is left of the file: a position behind the end, where a write that found no
\* room leaves it, makes the difference wrap and the size no limit.
StartRead ==
    /\ pc = "idle" /\ calls < MaxCalls
    /\ calls' = calls + 1
    /\ \E n \in ReadSizes :
         toRead' = IF m_curPosition <= m_fileSize
                     THEN Smaller(n, m_fileSize - m_curPosition) ELSE n
    /\ pc' = "read"
    /\ UNCHANGED <<memory, value, nToWrite, got, newPos, cache, disk, fatVars, observed>>

ReadReturns ==
    /\ pc = "read" /\ toRead = 0
    /\ pc' = "idle" /\ got' = <<>>
    /\ UNCHANGED <<memory, value, nToWrite, toRead, newPos, cache, disk, fatVars, observed,
                   calls>>

ReadFails == pc' = "idle" /\ toRead' = 0 /\ got' = <<>> /\ UNCHANGED m_curPosition

\* The cluster that the next unit is in, Eoc if the chain ends before it.
ReadCluster ==
    IF ~AtNewCluster THEN m_curCluster
    ELSE IF m_curPosition = 0 THEN m_firstCluster ELSE fatCache[m_curCluster]

ReadBehindChain ==
    /\ pc = "read" /\ toRead > 0 /\ ReadCluster = Eoc
    /\ ReadFails
    /\ UNCHANGED <<m_fileSize, m_curCluster, m_firstCluster, dirDirty, value, nToWrite,
                   newPos, cache, disk, fatVars, observed, calls>>

Got(units) ==
    /\ got' = got \o units
    /\ m_curPosition' = m_curPosition + Len(units) /\ toRead' = toRead - Len(units)
    /\ UNCHANGED pc

\* As in write(): parts of a block, and a block that is in the cache, through the
\* cache; one block, or several in the present cluster, from the card, after
\* cacheSync() if the comparison says that the cached block is one of them.
ReadTurn ==
    /\ pc = "read" /\ toRead > 0 /\ ReadCluster # Eoc
    /\ m_curCluster' = ReadCluster
    /\ LET block == StartBlock(ReadCluster) + BlockOfCluster
           nb == Smaller(BlocksPerCluster - BlockOfCluster, toRead \div BlockSize)
           compared == cache.lbn <= block /\ block < cache.lbn + nb
           direct == Offset = 0 /\ toRead >= BlockSize /\ cache.lbn # block
           several == direct /\ toRead >= 2 * BlockSize
       IN  \/ /\ ~direct
              /\ Got(SubSeq(Fetch(block, FALSE).data, Offset + 1,
                            Smaller(BlockSize, Offset + toRead)))
              /\ cache' = Fetch(block, FALSE) /\ disk' = Flushed(block)
              /\ UNCHANGED <<fatCache, fatDirty, fatDisk, overlapped, refused>>
           \/ /\ direct /\ ~several
              /\ Got(disk[block])
              /\ UNCHANGED <<cache, disk, fatCache, fatDirty, fatDisk, overlapped, refused>>
           \/ /\ several
              /\ cache' = IF compared THEN [cache EXCEPT !.dirty = FALSE] ELSE cache
              /\ disk' = IF compared THEN Synced ELSE disk
              /\ fatDirty' = (fatDirty /\ ~compared)
              /\ fatDisk' = IF compared THEN fatCache ELSE fatDisk
              /\ Got(FlattenSeq([k \in 1 .. nb |-> disk'[block + k - 1]]))
              /\ overlapped' = (overlapped \/ (cache'.dirty /\
                                                 cache.lbn \in block .. block + nb - 1))
              /\ UNCHANGED <<fatCache, refused>>
           \/ /\ IF several THEN compared /\ cache.dirty ELSE ~direct /\ MayBeRefused(block)
              /\ refused < MaxRefused /\ refused' = refused + 1
              /\ ReadFails
              /\ UNCHANGED <<cache, disk, fatCache, fatDirty, fatDisk, overlapped>>
    /\ UNCHANGED <<m_fileSize, m_firstCluster, dirDirty, value, nToWrite, newPos,
                   searchStart, others, content, size, synced, grown, unmoored, calls>>

-----------------------------------------------------------------------------
(* truncate() and sync() *)

\* freeChain(): the clusters behind the new end.
ChainBehind(length) ==
    IF length = 0 THEN Chain(fatCache, m_firstCluster)
                  ELSE Chain(fatCache, ClusterAt(length)) \ {ClusterAt(length)}

\* seekSet(length), freeChain() of what is behind it, and the entry is due.
Truncate ==
    /\ pc = "idle" /\ calls < MaxCalls /\ m_fileSize # 0
    /\ calls' = calls + 1
    /\ \E length \in 0 .. m_fileSize :
         LET last == ClusterAt(length)
             freed == ChainBehind(length)
         IN  /\ Reached(length)
             /\ newPos' = Smaller(m_curPosition, length)
             /\ m_curPosition' = length /\ m_curCluster' = last
             /\ m_firstCluster' = IF length = 0 THEN 0 ELSE m_firstCluster
             /\ fatCache' = [c \in Clusters |->
                               IF c \in freed THEN Free
                               ELSE IF c = last THEN Eoc ELSE fatCache[c]]
             /\ fatDirty' = (fatDirty \/ freed # {})
             /\ searchStart' = CHOOSE c \in freed \cup {searchStart} :
                                 \A d \in freed \cup {searchStart} : c <= d
             /\ m_fileSize' = length /\ size' = length
             /\ content' = SubSeq(content, 1, length)
             /\ grown' = (grown /\ length >= Len(synced))
             /\ unmoored' = (unmoored \/ (length = 0 /\ last # 0))
    /\ dirDirty' = TRUE
    /\ pc' = "entry"
    /\ UNCHANGED <<value, nToWrite, toRead, got, cache, disk, fatDisk, others, synced,
                   overlapped, refused>>

StartSync ==
    /\ pc = "idle" /\ calls < MaxCalls
    /\ calls' = calls + 1 /\ pc' = "entry"
    /\ UNCHANGED <<memory, local, cache, disk, fatVars, observed>>

SyncFails ==
    /\ refused < MaxRefused /\ refused' = refused + 1
    /\ pc' = "idle" /\ newPos' = NoPosition

\* The entry is changed in the cache, whose block it takes.
Entry == [size |-> m_fileSize, first |-> m_firstCluster]
SyncEntry ==
    /\ pc = "entry"
    /\ \/ /\ pc' = "data" /\ dirDirty' = FALSE
          /\ IF dirDirty
               THEN /\ cache' = [lbn |-> DirBlock, dirty |-> TRUE, data |-> Entry]
                    /\ disk' = Flushed(DirBlock)
               ELSE UNCHANGED <<cache, disk>>
          /\ UNCHANGED <<newPos, refused>>
       \/ dirDirty /\ MayBeRefused(DirBlock) /\ SyncFails /\ UNCHANGED <<cache, disk, dirDirty>>
    /\ UNCHANGED <<m_fileSize, m_curPosition, m_curCluster, m_firstCluster, value, nToWrite,
                   toRead, got, fatVars, content, size, synced, grown, unmoored, overlapped, calls>>

\* cacheSync(): the data cache and then the cache of the FAT.
SyncData ==
    /\ pc = "data"
    /\ \/ /\ disk' = Synced /\ cache' = [cache EXCEPT !.dirty = FALSE]
          /\ pc' = "fat" /\ UNCHANGED <<newPos, refused>>
       \/ cache.dirty /\ SyncFails /\ UNCHANGED <<disk, cache>>
    /\ UNCHANGED <<memory, value, nToWrite, toRead, got, fatVars, content, size, synced,
                   grown, unmoored, overlapped, calls>>

ForgottenFat == fatDisk
WrittenFat == fatCache
SyncFat ==
    /\ pc = "fat"
    /\ \/ /\ fatDisk' = WrittenFat /\ fatDirty' = FALSE
          /\ IF newPos = NoPosition \/ ~Reached(newPos)
               THEN UNCHANGED <<m_curPosition, m_curCluster>>
               ELSE m_curCluster' = ClusterAt(newPos) /\ m_curPosition' = newPos
          /\ synced' = content /\ grown' = TRUE
          /\ pc' = "idle" /\ newPos' = NoPosition /\ UNCHANGED refused
       \/ /\ fatDirty /\ SyncFails
          /\ UNCHANGED <<fatDisk, fatDirty, m_curPosition, m_curCluster, synced, grown>>
    /\ UNCHANGED <<m_fileSize, m_firstCluster, dirDirty, value, nToWrite, toRead, got,
                   cache, disk, fatCache, searchStart, others, content, size, unmoored,
                   overlapped, calls>>

Next ==
    \/ SeekSet
    \/ StartWrite \/ EnterCluster \/ WritePart \/ WriteBlock \/ WriteBlocks \/ WriteReturns
    \/ StartRead \/ ReadTurn \/ ReadBehindChain \/ ReadReturns
    \/ Truncate \/ StartSync \/ SyncEntry \/ SyncData \/ SyncFat

Spec == Init /\ [][Next]_vars

-----------------------------------------------------------------------------
(* Properties *)

TypeOK ==
    /\ pc \in {"idle", "cluster", "block", "read", "entry", "data", "fat"}
    /\ m_fileSize \in Nat /\ m_curPosition \in Nat
    /\ m_curCluster \in Clusters \cup {0} /\ m_firstCluster \in Clusters \cup {0}
    /\ dirDirty \in BOOLEAN /\ fatDirty \in BOOLEAN
    /\ nToWrite \in Nat /\ toRead \in Nat /\ newPos \in Nat \cup {NoPosition}
    /\ cache.lbn \in Blocks \cup {DirBlock, NoBlock} /\ cache.dirty \in BOOLEAN
    /\ cache.dirty => cache.lbn # NoBlock
    /\ DOMAIN fatCache = Clusters
    /\ \A c \in Clusters : fatCache[c] \in Clusters \cup {Free, Eoc}
    /\ fatDirty \/ fatCache = fatDisk

\* The units a directory entry, a FAT and blocks stand for, as far as the chain goes.
Lost == -1
Decoded(d, fat, entry) ==
    [i \in 1 .. entry.size |->
       LET c == Follow(fat, entry.first, Index(i)) IN
         IF c \in Clusters
           THEN d[StartBlock(c) + (((i - 1) \div BlockSize) % BlocksPerCluster)]
                 [((i - 1) % BlockSize) + 1]
           ELSE Lost]
Visible == Decoded(Synced, fatCache, Entry)
Stored == Decoded(disk, fatDisk, disk[DirBlock])

Undisturbed == ~overlapped /\ refused = 0

\* Between two calls the file, as its caches and the card make it up, is what its
\* writes and cuts make of it, one after another: except after a transfer of several
\* blocks compared the cached block from the wrong side, or a write was refused.
VisibleAsWritten ==
    pc = "idle" /\ Undisturbed => Visible = content /\ m_fileSize = size

\* What read() has got so far is what the file has there; it may end before, and
\* does if a write has left the position behind the end.
ReadsWhatIsThere ==
    pc = "read" /\ Undisturbed =>
        got = SubSeq(content, m_curPosition - Len(got) + 1, m_curPosition)

\* If the power fails in any state, the file that was synchronised last is still
\* there, whatever has been written behind its end since: inside the blocks of its
\* last cluster, in the FAT, in the next sync().
SyncedSurvives ==
    grown /\ Undisturbed =>
        Len(Stored) >= Len(synced) /\ SubSeq(Stored, 1, Len(synced)) = synced

\* Whatever goes wrong, a refused write included, nothing of another file changes:
\* neither its blocks nor its entries in the FAT.
OthersUntouched ==
    \A c \in others :
        /\ fatCache[c] = Eoc /\ fatDisk[c] = Eoc
        /\ \A k \in 0 .. BlocksPerCluster - 1 : disk[StartBlock(c) + k] = Blank

\* Whatever goes wrong, every cluster in use belongs to a file.
NoClusterLeaked ==
    pc = "idle" =>
        \A c \in Clusters : fatCache[c] # Free =>
            c \in others \/ c \in Chain(fatCache, m_firstCluster)

\* The cluster the file remembers is that of its position: of the unit before it, so
\* that the next one may need another.
PositionIsInChain ==
    pc = "idle" /\ Undisturbed =>
        m_curCluster = IF m_curPosition = 0 THEN 0
                       ELSE Follow(fatCache, m_firstCluster, Index(m_curPosition))

\* The file is what its writes and cuts make of it: seen from outside, by a read under
\* way, and at the position where the next call begins.
FileIsAsWritten == VisibleAsWritten /\ ReadsWhatIsThere /\ PositionIsInChain

\* Whatever goes wrong, every cluster is free or one file's own.
ClustersStayApart == TypeOK /\ OthersUntouched /\ NoClusterLeaked

\* Neither a refused write nor the loss of power in any state costs more than what had
\* not been synchronised of this file.
FailuresAreContained == SyncedSurvives /\ ClustersStayApart

\* A comment of write() says that the cache is invalidated if a block is in the cache
\* (and one of read() that it is flushed): then the file is what was written.
MultipleBlocksAreCoherent ==
    pc = "idle" /\ refused = 0 => Visible = content
=============================================================================
