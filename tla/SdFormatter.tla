----------------------------- MODULE SdFormatter -----------------------------
(***************************************************************************)
(* How a card becomes a volume: the sketch Utility_SdFormatter, which      *)
(* chooses a layout for the size of the card and writes it, and the calls  *)
(* of FatVolume that read it back, init(), and empty it, wipe().  Numbers  *)
(* are those of the code, in blocks of the card.  A volume is used between *)
(* the two, and a card can be formatted again.                             *)
(***************************************************************************)
EXTENDS Integers

CONSTANTS
    StandardCards,      \* sizes of cards addressed by the byte, SD1 and SD2
    HighCapacityCards,  \* sizes of cards addressed by the block, SDHC and SDXC
    LargestErased,      \* bound: size of the largest card that is erased
    MaxFormats,         \* bound: formats of the card
    MaxWipes            \* bound: calls of wipe()

\* A card of high capacity is larger than the gap kept before its data; the count
\* of blocks is a positive number of 32 bits.
ASSUME CardsAssumption ==
    /\ StandardCards \subseteq Nat \ {0}
    /\ HighCapacityCards \subseteq Nat
    /\ \A n \in HighCapacityCards : n > 16384
ASSUME TimesAssumption == LargestErased \in Nat /\ MaxFormats \in Nat /\ MaxWipes \in Nat

BU16 == 128
BU32 == 8192
ERASE_SIZE == 262144
Uint16 == 65536
DirBlocks16 == 32           \* the root directory of FAT16: 512 entries

VARIABLES
    step,
    mode,               \* the option typed
    type,               \* card.type(): "SDHC", or one of the others, "SD"
    cardSizeBlocks,
    sectorsPerCluster, numberOfHeads, sectorsPerTrack,
    relSector, partSize, partType, reservedSectors, fatStart, fatSize, dataStart,
    nc,                 \* clusters for the dataStart at hand
    firstBlock,         \* of the next range to erase
    disk,               \* what the card holds, range by range
    vol,                \* the layout that init() has read
    fatCache,           \* the block of the FAT in m_fatCache, as it was last used
    formats, wipes

sizeVars == <<sectorsPerCluster, numberOfHeads, sectorsPerTrack>>
layoutVars == <<relSector, partSize, partType, reservedSectors, fatStart, fatSize, dataStart, nc>>
cardVars == <<type, cardSizeBlocks>>
volVars == <<vol, fatCache>>
boundVars == <<formats, wipes>>
formatVars == <<step, mode, cardVars, sizeVars, layoutVars, firstBlock, disk, volVars, boundVars>>

Old == [kind |-> "old"]             \* whatever was on the card
Zeros == [kind |-> "zeros"]
Ones == [kind |-> "ones"]
Reserved == [kind |-> "reserved"]   \* a FAT block with the first entries taken, no other
InUse == [kind |-> "in use"]        \* a block of the FAT or of a directory with entries
Info == [kind |-> "info"]
NoVol == [fatType |-> 0]
NoCache == 0

\* The card after a write of the blocks lo to hi: what was on it before and behind
\* them is still there.
Part(e, lo, hi) == [lo |-> lo, hi |-> hi, content |-> e.content]
Put(d, lo, hi, c) ==
    LET before == {Part(e, e.lo, IF e.hi < lo THEN e.hi ELSE lo - 1) : e \in d}
        behind == {Part(e, IF e.lo > hi THEN e.lo ELSE hi + 1, e.hi) : e \in d}
    IN {[lo |-> lo, hi |-> hi, content |-> c]} \cup {e \in before \cup behind : e.lo <= e.hi}
Content(b) ==
    LET on == {e \in disk : e.lo <= b /\ b <= e.hi}
    IN IF on = {} THEN Old ELSE (CHOOSE e \in on : TRUE).content

InitFormat ==
    /\ step = "ready" /\ mode = "none"
    /\ \/ type = "SD" /\ cardSizeBlocks \in StandardCards
       \/ type = "SDHC" /\ cardSizeBlocks \in HighCapacityCards
    /\ sectorsPerCluster = 0 /\ numberOfHeads = 0 /\ sectorsPerTrack = 0
    /\ relSector = 0 /\ partSize = 0 /\ partType = 0 /\ reservedSectors = 0
    /\ fatStart = 0 /\ fatSize = 0 /\ dataStart = 0 /\ nc = 0
    /\ firstBlock = 0 /\ disk = {}
    /\ vol = NoVol /\ fatCache = NoCache
    /\ formats = 0 /\ wipes = 0

\* The board is reset: what the sketch has in memory is as at first.
Reset ==
    /\ step \in {"halted", "asks", "mounted", "wiped", "wipeFailed"} /\ formats < MaxFormats
    /\ step' = "ready" /\ mode' = "none"
    /\ sectorsPerCluster' = 0 /\ numberOfHeads' = 0 /\ sectorsPerTrack' = 0
    /\ relSector' = 0 /\ partSize' = 0 /\ partType' = 0 /\ reservedSectors' = 0
    /\ fatStart' = 0 /\ fatSize' = 0 /\ dataStart' = 0 /\ nc' = 0 /\ firstBlock' = 0
    /\ vol' = NoVol /\ fatCache' = NoCache
    /\ UNCHANGED <<cardVars, disk, boundVars>>

-----------------------------------------------------------------------------
(* The sketch: what is asked, and the erasure.                             *)

Go(from, to) == step = from /\ step' = to
sdError(from) ==
    /\ Go(from, "halted")
    /\ UNCHANGED <<mode, cardVars, sizeVars, layoutVars, firstBlock, disk, volVars, boundVars>>

\* 'Y', an option, a label; then card.begin().  Any other option is never asked for
\* again: the loop that prints the question does not read.
AnswerYes ==
    /\ formats < MaxFormats
    /\ step \in {"ready", "done"}
    /\ mode' \in {"Q", "other"} \cup (IF cardSizeBlocks <= LargestErased THEN {"E", "F"} ELSE {})
    /\ step' = (IF mode' = "other" THEN "asks" ELSE "begin")
    /\ formats' = formats + 1
    /\ UNCHANGED <<cardVars, sizeVars, layoutVars, firstBlock, disk, volVars, wipes>>
BeginCard ==
    /\ Go("begin", IF mode = "Q" THEN "sizes" ELSE "erase")
    /\ firstBlock' = 0
    /\ UNCHANGED <<mode, cardVars, sizeVars, layoutVars, disk, volVars, boundVars>>
BeginFails == sdError("begin")

\* One command erases a range; what an erased block reads as is the card's affair.
EraseTurn ==
    LET lastBlock == IF firstBlock + ERASE_SIZE - 1 >= cardSizeBlocks
                       THEN cardSizeBlocks - 1 ELSE firstBlock + ERASE_SIZE - 1
    IN /\ step = "erase"
       /\ \E c \in IF firstBlock = 0 THEN {Zeros, Ones} ELSE {Content(0)} :
              disk' = Put(disk, firstBlock, lastBlock, c)
       /\ firstBlock' = firstBlock + ERASE_SIZE
       /\ step' = (IF firstBlock' < cardSizeBlocks THEN "erase" ELSE "erased")
       /\ UNCHANGED <<mode, cardVars, sizeVars, layoutVars, volVars, boundVars>>
EraseFails == sdError("erase")
EraseDone ==
    /\ Go("erased", IF mode = "F" THEN "sizes" ELSE "done")
    /\ UNCHANGED <<mode, cardVars, sizeVars, layoutVars, firstBlock, disk, volVars, boundVars>>
ReadBackFails == sdError("erased")

-----------------------------------------------------------------------------
(* The layout.                                                             *)

cardCapacityMB == ((cardSizeBlocks + 2047) \div 2048) % Uint16

ClusterSizeFor(mb) ==
    IF mb <= 16 THEN 2 ELSE IF mb <= 32 THEN 4 ELSE IF mb <= 64 THEN 8
    ELSE IF mb <= 128 THEN 16 ELSE IF mb <= 1024 THEN 32 ELSE IF mb <= 32768 THEN 64 ELSE 128
HeadsFor(mb) ==
    IF mb <= 16 THEN 2 ELSE IF mb <= 32 THEN 4 ELSE IF mb <= 128 THEN 8
    ELSE IF mb <= 504 THEN 16 ELSE IF mb <= 1008 THEN 32 ELSE IF mb <= 2016 THEN 64
    ELSE IF mb <= 4032 THEN 128 ELSE 255

initSizes ==
    /\ step = "sizes" /\ cardCapacityMB > 6
    /\ Go("sizes", IF type = "SDHC" THEN "fat32" ELSE "fat16")
    /\ sectorsPerCluster' = ClusterSizeFor(cardCapacityMB)
    /\ sectorsPerTrack' = (IF cardCapacityMB <= 256 THEN 32 ELSE 63)
    /\ numberOfHeads' = HeadsFor(cardCapacityMB)
    /\ dataStart' = 2 * (IF type = "SDHC" THEN BU32 ELSE BU16)
    /\ relSector' = (IF type = "SDHC" THEN BU32 ELSE relSector)
    /\ UNCHANGED <<mode, cardVars, partSize, partType, reservedSectors, fatStart, fatSize,
                   nc, firstBlock, disk, volVars, boundVars>>
TooSmall == cardCapacityMB <= 6 /\ sdError("sizes")

ClustersBehind(start) == (cardSizeBlocks - start) \div sectorsPerCluster
\* A FAT without the two entries that are never free.
FatSizeForDataOnly(n, perBlock) == (n + perBlock - 1) \div perBlock
FatSizeFor(n, perBlock) == (n + 2 + perBlock - 1) \div perBlock

\* A turn of makeFat16()'s loop: the data begins at a multiple of 64 KB, far enough
\* for what is before it.
SearchFat16 ==
    LET n == ClustersBehind(dataStart)
        f == FatSizeFor(n, 256)
        r == BU16 + 1 + 2 * f + DirBlocks16
    IN /\ step = "fat16"
       /\ nc' = n /\ fatSize' = f
       /\ IF dataStart < r
            THEN dataStart' = dataStart + BU16 /\ UNCHANGED <<relSector, step>>
            ELSE relSector' = dataStart - r + BU16 /\ step' = "layout16" /\ UNCHANGED dataStart
       /\ UNCHANGED <<mode, cardVars, sizeVars, partSize, partType, reservedSectors, fatStart,
                      firstBlock, disk, volVars, boundVars>>
SearchFat32 ==
    LET n == ClustersBehind(dataStart)
        f == FatSizeFor(n, 128)
    IN /\ step = "fat32"
       /\ nc' = n /\ fatSize' = f
       /\ IF dataStart < relSector + 9 + 2 * f
            THEN dataStart' = dataStart + BU32 /\ UNCHANGED step
            ELSE step' = "layout32" /\ UNCHANGED dataStart
       /\ UNCHANGED <<mode, cardVars, sizeVars, relSector, partSize, partType, reservedSectors,
                      fatStart, firstBlock, disk, volVars, boundVars>>

Fat16Count == nc >= 4085 /\ nc < 65525
Fat32Count == nc >= 65525
LayoutFat16 ==
    /\ step = "layout16" /\ Fat16Count
    /\ Go("layout16", "mbr")
    /\ reservedSectors' = 1
    /\ fatStart' = relSector + 1
    /\ partSize' = nc * sectorsPerCluster + 2 * fatSize + 1 + DirBlocks16
    /\ partType' = (IF partSize' < 32680 THEN 1 ELSE IF partSize' < 65536 THEN 4 ELSE 6)
    /\ UNCHANGED <<mode, cardVars, sizeVars, relSector, fatSize, dataStart, nc, firstBlock,
                   disk, volVars, boundVars>>
LayoutFat32 ==
    /\ step = "layout32" /\ Fat32Count
    /\ Go("layout32", "mbr")
    /\ reservedSectors' = dataStart - relSector - 2 * fatSize
    /\ fatStart' = relSector + reservedSectors'
    /\ partSize' = nc * sectorsPerCluster + dataStart - relSector
    /\ partType' = (IF relSector + partSize' <= 16450560 THEN 11 ELSE 12)
    /\ UNCHANGED <<mode, cardVars, sizeVars, relSector, fatSize, dataStart, nc, firstBlock,
                   disk, volVars, boundVars>>
BadClusterCount ==
    \/ ~Fat16Count /\ sdError("layout16")
    \/ ~Fat32Count /\ sdError("layout32")

-----------------------------------------------------------------------------
(* Writing it.  A block the card refuses ends the sketch.                  *)

lbnToCylinder(lbn) == (lbn \div (numberOfHeads * sectorsPerTrack)) % Uint16
lbnToHead(lbn) == (lbn % (numberOfHeads * sectorsPerTrack)) \div sectorsPerTrack
lbnToSector(lbn) == (lbn % sectorsPerTrack) + 1
Chs(lbn) == [c |-> lbnToCylinder(lbn), h |-> lbnToHead(lbn), s |-> lbnToSector(lbn)]
TooBig == [c |-> 1023, h |-> 254, s |-> 63]

Writes(from, to, blocks) ==
    /\ Go(from, to)
    /\ disk' = blocks
    /\ UNCHANGED <<mode, cardVars, sizeVars, layoutVars, firstBlock, volVars, boundVars>>

Mbr ==
    LET endLbn == relSector + partSize - 1
    IN [kind |-> "mbr", type |-> partType, firstSector |-> relSector, totalSectors |-> partSize,
        begin |-> Chs(relSector),
        end |-> IF lbnToCylinder(endLbn) <= 1023 THEN Chs(endLbn) ELSE TooBig]
writeMbr ==
    /\ step = "mbr" /\ lbnToCylinder(relSector) <= 1023
    /\ Writes("mbr", "boot", Put(disk, 0, 0, Mbr))
MbrFails == sdError("mbr")

Boot ==
    [kind |-> "boot", sectorsPerCluster |-> sectorsPerCluster,
     reservedSectorCount |-> reservedSectors, fatCount |-> 2, totalSectors32 |-> partSize,
     rootDirEntryCount |-> IF type = "SDHC" THEN 0 ELSE 512,
     sectorsPerFat16 |-> IF type = "SDHC" THEN 0 ELSE fatSize,
     sectorsPerFat32 |-> IF type = "SDHC" THEN fatSize ELSE 0,
     fat32RootCluster |-> IF type = "SDHC" THEN 2 ELSE 0]
writeBoot16 == type # "SDHC" /\ Writes("boot", "clear", Put(disk, relSector, relSector, Boot))
\* The boot sector and, as one content, its extension and the FSINFO sector; each
\* with its backup.
writeBoot32 ==
    LET boots == Put(Put(disk, relSector, relSector, Boot), relSector + 6, relSector + 6, Boot)
    IN /\ type = "SDHC"
       /\ Writes("boot", "clear",
                 Put(Put(boots, relSector + 1, relSector + 2, Info),
                     relSector + 7, relSector + 8, Info))
BootFails == sdError("boot")

\* Mutant: the root directory is forgotten.
ClearFatsOnly == 2 * fatSize
\* How many blocks are zeroed: both copies of the FAT and the root directory.
ClearCount == IF type = "SDHC" THEN 2 * fatSize + sectorsPerCluster ELSE dataStart - fatStart
clearFatDir ==
    Writes("clear", "reserve", Put(disk, fatStart, fatStart + ClearCount - 1, Zeros))
ClearFails == sdError("clear")

writeReserved ==
    Writes("reserve", "done", Put(Put(disk, fatStart, fatStart, Reserved),
                                  fatStart + fatSize, fatStart + fatSize, Reserved))
ReserveFails == sdError("reserve")

-----------------------------------------------------------------------------
(* The volume: init(1) || init(0), use, and wipe().                        *)

\* The partition that begins at block start, read from its boot sector.
VolumeAt(start, b) ==
    LET blocksPerFat == IF b.sectorsPerFat16 # 0 THEN b.sectorsPerFat16 ELSE b.sectorsPerFat32
        fatStartBlock == start + b.reservedSectorCount
        afterFats == fatStartBlock + 2 * blocksPerFat
        data == afterFats + (32 * b.rootDirEntryCount + 511) \div 512
        clusters == (b.totalSectors32 - (data - start)) \div b.sectorsPerCluster
        bits == IF clusters < 4085 THEN 12 ELSE IF clusters < 65525 THEN 16 ELSE 32
    IN [fatType |-> bits, blocksPerCluster |-> b.sectorsPerCluster,
        blocksPerFat |-> blocksPerFat, fatStartBlock |-> fatStartBlock,
        rootDirStart |-> IF bits = 32 THEN b.fat32RootCluster ELSE afterFats,
        rootDirEntryCount |-> b.rootDirEntryCount,
        dataStartBlock |-> data, lastCluster |-> clusters + 1]

\* An erased card has no partition, and block 0 is no boot sector either.
HasBoot == Content(0).kind = "mbr" /\ Content(Content(0).firstSector).kind = "boot"
Read == LET start == Content(0).firstSector IN VolumeAt(start, Content(start))
InitVolume ==
    /\ step \in {"done", "wiped", "wipeFailed"}
    /\ HasBoot /\ Read.fatType \in {16, 32}
    /\ step' = "mounted"
    /\ vol' = Read /\ fatCache' = NoCache
    /\ UNCHANGED <<mode, cardVars, sizeVars, layoutVars, firstBlock, disk, boundVars>>
InitFails ==
    /\ Go("done", "halted") /\ ~(HasBoot /\ Read.fatType \in {16, 32})
    /\ UNCHANGED <<mode, cardVars, sizeVars, layoutVars, firstBlock, disk, volVars, boundVars>>

clusterStartBlock(c) == vol.dataStartBlock + (c - 2) * vol.blocksPerCluster
RootStart == IF vol.fatType = 32 THEN clusterStartBlock(vol.rootDirStart) ELSE vol.rootDirStart
RootBlocks == IF vol.fatType = 32 THEN vol.blocksPerCluster ELSE vol.rootDirEntryCount \div 16

\* Files are made, whose clusters are in the first block of the FAT or in the last:
\* both copies, and the root directory.  The block stays in the cache of the FAT.
UseVolume ==
    /\ step = "mounted"
    /\ \E b \in {vol.fatStartBlock, vol.fatStartBlock + vol.blocksPerFat - 1} :
        /\ disk' = Put(Put(Put(disk, b, b, InUse), b + vol.blocksPerFat, b + vol.blocksPerFat, InUse),
                       RootStart, RootStart, InUse)
        /\ fatCache' = b
    /\ UNCHANGED <<step, mode, cardVars, sizeVars, layoutVars, firstBlock, vol, boundVars>>

\* wipe(), step by step; a step whose write fails leaves the volume unmounted.
WipeStep(from, to, blocks) ==
    /\ Go(from, to)
    /\ disk' = blocks
    /\ UNCHANGED <<mode, cardVars, sizeVars, layoutVars, firstBlock, vol, fatCache, formats>>
WipeRoot ==
    /\ wipes < MaxWipes /\ wipes' = wipes + 1
    /\ WipeStep("mounted", "wipeFats", Put(disk, RootStart, RootStart + RootBlocks - 1, Zeros))
\* The count of blocks is kept in 16 bits.
FatsCount == (2 * vol.blocksPerFat) % Uint16
WipeFats ==
    /\ WipeStep("wipeFats", "wipeReserve",
                IF FatsCount = 0 THEN disk
                  ELSE Put(disk, vol.fatStartBlock, vol.fatStartBlock + FatsCount - 1, Zeros))
    /\ UNCHANGED wipes
WipeReserve ==
    /\ WipeStep("wipeReserve", "wipeRootCluster",
                Put(Put(disk, vol.fatStartBlock, vol.fatStartBlock, Reserved),
                    vol.fatStartBlock + vol.blocksPerFat, vol.fatStartBlock + vol.blocksPerFat,
                    Reserved))
    /\ UNCHANGED wipes
\* The entry of the root directory's cluster is put into the block of the FAT that is
\* in its cache, if it is the first one: cacheClear() has written that cache, not
\* emptied it.
RootEntryBlock == IF fatCache = vol.fatStartBlock THEN InUse ELSE Reserved
WipeRootCluster ==
    /\ Go("wipeRootCluster", "wiped")
    /\ disk' = (IF vol.fatType # 32 THEN disk
                  ELSE LET b == vol.fatStartBlock
                       IN Put(Put(disk, b, b, RootEntryBlock),
                              b + vol.blocksPerFat, b + vol.blocksPerFat, RootEntryBlock))
    /\ vol' = NoVol
    /\ UNCHANGED <<mode, cardVars, sizeVars, layoutVars, firstBlock, fatCache, boundVars>>
WipeFails ==
    /\ step \in {"wipeFats", "wipeReserve", "wipeRootCluster"}
    /\ step' = "wipeFailed"
    /\ vol' = NoVol
    /\ UNCHANGED <<mode, cardVars, sizeVars, layoutVars, firstBlock, disk, fatCache, boundVars>>

\* Nothing more is done with the card.
Rests ==
    /\ (step \in {"halted", "asks", "ready"} \/ (step = "mounted" /\ wipes = MaxWipes))
    /\ UNCHANGED formatVars

Format ==
    \/ Reset \/ AnswerYes \/ BeginCard \/ BeginFails \/ EraseTurn \/ EraseFails \/ EraseDone
    \/ ReadBackFails \/ initSizes \/ TooSmall \/ SearchFat16 \/ SearchFat32 \/ LayoutFat16
    \/ LayoutFat32 \/ BadClusterCount \/ writeMbr \/ MbrFails \/ writeBoot16 \/ writeBoot32
    \/ BootFails \/ clearFatDir \/ ClearFails \/ writeReserved \/ ReserveFails
Volume ==
    \/ InitVolume \/ InitFails \/ UseVolume \/ WipeRoot \/ WipeFats \/ WipeReserve
    \/ WipeRootCluster \/ WipeFails
NextFormat == Format \/ Volume \/ Rests
SpecFormat == InitFormat /\ [][NextFormat]_formatVars

-----------------------------------------------------------------------------
EntriesPerBlock == IF type = "SDHC" THEN 128 ELSE 256
LaidOut == step \in {"mbr", "boot", "clear", "reserve"}

\* The layout fits the card: what makeFat16() and makeFat32() compute from its size
\* alone.  The FAT is behind the boot sectors and has an entry for every cluster, the
\* data is where the FATs and the root directory end, on a multiple of the gap, and
\* the last cluster is on the card.
LayoutFits ==
    LaidOut =>
        /\ 0 < relSector /\ relSector < fatStart
        /\ fatStart + 2 * fatSize + (IF type = "SDHC" THEN 0 ELSE DirBlocks16) = dataStart
        /\ fatSize * EntriesPerBlock >= nc + 2
        /\ relSector + partSize = dataStart + nc * sectorsPerCluster
        /\ dataStart + nc * sectorsPerCluster <= cardSizeBlocks
        /\ dataStart % BU16 = 0 /\ (type = "SDHC" => dataStart % BU32 = 0)

\* Every place where what is on the blocks lo to hi can change.
Places(lo, hi) ==
    {b \in {lo} \cup {e.lo : e \in disk} \cup {e.hi + 1 : e \in disk} : lo <= b /\ b <= hi}
Holds(lo, hi, c) == \A b \in Places(lo, hi) : Content(b) = c

\* The volume v has no file: both FATs have the entries that are never free, and no
\* other, and the root directory is empty.
RootOf(v) ==
    IF v.fatType = 32 THEN v.dataStartBlock + (v.rootDirStart - 2) * v.blocksPerCluster
                      ELSE v.rootDirStart
IsEmptyVolume(v) ==
    /\ \A start \in {v.fatStartBlock, v.fatStartBlock + v.blocksPerFat} :
           Content(start) = Reserved /\ Holds(start + 1, start + v.blocksPerFat - 1, Zeros)
    /\ LET blocks == IF v.fatType = 32 THEN v.blocksPerCluster ELSE v.rootDirEntryCount \div 16
       IN Holds(RootOf(v), RootOf(v) + blocks - 1, Zeros)

\* The address of the partition's end that a BIOS would use.
ChsBlock(a) == (a.c * numberOfHeads + a.h) * sectorsPerTrack + a.s - 1
EndIsMarked(m) ==
    \/ m.end = TooBig
    \/ ChsBlock(m.end) = relSector + partSize - 1
    \/ (relSector + partSize - 1) \div (numberOfHeads * sectorsPerTrack) >= Uint16

\* A format that is done has made the volume that init() finds, whatever was on the
\* card: FAT16 or FAT32 by the kind of card, where the sketch put it, and empty.
\* The numbers on the way stay above zero; the cylinder of the partition's last block
\* is right, unless the 16 bits it is computed in are too few.
FormattedIsMounted ==
    /\ step \in {"fat16", "fat32"} => dataStart <= cardSizeBlocks
    /\ step \in {"mbr", "boot"} => reservedSectors < Uint16
    /\ step = "done" /\ mode \in {"F", "Q"} =>
           /\ HasBoot
           /\ Read = [fatType |-> IF type = "SDHC" THEN 32 ELSE 16,
                      blocksPerCluster |-> sectorsPerCluster, blocksPerFat |-> fatSize,
                      fatStartBlock |-> fatStart,
                      rootDirStart |-> IF type = "SDHC" THEN 2 ELSE fatStart + 2 * fatSize,
                      rootDirEntryCount |-> IF type = "SDHC" THEN 0 ELSE 512,
                      dataStartBlock |-> dataStart, lastCluster |-> nc + 1]
           /\ IsEmptyVolume(Read)
           /\ EndIsMarked(Content(0))

\* wipe() leaves the volume empty and in its place, however it was used: but for a
\* FAT32 volume with the first block of the FAT still in its cache, and for FATs whose
\* blocks are too many to be counted in 16 bits.
WipedIsEmpty ==
    step = "wiped" =>
        \/ IsEmptyVolume(Read)
        \/ Read.fatType = 32 /\ fatCache = Read.fatStartBlock
        \/ 2 * Read.blocksPerFat >= Uint16

\* The two ways to an empty volume lead there.
VolumeStartsEmpty == FormattedIsMounted /\ WipedIsEmpty
=============================================================================
