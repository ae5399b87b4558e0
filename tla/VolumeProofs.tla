---------------------------- MODULE VolumeProofs ----------------------------
(***************************************************************************)
(* The card from its format to the files on it, for every size: that the   *)
(* layout which the formatter computes fits the card, that the volume is   *)
(* found where it was put and is empty, after a format and after a wipe,   *)
(* and that whatever is created, grown, cut and removed on the volume, no  *)
(* two chains share a cluster, each ends where its entry says, no cluster  *)
(* is lost, a file in one piece is seen to be that, and the search for     *)
(* room passes over no room but around its start.                          *)
(***************************************************************************)
EXTENDS FatVolume, SdFormatter, DataLemmas

-----------------------------------------------------------------------------
(* The layout.  The arithmetic is in three lemmas about one turn of a search *)
(* and the layout that follows from it; the invariant carries their facts    *)
(* from the search to the moment the layout is written.                      *)

ClusterSizes == {2, 4, 8, 16, 32, 64, 128}

\* Every capacity has a cluster size.
LEMMA SizeChosen ==
    ASSUME NEW mb \in Int
    PROVE ClusterSizeFor(mb) \in ClusterSizes
BY SMT DEF ClusterSizeFor, ClusterSizes

\* The clusters counted behind a start fit behind it.
LEMMA ClustersFit ==
    ASSUME NEW spc \in ClusterSizes, NEW room \in Int, NEW n \in Int, n = room \div spc
    PROVE n * spc \in Int /\ n * spc <= room
<1>1. CASE spc = 2 BY <1>1, SMT
<1>2. CASE spc = 4 BY <1>2, SMT
<1>3. CASE spc = 8 BY <1>3, SMT
<1>4. CASE spc = 16 BY <1>4, SMT
<1>5. CASE spc = 32 BY <1>5, SMT
<1>6. CASE spc = 64 BY <1>6, SMT
<1>7. CASE spc = 128 BY <1>7, SMT
<1> QED BY <1>1, <1>2, <1>3, <1>4, <1>5, <1>6, <1>7 DEF ClusterSizes

\* A FAT has an entry for every cluster, and the two that have none.
LEMMA FatHolds ==
    ASSUME NEW n \in Int, NEW perBlock \in {128, 256}
    PROVE /\ FatSizeFor(n, perBlock) \in Int
          /\ FatSizeFor(n, perBlock) * perBlock >= n + 2
<1>1. CASE perBlock = 128 BY <1>1, SMT DEF FatSizeFor
<1>2. CASE perBlock = 256 BY <1>2, SMT DEF FatSizeFor
<1> QED BY <1>1, <1>2

Sizes ==
    /\ type \in {"SD", "SDHC"} /\ cardSizeBlocks \in Int
    /\ relSector \in Int /\ partSize \in Int /\ reservedSectors \in Int
    /\ fatStart \in Int /\ fatSize \in Int /\ dataStart \in Int /\ nc \in Int

\* What is known while the start of the data is sought, and when it is found.
SearchFacts ==
    /\ step \in {"fat16", "fat32", "layout16", "layout32"} => sectorsPerCluster \in ClusterSizes
    /\ step \in {"fat16", "layout16"} => type = "SD" /\ dataStart % BU16 = 0
    /\ step \in {"fat32", "layout32"} => type = "SDHC" /\ dataStart % BU32 = 0 /\ relSector = BU32
Found16 ==
    step = "layout16" =>
        /\ nc = ClustersBehind(dataStart) /\ fatSize = FatSizeFor(nc, 256)
        /\ relSector = dataStart - (1 + 2 * fatSize + DirBlocks16)
        /\ relSector >= BU16
Found32 ==
    step = "layout32" =>
        /\ nc = ClustersBehind(dataStart) /\ fatSize = FatSizeFor(nc, 128)
        /\ dataStart >= relSector + 9 + 2 * fatSize

LayoutInv == Sizes /\ SearchFacts /\ Found16 /\ Found32 /\ LayoutFits

-----------------------------------------------------------------------------
\* What is left before the data of FAT16 when the gap is filled from behind.
LEMMA GapFilled ==
    ASSUME NEW start \in Int, NEW f \in Int, NEW rel,
           ~(start < BU16 + 1 + 2 * f + DirBlocks16),
           rel = start - (BU16 + 1 + 2 * f + DirBlocks16) + BU16
    PROVE rel \in Int /\ rel >= BU16 /\ rel = start - (1 + 2 * f + DirBlocks16)
BY SMT DEF BU16, DirBlocks16

\* The sizes chosen, the search begins.
LEMMA SizesStep ==
    ASSUME LayoutInv, initSizes
    PROVE LayoutInv'
<1>1. cardCapacityMB \in Int /\ sectorsPerCluster' = ClusterSizeFor(cardCapacityMB)
    BY SMT DEF initSizes, LayoutInv, Sizes, cardCapacityMB, Uint16
<1>2. sectorsPerCluster' \in ClusterSizes
    BY <1>1, SizeChosen
<1>3. /\ step' \in {"fat16", "fat32"}
      /\ type' = type /\ (step' = "fat32" <=> type = "SDHC")
      /\ dataStart' = 2 * (IF type = "SDHC" THEN BU32 ELSE BU16)
      /\ relSector' = (IF type = "SDHC" THEN BU32 ELSE relSector)
    BY DEF initSizes, Go, cardVars
<1>4. Sizes'
    BY <1>3, SMT DEF LayoutInv, Sizes, initSizes, cardVars, BU16, BU32
<1>5. SearchFacts'
    BY <1>2, <1>3, SMT DEF LayoutInv, Sizes, SearchFacts, BU16, BU32
<1> QED BY <1>3, <1>4, <1>5 DEF LayoutInv, Found16, Found32, LayoutFits, LaidOut

\* A turn of the search for the data of FAT16.
LEMMA SearchFat16Step ==
    ASSUME LayoutInv, SearchFat16
    PROVE LayoutInv'
<1>1. /\ step = "fat16" /\ step' \in {"fat16", "layout16"}
      /\ nc' = ClustersBehind(dataStart) /\ fatSize' = FatSizeFor(nc', 256)
      /\ UNCHANGED <<type, cardSizeBlocks, sectorsPerCluster, partSize, reservedSectors, fatStart>>
    BY DEF SearchFat16, cardVars, sizeVars
<1>2. /\ type = "SD" /\ sectorsPerCluster \in ClusterSizes /\ dataStart % BU16 = 0
      /\ dataStart \in Int /\ cardSizeBlocks \in Int
    BY <1>1 DEF LayoutInv, Sizes, SearchFacts
<1>3. nc' \in Int
    BY <1>1, <1>2, SMT DEF ClustersBehind, ClusterSizes
<1>4. fatSize' \in Int
    BY <1>1, <1>3, SMT DEF FatSizeFor
<1>5. CASE step' = "fat16"
  <2>1. dataStart' = dataStart + BU16 /\ relSector' = relSector
      BY <1>5 DEF SearchFat16
  <2>2. dataStart' \in Int /\ dataStart' % BU16 = 0
      BY <1>2, <2>1, SMT DEF BU16
  <2>3. Sizes' /\ SearchFacts'
      BY <1>1, <1>2, <1>3, <1>4, <1>5, <2>1, <2>2 DEF LayoutInv, Sizes, SearchFacts
  <2> QED BY <1>5, <2>3 DEF LayoutInv, Found16, Found32, LayoutFits, LaidOut
<1>6. CASE step' = "layout16"
  <2>1. /\ dataStart' = dataStart
        /\ ~(dataStart < BU16 + 1 + 2 * fatSize' + DirBlocks16)
        /\ relSector' = dataStart - (BU16 + 1 + 2 * fatSize' + DirBlocks16) + BU16
      BY <1>6 DEF SearchFat16
  <2>2. /\ relSector' \in Int /\ relSector' >= BU16
        /\ relSector' = dataStart' - (1 + 2 * fatSize' + DirBlocks16)
      BY <1>2, <1>4, <2>1, GapFilled
  <2>3. Sizes' /\ SearchFacts'
      BY <1>1, <1>2, <1>3, <1>4, <1>6, <2>1, <2>2 DEF LayoutInv, Sizes, SearchFacts
  <2>4. Found16'
      BY <1>1, <2>1, <2>2 DEF Found16, ClustersBehind
  <2> QED BY <1>6, <2>3, <2>4 DEF LayoutInv, Found32, LayoutFits, LaidOut
<1> QED BY <1>1, <1>5, <1>6

\* A turn of the search for the data of FAT32.
LEMMA SearchFat32Step ==
    ASSUME LayoutInv, SearchFat32
    PROVE LayoutInv'
<1>1. /\ step = "fat32" /\ step' \in {"fat32", "layout32"}
      /\ nc' = ClustersBehind(dataStart) /\ fatSize' = FatSizeFor(nc', 128)
      /\ UNCHANGED <<type, cardSizeBlocks, sectorsPerCluster, relSector, partSize, reservedSectors,
                     fatStart>>
    BY DEF SearchFat32, cardVars, sizeVars
<1>2. /\ type = "SDHC" /\ sectorsPerCluster \in ClusterSizes /\ dataStart % BU32 = 0
      /\ relSector = BU32 /\ dataStart \in Int /\ cardSizeBlocks \in Int
    BY <1>1 DEF LayoutInv, Sizes, SearchFacts
<1>3. nc' \in Int
    BY <1>1, <1>2, SMT DEF ClustersBehind, ClusterSizes
<1>4. fatSize' \in Int
    BY <1>1, <1>3, SMT DEF FatSizeFor
<1>5. CASE step' = "fat32"
  <2>1. dataStart' = dataStart + BU32
      BY <1>5 DEF SearchFat32
  <2>2. dataStart' \in Int /\ dataStart' % BU32 = 0
      BY <1>2, <2>1, SMT DEF BU32
  <2>3. Sizes' /\ SearchFacts'
      BY <1>1, <1>2, <1>3, <1>4, <1>5, <2>2 DEF LayoutInv, Sizes, SearchFacts
  <2> QED BY <1>5, <2>3 DEF LayoutInv, Found16, Found32, LayoutFits, LaidOut
<1>6. CASE step' = "layout32"
  <2>1. dataStart' = dataStart /\ ~(dataStart < relSector + 9 + 2 * fatSize')
      BY <1>6 DEF SearchFat32
  <2>2. dataStart' >= relSector' + 9 + 2 * fatSize'
      BY <1>1, <1>2, <1>4, <2>1, SMT DEF BU32
  <2>3. Sizes' /\ SearchFacts'
      BY <1>1, <1>2, <1>3, <1>4, <1>6, <2>1 DEF LayoutInv, Sizes, SearchFacts
  <2>4. Found32'
      BY <1>1, <2>1, <2>2 DEF Found32, ClustersBehind
  <2> QED BY <1>6, <2>3, <2>4 DEF LayoutInv, Found16, LayoutFits, LaidOut
<1> QED BY <1>1, <1>5, <1>6

-----------------------------------------------------------------------------
\* The layout of FAT16, from the facts of the search.
LEMMA LayoutFat16Step ==
    ASSUME LayoutInv, LayoutFat16
    PROVE LayoutInv'
<1> DEFINE clusters == nc * sectorsPerCluster
<1>1. /\ step = "layout16" /\ step' = "mbr" /\ Fat16Count
      /\ reservedSectors' = 1 /\ fatStart' = relSector + 1
      /\ partSize' = clusters + 2 * fatSize + 1 + DirBlocks16
      /\ UNCHANGED <<type, cardSizeBlocks, sectorsPerCluster, relSector, fatSize, dataStart, nc>>
    BY DEF LayoutFat16, Go, cardVars, sizeVars
<1>2. /\ type = "SD" /\ sectorsPerCluster \in ClusterSizes /\ dataStart % BU16 = 0
      /\ nc = ClustersBehind(dataStart) /\ fatSize = FatSizeFor(nc, 256)
      /\ relSector = dataStart - (1 + 2 * fatSize + DirBlocks16) /\ relSector >= BU16
      /\ cardSizeBlocks \in Int /\ relSector \in Int /\ fatSize \in Int
      /\ dataStart \in Int /\ nc \in Int
    BY <1>1 DEF LayoutInv, Sizes, SearchFacts, Found16
<1>3. cardSizeBlocks - dataStart \in Int
    BY <1>2, SMT
<1>4. clusters \in Int /\ clusters <= cardSizeBlocks - dataStart
    BY <1>2, <1>3, ClustersFit DEF ClustersBehind
<1> HIDE DEF clusters
<1>5. fatSize * 256 >= nc + 2
    BY <1>2, FatHolds
<1>6. /\ fatStart' \in Int /\ partSize' \in Int
      /\ 0 < relSector /\ relSector < fatStart'
      /\ fatStart' + 2 * fatSize + DirBlocks16 = dataStart
      /\ relSector + partSize' = dataStart + clusters
      /\ dataStart + clusters <= cardSizeBlocks
    BY <1>1, <1>2, <1>4, SMT DEF BU16, DirBlocks16
<1>7. Sizes'
    BY <1>1, <1>2, <1>6, SMT DEF LayoutInv, Sizes
<1>8. LayoutFits'
    BY <1>1, <1>2, <1>5, <1>6 DEF LayoutFits, EntriesPerBlock, clusters
<1> QED BY <1>1, <1>7, <1>8 DEF LayoutInv, SearchFacts, Found16, Found32

\* The layout of FAT32: what is left before the FATs is reserved.
LEMMA LayoutFat32Step ==
    ASSUME LayoutInv, LayoutFat32
    PROVE LayoutInv'
<1> DEFINE clusters == nc * sectorsPerCluster
<1>1. /\ step = "layout32" /\ step' = "mbr" /\ Fat32Count
      /\ reservedSectors' = dataStart - relSector - 2 * fatSize
      /\ fatStart' = relSector + reservedSectors'
      /\ partSize' = clusters + dataStart - relSector
      /\ UNCHANGED <<type, cardSizeBlocks, sectorsPerCluster, relSector, fatSize, dataStart, nc>>
    BY DEF LayoutFat32, Go, cardVars, sizeVars
<1>2. /\ type = "SDHC" /\ sectorsPerCluster \in ClusterSizes /\ dataStart % BU32 = 0
      /\ nc = ClustersBehind(dataStart) /\ fatSize = FatSizeFor(nc, 128)
      /\ relSector = BU32 /\ dataStart >= relSector + 9 + 2 * fatSize
      /\ cardSizeBlocks \in Int /\ relSector \in Int /\ fatSize \in Int
      /\ dataStart \in Int /\ nc \in Int
    BY <1>1 DEF LayoutInv, Sizes, SearchFacts, Found32
<1>3. cardSizeBlocks - dataStart \in Int
    BY <1>2, SMT
<1>4. clusters \in Int /\ clusters <= cardSizeBlocks - dataStart
    BY <1>2, <1>3, ClustersFit DEF ClustersBehind
<1> HIDE DEF clusters
<1>5. fatSize * 128 >= nc + 2
    BY <1>2, FatHolds
<1>6. /\ reservedSectors' \in Int /\ fatStart' \in Int /\ partSize' \in Int
      /\ 0 < relSector /\ relSector < fatStart'
      /\ fatStart' + 2 * fatSize + 0 = dataStart
      /\ relSector + partSize' = dataStart + clusters
      /\ dataStart + clusters <= cardSizeBlocks
      /\ dataStart % BU16 = 0
    BY <1>1, <1>2, <1>4, SMT DEF BU16, BU32
<1>7. Sizes'
    BY <1>1, <1>2, <1>6, SMT DEF LayoutInv, Sizes
<1>8. LayoutFits'
    BY <1>1, <1>2, <1>5, <1>6 DEF LayoutFits, EntriesPerBlock, clusters
<1> QED BY <1>1, <1>7, <1>8 DEF LayoutInv, SearchFacts, Found16, Found32

\* Every other step leaves the layout alone, and neither begins nor ends a search.
Apart == step \notin {"fat16", "fat32", "layout16", "layout32"}
LEMMA OtherStep ==
    ASSUME LayoutInv, UNCHANGED <<cardVars, sizeVars, layoutVars>>, Apart',
           LaidOut' => LaidOut
    PROVE LayoutInv'
<1>1. /\ UNCHANGED <<type, cardSizeBlocks, sectorsPerCluster, relSector, partSize, reservedSectors>>
      /\ UNCHANGED <<fatStart, fatSize, dataStart, nc>>
    BY DEF cardVars, sizeVars, layoutVars
<1>2. Sizes' /\ LayoutFits'
    BY <1>1 DEF LayoutInv, Sizes, LayoutFits, EntriesPerBlock
<1> QED BY <1>2 DEF LayoutInv, Apart, SearchFacts, Found16, Found32

\* A reset begins with nothing.
LEMMA ResetStep ==
    ASSUME LayoutInv, Reset
    PROVE LayoutInv'
<1>1. /\ step' = "ready" /\ type' = type /\ cardSizeBlocks' = cardSizeBlocks
      /\ relSector' = 0 /\ partSize' = 0 /\ reservedSectors' = 0
      /\ fatStart' = 0 /\ fatSize' = 0 /\ dataStart' = 0 /\ nc' = 0
    BY DEF Reset, cardVars
<1>2. Sizes'
    BY <1>1, SMT DEF LayoutInv, Sizes
<1> QED BY <1>1, <1>2 DEF LayoutInv, SearchFacts, Found16, Found32, LayoutFits, LaidOut

Layouts == initSizes \/ SearchFat16 \/ SearchFat32 \/ LayoutFat16 \/ LayoutFat32

\* The steps of the program but those of the layout.
LEMMA FormatOther ==
    ASSUME Format, ~Reset, ~Layouts
    PROVE UNCHANGED <<cardVars, sizeVars, layoutVars>> /\ Apart' /\ (LaidOut' => LaidOut)
<1>1. CASE AnswerYes BY <1>1 DEF AnswerYes, Apart, LaidOut
<1>2. CASE BeginCard BY <1>2 DEF BeginCard, Go, Apart, LaidOut
<1>3. CASE EraseTurn BY <1>3 DEF EraseTurn, Apart, LaidOut
<1>4. CASE EraseDone BY <1>4 DEF EraseDone, Go, Apart, LaidOut
<1>5. CASE \E from \in {"begin", "erase", "erased", "sizes", "layout16", "layout32", "mbr", "boot",
                       "clear", "reserve"} : sdError(from)
    BY <1>5 DEF sdError, Go, Apart, LaidOut
<1>6. CASE writeMbr \/ writeBoot16 \/ writeBoot32 \/ clearFatDir \/ writeReserved
    BY <1>6 DEF writeMbr, writeBoot16, writeBoot32, clearFatDir, writeReserved, Writes, Go,
                Apart, LaidOut
<1>7. BeginFails \/ EraseFails \/ ReadBackFails \/ TooSmall \/ BadClusterCount \/ MbrFails
      \/ BootFails \/ ClearFails \/ ReserveFails
      => \E from \in {"begin", "erase", "erased", "sizes", "layout16", "layout32", "mbr", "boot",
                      "clear", "reserve"} : sdError(from)
    BY DEF BeginFails, EraseFails, ReadBackFails, TooSmall, BadClusterCount, MbrFails, BootFails,
           ClearFails, ReserveFails
<1> QED BY <1>1, <1>2, <1>3, <1>4, <1>5, <1>6, <1>7 DEF Format, Layouts

\* The steps of the volume, and rest.
LEMMA VolumeOther ==
    ASSUME Volume \/ Rests
    PROVE UNCHANGED <<cardVars, sizeVars, layoutVars>> /\ (UNCHANGED step \/ (Apart' /\ ~LaidOut'))
<1>1. CASE InitVolume BY <1>1 DEF InitVolume, Apart, LaidOut
<1>2. CASE InitFails BY <1>2 DEF InitFails, Go, Apart, LaidOut
<1>3. CASE UseVolume BY <1>3 DEF UseVolume
<1>4. CASE WipeRoot BY <1>4 DEF WipeRoot, WipeStep, Go, Apart, LaidOut
<1>5. CASE WipeFats BY <1>5 DEF WipeFats, WipeStep, Go, Apart, LaidOut
<1>6. CASE WipeReserve BY <1>6 DEF WipeReserve, WipeStep, Go, Apart, LaidOut
<1>7. CASE WipeRootCluster BY <1>7 DEF WipeRootCluster, Go, Apart, LaidOut
<1>8. CASE WipeFails BY <1>8 DEF WipeFails, Apart, LaidOut
<1>9. CASE Rests BY <1>9 DEF Rests, formatVars
<1> QED BY <1>1, <1>2, <1>3, <1>4, <1>5, <1>6, <1>7, <1>8, <1>9 DEF Volume

\* A step that changes neither the layout nor the place in the program.
LEMMA SameStep ==
    ASSUME LayoutInv, UNCHANGED <<cardVars, sizeVars, layoutVars>>, UNCHANGED step
    PROVE LayoutInv'
BY DEF cardVars, sizeVars, layoutVars, LayoutInv, Sizes, SearchFacts, Found16, Found32, LayoutFits,
       LaidOut, EntriesPerBlock, ClustersBehind

\* The invariant of the layout.
LEMMA LayoutBegins == InitFormat => LayoutInv
<1> SUFFICES ASSUME InitFormat PROVE LayoutInv
    OBVIOUS
<1>1. /\ type \in {"SD", "SDHC"} /\ cardSizeBlocks \in StandardCards \cup HighCapacityCards
      /\ relSector = 0 /\ partSize = 0 /\ reservedSectors = 0
      /\ fatStart = 0 /\ fatSize = 0 /\ dataStart = 0 /\ nc = 0 /\ step = "ready"
    BY Zenon DEF InitFormat
<1>2. cardSizeBlocks \in Int
    BY <1>1, CardsAssumption, SMT
<1>3. Sizes
    BY <1>1, <1>2, SMT DEF Sizes
<1> QED BY <1>1, <1>3 DEF LayoutInv, SearchFacts, Found16, Found32, LayoutFits, LaidOut

LEMMA LayoutGoesOn == LayoutInv /\ [NextFormat]_formatVars => LayoutInv'
<1> SUFFICES ASSUME LayoutInv, [NextFormat]_formatVars PROVE LayoutInv'
    OBVIOUS
<1>1. CASE Layouts
    BY <1>1, SizesStep, SearchFat16Step, SearchFat32Step, LayoutFat16Step, LayoutFat32Step
    DEF Layouts
<1>2. CASE Reset
    BY <1>2, ResetStep
<1>3. CASE Format /\ ~Reset /\ ~Layouts
    BY <1>3, FormatOther, OtherStep
<1>4. CASE Volume \/ Rests
    BY <1>4, VolumeOther, OtherStep, SameStep
<1>5. CASE UNCHANGED formatVars
    BY <1>5, SameStep DEF formatVars
<1> QED BY <1>1, <1>2, <1>3, <1>4, <1>5 DEF NextFormat

THEOREM LayoutInvariant == SpecFormat => []LayoutInv
BY LayoutBegins, LayoutGoesOn, PTL DEF SpecFormat

\* A layout fits its card, for cards of every size.
THEOREM LayoutCorrect == SpecFormat => []LayoutFits
<1>1. LayoutInv => LayoutFits
    BY DEF LayoutInv
<1> QED BY <1>1, LayoutInvariant, PTL

-----------------------------------------------------------------------------
(* What the card holds.  A write changes the blocks it writes, and no other: ranges    *)
(* never share a block, and those that are written over in part keep the rest.         *)

On(e, b) == e.lo <= b /\ b <= e.hi
At(d, b) ==
    LET on == {e \in d : e.lo <= b /\ b <= e.hi}
    IN IF on = {} THEN Old ELSE (CHOOSE e \in on : TRUE).content

Disjoint(d) ==
    /\ \A e \in d : e.lo \in Int /\ e.hi \in Int
    /\ \A e, f \in d : \A b \in Int : On(e, b) /\ On(f, b) => e = f

\* A block holds what the range it is in holds.
LEMMA AtRange ==
    ASSUME NEW d, Disjoint(d), NEW b \in Int, NEW e \in d, On(e, b)
    PROVE At(d, b) = e.content
<1> DEFINE here == {x \in d : x.lo <= b /\ b <= x.hi}
<1>1. e \in here
  BY DEF On
<1>2. \A x \in here : x = e
  BY DEF Disjoint, On
<1>3. (CHOOSE x \in here : TRUE) = e
  BY <1>1, <1>2
<1> QED BY <1>1, <1>3 DEF At

LEMMA AtNone ==
    ASSUME NEW d, NEW b, \A e \in d : ~On(e, b)
    PROVE At(d, b) = Old
BY DEF At, On

\* The pieces that a write from lo to hi leaves of what was there.
Before(d, lo) == {Part(e, e.lo, IF e.hi < lo THEN e.hi ELSE lo - 1) : e \in d}
Behind(d, hi) == {Part(e, IF e.lo > hi THEN e.lo ELSE hi + 1, e.hi) : e \in d}
Kept(d, lo, hi) == {e \in Before(d, lo) \cup Behind(d, hi) : e.lo <= e.hi}

\* A piece is of one range, outside of what is written.
LEMMA PieceOf ==
    ASSUME NEW d, Disjoint(d), NEW lo \in Int, NEW hi \in Int, lo <= hi,
           NEW p \in Kept(d, lo, hi)
    PROVE  \E e \in d :
               /\ p.lo \in Int /\ p.hi \in Int /\ p.content = e.content
               /\ \A b \in Int : On(p, b) => On(e, b) /\ ~(lo <= b /\ b <= hi)
               /\ \/ p = Part(e, e.lo, IF e.hi < lo THEN e.hi ELSE lo - 1)
                  \/ p = Part(e, IF e.lo > hi THEN e.lo ELSE hi + 1, e.hi)
<1>1. CASE p \in Before(d, lo)
  <2>1. PICK e \in d : p = Part(e, e.lo, IF e.hi < lo THEN e.hi ELSE lo - 1)
    BY <1>1 DEF Before
  <2>2. e.lo \in Int /\ e.hi \in Int
    BY DEF Disjoint
  <2>3. /\ p.lo = e.lo /\ p.hi = (IF e.hi < lo THEN e.hi ELSE lo - 1)
        /\ p.content = e.content
    BY <2>1 DEF Part
  <2>4. \A b \in Int : On(p, b) => On(e, b) /\ ~(lo <= b /\ b <= hi)
    BY <2>2, <2>3 DEF On
  <2> QED BY <2>1, <2>2, <2>3, <2>4
<1>2. CASE p \in Behind(d, hi)
  <2>1. PICK e \in d : p = Part(e, IF e.lo > hi THEN e.lo ELSE hi + 1, e.hi)
    BY <1>2 DEF Behind
  <2>2. e.lo \in Int /\ e.hi \in Int
    BY DEF Disjoint
  <2>3. /\ p.hi = e.hi /\ p.lo = (IF e.lo > hi THEN e.lo ELSE hi + 1)
        /\ p.content = e.content
    BY <2>1 DEF Part
  <2>4. \A b \in Int : On(p, b) => On(e, b) /\ ~(lo <= b /\ b <= hi)
    BY <2>2, <2>3 DEF On
  <2> QED BY <2>1, <2>2, <2>3, <2>4
<1> QED BY <1>1, <1>2 DEF Kept

\* A block that is not written is still in a piece of its range.
LEMMA PieceAround ==
    ASSUME NEW d, Disjoint(d), NEW lo \in Int, NEW hi \in Int, lo <= hi,
           NEW e \in d, NEW b \in Int, On(e, b), ~(lo <= b /\ b <= hi)
    PROVE  \E p \in Kept(d, lo, hi) : On(p, b) /\ p.content = e.content
<1>1. e.lo \in Int /\ e.hi \in Int
  BY DEF Disjoint
<1>2. CASE b < lo
  <2> DEFINE p == Part(e, e.lo, IF e.hi < lo THEN e.hi ELSE lo - 1)
  <2>1. p.lo = e.lo /\ p.hi = (IF e.hi < lo THEN e.hi ELSE lo - 1) /\ p.content = e.content
    BY DEF Part
  <2>2. On(p, b) /\ p.lo <= p.hi
    BY <1>1, <1>2, <2>1 DEF On
  <2>3. p \in Before(d, lo)
    BY DEF Before
  <2> QED BY <2>1, <2>2, <2>3 DEF Kept
<1>3. CASE b > hi
  <2> DEFINE p == Part(e, IF e.lo > hi THEN e.lo ELSE hi + 1, e.hi)
  <2>1. p.hi = e.hi /\ p.lo = (IF e.lo > hi THEN e.lo ELSE hi + 1) /\ p.content = e.content
    BY DEF Part
  <2>2. On(p, b) /\ p.lo <= p.hi
    BY <1>1, <1>3, <2>1 DEF On
  <2>3. p \in Behind(d, hi)
    BY DEF Behind
  <2> QED BY <2>1, <2>2, <2>3 DEF Kept
<1> QED BY <1>2, <1>3

\* What the card holds after a write.
LEMMA PutIs ==
    ASSUME NEW d, Disjoint(d), NEW lo \in Int, NEW hi \in Int, lo <= hi, NEW c
    PROVE  /\ Disjoint(Put(d, lo, hi, c))
           /\ \A b \in Int :
                At(Put(d, lo, hi, c), b) = IF lo <= b /\ b <= hi THEN c ELSE At(d, b)
<1> DEFINE new == [lo |-> lo, hi |-> hi, content |-> c]
           after == {new} \cup Kept(d, lo, hi)
<1>1. Put(d, lo, hi, c) = after
  BY DEF Put, Kept, Before, Behind
<1>2. new.lo = lo /\ new.hi = hi /\ new.content = c
  OBVIOUS
<1>3. \A b \in Int : On(new, b) <=> lo <= b /\ b <= hi
  BY <1>2 DEF On
<1> HIDE DEF new
<1>4. ASSUME NEW p \in Kept(d, lo, hi), NEW q \in Kept(d, lo, hi), NEW b \in Int, On(p, b), On(q, b)
      PROVE  p = q
  <2>1. PICK e \in d :
               /\ On(e, b) /\ ~(lo <= b /\ b <= hi) /\ e.lo \in Int /\ e.hi \in Int
               /\ \/ p = Part(e, e.lo, IF e.hi < lo THEN e.hi ELSE lo - 1)
                  \/ p = Part(e, IF e.lo > hi THEN e.lo ELSE hi + 1, e.hi)
    BY <1>4, PieceOf DEF Disjoint
  <2>2. PICK f \in d :
               /\ On(f, b)
               /\ \/ q = Part(f, f.lo, IF f.hi < lo THEN f.hi ELSE lo - 1)
                  \/ q = Part(f, IF f.lo > hi THEN f.lo ELSE hi + 1, f.hi)
    BY <1>4, PieceOf
  <2>3. e = f
    BY <2>1, <2>2 DEF Disjoint
  <2>4. CASE b < lo
    <3>1. \A x : p = Part(e, IF e.lo > hi THEN e.lo ELSE hi + 1, x) =>
                    p.lo = (IF e.lo > hi THEN e.lo ELSE hi + 1)
      BY DEF Part
    <3>2. \A x : q = Part(e, IF e.lo > hi THEN e.lo ELSE hi + 1, x) =>
                    q.lo = (IF e.lo > hi THEN e.lo ELSE hi + 1)
      BY DEF Part
    <3>3. p.lo <= b /\ q.lo <= b
      BY <1>4 DEF On
    <3>4. ~((IF e.lo > hi THEN e.lo ELSE hi + 1) <= b)
      BY <2>1, <2>4
    <3> QED BY <2>1, <2>2, <2>3, <3>1, <3>2, <3>3, <3>4
  <2>5. CASE b > hi
    <3>1. \A x : p = Part(e, x, IF e.hi < lo THEN e.hi ELSE lo - 1) =>
                    p.hi = (IF e.hi < lo THEN e.hi ELSE lo - 1)
      BY DEF Part
    <3>2. \A x : q = Part(e, x, IF e.hi < lo THEN e.hi ELSE lo - 1) =>
                    q.hi = (IF e.hi < lo THEN e.hi ELSE lo - 1)
      BY DEF Part
    <3>3. b <= p.hi /\ b <= q.hi
      BY <1>4 DEF On
    <3>4. ~(b <= (IF e.hi < lo THEN e.hi ELSE lo - 1))
      BY <2>1, <2>5
    <3> QED BY <2>1, <2>2, <2>3, <3>1, <3>2, <3>3, <3>4
  <2> QED BY <2>1, <2>4, <2>5
<1>5. \A p \in Kept(d, lo, hi) : p.lo \in Int /\ p.hi \in Int
  BY PieceOf
<1>6. \A p \in Kept(d, lo, hi) : \A b \in Int : On(p, b) => ~On(new, b)
  BY <1>3, PieceOf
<1>7. Disjoint(after)
  BY <1>2, <1>4, <1>5, <1>6 DEF Disjoint
<1>8. ASSUME NEW b \in Int
      PROVE  At(after, b) = IF lo <= b /\ b <= hi THEN c ELSE At(d, b)
  <2>1. CASE lo <= b /\ b <= hi
    BY <1>2, <1>3, <1>7, <2>1, AtRange
  <2>2. CASE ~(lo <= b /\ b <= hi)
    <3>1. CASE \E e \in d : On(e, b)
      <4>1. PICK e \in d : On(e, b)
        BY <3>1
      <4>2. PICK p \in Kept(d, lo, hi) : On(p, b) /\ p.content = e.content
        BY <2>2, <4>1, PieceAround
      <4>3. At(after, b) = p.content
        BY <1>7, <4>2, AtRange
      <4>4. At(d, b) = e.content
        BY <4>1, AtRange
      <4> QED BY <2>2, <4>2, <4>3, <4>4
    <3>2. CASE ~\E e \in d : On(e, b)
      <4>1. \A p \in Kept(d, lo, hi) : ~On(p, b)
        BY <3>2, PieceOf
      <4>2. \A p \in after : ~On(p, b)
        BY <1>3, <2>2, <4>1
      <4> QED BY <2>2, <3>2, <4>2, AtNone
    <3> QED BY <3>1, <3>2
  <2> QED BY <2>1, <2>2
<1> HIDE DEF after
<1> QED BY <1>1, <1>7, <1>8

-----------------------------------------------------------------------------
(* That a format makes an empty volume, and a wipe leaves one. *)

Mounted == step \in {"mounted", "wipeFats", "wipeReserve", "wipeRootCluster"}
Made ==
    \/ Mounted \/ step \in {"wiped", "wipeFailed"}
    \/ step = "done" /\ mode \in {"F", "Q"}
Searching == step \in {"fat16", "fat32", "layout16", "layout32"}

\* What each step knows of the option typed.
ModeInv ==
    /\ step \in {"begin", "done"} => mode \in {"E", "F", "Q"}
    /\ step \in {"erase", "erased"} => mode \in {"E", "F"}
    /\ step = "sizes" \/ Searching \/ LaidOut => mode \in {"F", "Q"}

CardInv ==
    /\ type \in {"SD", "SDHC"}
    /\ cardSizeBlocks \in Int /\ cardSizeBlocks > 0
    /\ type = "SDHC" => cardSizeBlocks > 2 * BU32

\* The start of the data is on the card, and what would be reserved before it fits in 16 bits.
StartInv ==
    /\ step = "fat16" => dataStart >= 2 * BU16 /\ dataStart <= cardSizeBlocks
    /\ step = "fat32" =>
         /\ dataStart >= 2 * BU32 /\ dataStart <= cardSizeBlocks
         /\ dataStart - BU32 - 2 * FatSizeFor(ClustersBehind(dataStart), 128) < Uint16
    /\ step = "layout32" => dataStart - BU32 - 2 * fatSize < Uint16

\* The heads and tracks of initSizes().
GeometryInv ==
    Searching \/ LaidOut \/ Made =>
        /\ numberOfHeads \in {2, 4, 8, 16, 32, 64, 128, 255}
        /\ sectorsPerTrack \in {32, 63}
        /\ sectorsPerCluster \in ClusterSizes

\* The layout, while it is written and as long as the volume is there.
RootBlocksOf == IF type = "SDHC" THEN sectorsPerCluster ELSE DirBlocks16
LayoutKept ==
    LaidOut \/ Made =>
        /\ type \in {"SD", "SDHC"}
        /\ relSector > 0 /\ fatSize > 0
        /\ fatStart = relSector + reservedSectors
        /\ relSector + partSize = dataStart + nc * sectorsPerCluster
        /\ type = "SD" =>
             /\ Fat16Count /\ reservedSectors = 1
             /\ fatStart + 2 * fatSize + DirBlocks16 = dataStart
        /\ type = "SDHC" =>
             /\ Fat32Count /\ reservedSectors >= 9 /\ reservedSectors < Uint16
             /\ fatStart + 2 * fatSize = dataStart

Zeroed(lo, hi) == \A b \in lo .. hi : At(disk, b) = Zeros
RootFirst == fatStart + 2 * fatSize
RootZeroed == Zeroed(RootFirst, RootFirst + RootBlocksOf - 1)
Empty ==
    /\ \A start \in {fatStart, fatStart + fatSize} :
         At(disk, start) = Reserved /\ Zeroed(start + 1, start + fatSize - 1)
    /\ RootZeroed

Erased == At(disk, 0) \in {Zeros, Ones}
\* What has been written so far.
WrittenInv ==
    /\ Disjoint(disk)
    /\ step = "erase" => firstBlock >= 0 /\ firstBlock < cardSizeBlocks /\ (firstBlock > 0 => Erased)
    /\ (step = "erased" \/ (step = "done" /\ mode = "E")) => Erased
    /\ step \in {"boot", "clear", "reserve"} \/ Made => At(disk, 0) = Mbr
    /\ step \in {"clear", "reserve"} \/ Made => At(disk, relSector) = Boot
    /\ step = "reserve" => Zeroed(fatStart, RootFirst + RootBlocksOf - 1)
    /\ step = "done" /\ mode \in {"F", "Q"} => Empty

\* What init() reads, and how far wipe() has come.
VolumeMade ==
    [fatType |-> IF type = "SDHC" THEN 32 ELSE 16,
     blocksPerCluster |-> sectorsPerCluster, blocksPerFat |-> fatSize,
     fatStartBlock |-> fatStart,
     rootDirStart |-> IF type = "SDHC" THEN 2 ELSE fatStart + 2 * fatSize,
     rootDirEntryCount |-> IF type = "SDHC" THEN 0 ELSE 512,
     dataStartBlock |-> dataStart, lastCluster |-> nc + 1]
WipedInv ==
    /\ Mounted => vol = VolumeMade
    /\ step \in {"wipeFats", "wipeReserve"} => RootZeroed
    /\ step = "wipeReserve" /\ 2 * fatSize < Uint16 => Zeroed(fatStart, RootFirst - 1)
    /\ step = "wipeRootCluster" /\ 2 * fatSize < Uint16 => Empty
    /\ step = "wiped" => Empty \/ (type = "SDHC" /\ fatCache = fatStart) \/ 2 * fatSize >= Uint16

-----------------------------------------------------------------------------
(* The steps, by what they leave alone.                                                *)

Halts ==
    /\ step' = "halted"
    /\ UNCHANGED <<mode, cardVars, sizeVars, layoutVars, firstBlock, disk, volVars, boundVars>>
Writing == writeMbr \/ writeBoot16 \/ writeBoot32 \/ clearFatDir \/ writeReserved
Wiping == UseVolume \/ WipeRoot \/ WipeFats \/ WipeReserve \/ WipeRootCluster
Keeping ==
    \/ AnswerYes \/ BeginCard \/ EraseTurn \/ EraseDone \/ Writing \/ Halts
    \/ InitVolume \/ Wiping \/ WipeFails

LEMMA StepIs ==
    ASSUME [NextFormat]_formatVars
    PROVE  Reset \/ Layouts \/ Keeping \/ UNCHANGED formatVars
<1>1. \A from : sdError(from) => Halts
  BY DEF sdError, Go, Halts
<1>2. InitFails => Halts
  BY DEF InitFails, Go, Halts
<1>3. BeginFails \/ EraseFails \/ ReadBackFails \/ TooSmall \/ BadClusterCount \/ MbrFails
      \/ BootFails \/ ClearFails \/ ReserveFails => Halts
  BY <1>1 DEF BeginFails, EraseFails, ReadBackFails, TooSmall, BadClusterCount, MbrFails, BootFails,
              ClearFails, ReserveFails
<1>4. Format => Reset \/ Layouts \/ Keeping
  BY <1>3 DEF Format, Layouts, Keeping, Writing
<1>5. Volume => Keeping
  BY <1>2 DEF Volume, Keeping, Wiping
<1>6. Rests => UNCHANGED formatVars
  BY DEF Rests
<1> QED BY <1>4, <1>5, <1>6 DEF NextFormat

\* Nothing is mounted after an erasure.
LEMMA MountsMade ==
    ASSUME ModeInv, WrittenInv, InitVolume
    PROVE  Made
<1>1. step \in {"done", "wiped", "wipeFailed"}
  BY DEF InitVolume
<1>2. CASE step = "done"
  <2>1. Content(0).kind = "mbr"
    BY DEF InitVolume, HasBoot
  <2>2. At(disk, 0) \notin {Zeros, Ones}
    BY <2>1 DEF Content, At, Zeros, Ones
  <2>3. mode # "E"
    BY <1>2, <2>2 DEF WrittenInv, Erased
  <2> QED BY <1>2, <2>3 DEF ModeInv, Made
<1> QED BY <1>1, <1>2 DEF Made

LEMMA LayoutStays ==
    ASSUME ModeInv, WrittenInv, Keeping
    PROVE  /\ UNCHANGED <<cardVars, sizeVars, layoutVars>>
           /\ ~Searching'
           /\ (LaidOut \/ Made)' => LaidOut \/ Made
<1>1. CASE AnswerYes
  BY <1>1 DEF AnswerYes, Searching, LaidOut, Made, Mounted
<1>2. CASE BeginCard
  BY <1>2 DEF BeginCard, Go, Searching, LaidOut, Made, Mounted
<1>3. CASE EraseTurn
  BY <1>3 DEF EraseTurn, Searching, LaidOut, Made, Mounted
<1>4. CASE EraseDone
  BY <1>4 DEF EraseDone, Go, Searching, LaidOut, Made, Mounted, ModeInv
<1>5. CASE Writing
  BY <1>5 DEF Writing, writeMbr, writeBoot16, writeBoot32, clearFatDir, writeReserved, Writes, Go,
              Searching, LaidOut, Made, Mounted
<1>6. CASE Halts
  BY <1>6 DEF Halts, Searching, LaidOut, Made, Mounted
<1>7. CASE InitVolume
  <2>1. Made
    BY <1>7, MountsMade
  <2> QED BY <1>7, <2>1 DEF InitVolume, Searching, LaidOut
<1>8. CASE Wiping
  BY <1>8 DEF Wiping, UseVolume, WipeRoot, WipeFats, WipeReserve, WipeRootCluster, WipeStep, Go,
              Searching, LaidOut, Made, Mounted
<1>9. CASE WipeFails
  BY <1>9 DEF WipeFails, Searching, LaidOut, Made, Mounted
<1> QED BY <1>1, <1>2, <1>3, <1>4, <1>5, <1>6, <1>7, <1>8, <1>9 DEF Keeping

LEMMA ModeStep ==
    ASSUME ModeInv, Reset \/ Layouts \/ Keeping
    PROVE  ModeInv'
<1> USE DEF ModeInv, Searching, LaidOut
<1>1. CASE Reset
  BY <1>1 DEF Reset
<1>2. CASE Layouts
  BY <1>2 DEF Layouts, initSizes, SearchFat16, SearchFat32, LayoutFat16, LayoutFat32, Go
<1>3. CASE AnswerYes
  BY <1>3 DEF AnswerYes
<1>4. CASE BeginCard \/ EraseDone
  BY <1>4 DEF BeginCard, EraseDone, Go
<1>5. CASE EraseTurn
  BY <1>5 DEF EraseTurn
<1>6. CASE Writing
  BY <1>6 DEF Writing, writeMbr, writeBoot16, writeBoot32, clearFatDir, writeReserved, Writes, Go
<1>7. CASE Halts \/ InitVolume \/ WipeFails
  BY <1>7 DEF Halts, InitVolume, WipeFails
<1>8. CASE Wiping
  BY <1>8 DEF Wiping, UseVolume, WipeRoot, WipeFats, WipeReserve, WipeRootCluster, WipeStep, Go
<1> QED BY <1>1, <1>2, <1>3, <1>4, <1>5, <1>6, <1>7, <1>8 DEF Keeping

-----------------------------------------------------------------------------
(* The search ends on the card, and near the FATs.                                     *)

\* The card that initSizes() accepts has room for the first start tried.
LEMMA LargeEnough ==
    ASSUME CardInv, cardCapacityMB > 6
    PROVE  cardSizeBlocks >= 2 * BU16
<1>1. cardSizeBlocks \in Int /\ cardSizeBlocks > 0
  BY DEF CardInv
<1>2. SUFFICES ASSUME cardSizeBlocks < 256 PROVE FALSE
  BY <1>1 DEF BU16
<1>3. (cardSizeBlocks + 2047) \div 2048 \in 0 .. 2
  BY <1>1, <1>2
<1>4. \A n \in 0 .. 2 : n % 65536 = n
  OBVIOUS
<1> QED BY <1>3, <1>4 DEF cardCapacityMB, Uint16

\* A start that is too near to the FATs leaves room for the next one, because FATs that
\* long are those of many clusters.
LEMMA Turn16 ==
    ASSUME NEW spc \in ClusterSizes, NEW room \in Int, room >= 0, NEW start \in Int, start >= 256,
           start < 161 + 2 * FatSizeFor(room \div spc, 256)
    PROVE  room >= 128
<1>1. CASE spc = 2 BY <1>1, SMT DEF FatSizeFor
<1>2. CASE spc = 4 BY <1>2, SMT DEF FatSizeFor
<1>3. CASE spc = 8 BY <1>3, SMT DEF FatSizeFor
<1>4. CASE spc = 16 BY <1>4, SMT DEF FatSizeFor
<1>5. CASE spc = 32 BY <1>5, SMT DEF FatSizeFor
<1>6. CASE spc = 64 BY <1>6, SMT DEF FatSizeFor
<1>7. CASE spc = 128 BY <1>7, SMT DEF FatSizeFor
<1> QED BY <1>1, <1>2, <1>3, <1>4, <1>5, <1>6, <1>7 DEF ClusterSizes

LEMMA Turn32 ==
    ASSUME NEW spc \in ClusterSizes, NEW room \in Int, room >= 0, NEW start \in Int,
           start >= 16384, start < 8201 + 2 * FatSizeFor(room \div spc, 128)
    PROVE  /\ room >= 8192
           /\ start - 2 * FatSizeFor((room - 8192) \div spc, 128) < 65536
<1>1. CASE spc = 2 BY <1>1, SMT DEF FatSizeFor
<1>2. CASE spc = 4 BY <1>2, SMT DEF FatSizeFor
<1>3. CASE spc = 8 BY <1>3, SMT DEF FatSizeFor
<1>4. CASE spc = 16 BY <1>4, SMT DEF FatSizeFor
<1>5. CASE spc = 32 BY <1>5, SMT DEF FatSizeFor
<1>6. CASE spc = 64 BY <1>6, SMT DEF FatSizeFor
<1>7. CASE spc = 128 BY <1>7, SMT DEF FatSizeFor
<1> QED BY <1>1, <1>2, <1>3, <1>4, <1>5, <1>6, <1>7 DEF ClusterSizes

LEMMA FatIsLong ==
    ASSUME NEW spc \in ClusterSizes, NEW room \in Int, room >= 0
    PROVE  FatSizeFor(room \div spc, 128) >= 0
<1>1. CASE spc = 2 BY <1>1, SMT DEF FatSizeFor
<1>2. CASE spc = 4 BY <1>2, SMT DEF FatSizeFor
<1>3. CASE spc = 8 BY <1>3, SMT DEF FatSizeFor
<1>4. CASE spc = 16 BY <1>4, SMT DEF FatSizeFor
<1>5. CASE spc = 32 BY <1>5, SMT DEF FatSizeFor
<1>6. CASE spc = 64 BY <1>6, SMT DEF FatSizeFor
<1>7. CASE spc = 128 BY <1>7, SMT DEF FatSizeFor
<1> QED BY <1>1, <1>2, <1>3, <1>4, <1>5, <1>6, <1>7 DEF ClusterSizes

LEMMA StartStep ==
    ASSUME LayoutInv, CardInv, StartInv, Layouts
    PROVE  StartInv'
<1>1. CASE initSizes
  <2>1. /\ type' = type /\ cardSizeBlocks' = cardSizeBlocks /\ step' \in {"fat16", "fat32"}
        /\ step' = "fat32" <=> type = "SDHC"
        /\ dataStart' = 2 * (IF type = "SDHC" THEN BU32 ELSE BU16)
        /\ sectorsPerCluster' = ClusterSizeFor(cardCapacityMB)
    BY <1>1 DEF initSizes, Go, cardVars
  <2>2. CASE type = "SDHC"
    <3>1. cardSizeBlocks \in Int /\ cardSizeBlocks > 2 * BU32
      BY <2>2 DEF CardInv
    <3>2. cardCapacityMB \in Int
      BY <3>1, SMT DEF cardCapacityMB, Uint16
    <3>3. sectorsPerCluster' \in ClusterSizes
      BY <2>1, <3>2, SizeChosen
    <3>4. dataStart' = 16384 /\ cardSizeBlocks - 16384 \in Int /\ cardSizeBlocks - 16384 >= 0
      BY <2>1, <2>2, <3>1 DEF BU32
    <3>5. FatSizeFor((cardSizeBlocks - 16384) \div sectorsPerCluster', 128) >= 0
      BY <3>3, <3>4, FatIsLong
    <3>6. FatSizeFor((cardSizeBlocks - 16384) \div sectorsPerCluster', 128) \in Int
      <4>1. (cardSizeBlocks - 16384) \div sectorsPerCluster' \in Int
        BY <3>3, <3>4, SMT DEF ClusterSizes
      <4> QED BY <4>1, FatHolds
    <3>7. FatSizeFor(ClustersBehind(dataStart), 128)'
            = FatSizeFor((cardSizeBlocks - 16384) \div sectorsPerCluster', 128)
      BY <2>1, <3>4 DEF ClustersBehind
    <3>8. (dataStart - BU32 - 2 * FatSizeFor(ClustersBehind(dataStart), 128) < Uint16)'
      BY <3>4, <3>5, <3>6, <3>7 DEF BU32, Uint16
    <3>9. dataStart' >= 2 * BU32 /\ dataStart' <= cardSizeBlocks'
      BY <2>1, <3>1, <3>4 DEF BU32
    <3> QED BY <2>1, <2>2, <3>8, <3>9 DEF StartInv
  <2>3. CASE type # "SDHC"
    <3>1. cardSizeBlocks >= 2 * BU16
      BY <1>1, LargeEnough DEF initSizes
    <3>2. dataStart' = 2 * BU16
      BY <2>1, <2>3
    <3> QED BY <2>1, <2>3, <3>1, <3>2 DEF StartInv, BU16
  <2> QED BY <2>2, <2>3
<1>2. CASE SearchFat16
  <2>1. /\ step = "fat16" /\ step' \in {"fat16", "layout16"}
        /\ step' = "fat16" => /\ dataStart' = dataStart + BU16
                              /\ dataStart < BU16 + 1 + 2 * FatSizeFor(ClustersBehind(dataStart), 256)
                                             + DirBlocks16
        /\ cardSizeBlocks' = cardSizeBlocks
    BY <1>2 DEF SearchFat16, cardVars
  <2>2. /\ sectorsPerCluster \in ClusterSizes /\ dataStart \in Int /\ cardSizeBlocks \in Int
        /\ dataStart >= 256 /\ dataStart <= cardSizeBlocks
    BY <2>1 DEF LayoutInv, Sizes, SearchFacts, StartInv, BU16
  <2>3. CASE step' = "fat16"
    <3>1. FatSizeFor(ClustersBehind(dataStart), 256) \in Int
      <4>1. ClustersBehind(dataStart) \in Int
        BY <2>2, SMT DEF ClustersBehind, ClusterSizes
      <4> QED BY <4>1, FatHolds
    <3>2. dataStart < 161 + 2 * FatSizeFor(ClustersBehind(dataStart), 256)
      BY <2>1, <2>2, <2>3, <3>1 DEF BU16, DirBlocks16
    <3>3. cardSizeBlocks - dataStart \in Int /\ cardSizeBlocks - dataStart >= 0
      BY <2>2
    <3>4. cardSizeBlocks - dataStart >= 128
      BY <2>2, <3>2, <3>3, Turn16 DEF ClustersBehind
    <3> QED BY <2>1, <2>2, <2>3, <3>4 DEF StartInv, BU16
  <2>4. CASE step' = "layout16"
    BY <2>4 DEF StartInv
  <2> QED BY <2>1, <2>3, <2>4
<1>3. CASE SearchFat32
  <2>1. /\ step = "fat32" /\ step' \in {"fat32", "layout32"}
        /\ step' = "fat32" => /\ dataStart' = dataStart + BU32
                              /\ dataStart < relSector + 9 + 2 * FatSizeFor(ClustersBehind(dataStart), 128)
        /\ step' = "layout32" => dataStart' = dataStart
        /\ fatSize' = FatSizeFor(ClustersBehind(dataStart), 128)
        /\ cardSizeBlocks' = cardSizeBlocks /\ sectorsPerCluster' = sectorsPerCluster
    BY <1>3 DEF SearchFat32, cardVars, sizeVars
  <2>2. /\ sectorsPerCluster \in ClusterSizes /\ dataStart \in Int /\ cardSizeBlocks \in Int
        /\ relSector = 8192 /\ dataStart >= 16384 /\ dataStart <= cardSizeBlocks
        /\ dataStart - BU32 - 2 * FatSizeFor(ClustersBehind(dataStart), 128) < Uint16
    BY <2>1 DEF LayoutInv, Sizes, SearchFacts, StartInv, BU32
  <2>3. CASE step' = "fat32"
    <3>1. FatSizeFor(ClustersBehind(dataStart), 128) \in Int
      <4>1. ClustersBehind(dataStart) \in Int
        BY <2>2, SMT DEF ClustersBehind, ClusterSizes
      <4> QED BY <4>1, FatHolds
    <3>2. dataStart < 8201 + 2 * FatSizeFor(ClustersBehind(dataStart), 128)
      BY <2>1, <2>2, <2>3, <3>1
    <3>3. cardSizeBlocks - dataStart \in Int /\ cardSizeBlocks - dataStart >= 0
      BY <2>2
    <3>4. /\ cardSizeBlocks - dataStart >= 8192
          /\ dataStart - 2 * FatSizeFor((cardSizeBlocks - dataStart - 8192) \div sectorsPerCluster, 128)
               < 65536
      BY <2>2, <3>2, <3>3, Turn32 DEF ClustersBehind
    <3>5. cardSizeBlocks - dataStart - 8192 = cardSizeBlocks - (dataStart + 8192)
      BY <2>2
    <3>6. /\ dataStart' = dataStart + 8192 /\ dataStart' - BU32 = dataStart
      BY <2>1, <2>2, <2>3 DEF BU32
    <3>7. (dataStart - BU32 - 2 * FatSizeFor(ClustersBehind(dataStart), 128) < Uint16)'
      BY <2>1, <3>4, <3>5, <3>6 DEF ClustersBehind, Uint16
    <3>8. dataStart' >= 2 * BU32 /\ dataStart' <= cardSizeBlocks'
      BY <2>1, <2>2, <3>4, <3>6 DEF BU32
    <3> QED BY <2>3, <3>7, <3>8 DEF StartInv
  <2>4. CASE step' = "layout32"
    BY <2>1, <2>2, <2>4 DEF StartInv
  <2> QED BY <2>1, <2>3, <2>4
<1>4. CASE LayoutFat16 \/ LayoutFat32
  BY <1>4 DEF LayoutFat16, LayoutFat32, Go, StartInv
<1> QED BY <1>1, <1>2, <1>3, <1>4 DEF Layouts

LEMMA GeometryStep ==
    ASSUME CardInv, GeometryInv, Layouts
    PROVE  GeometryInv'
<1>1. CASE initSizes
  <2>1. cardCapacityMB \in Int
    BY SMT DEF CardInv, cardCapacityMB, Uint16
  <2>2. sectorsPerCluster' \in ClusterSizes
    BY <1>1, <2>1, SizeChosen DEF initSizes
  <2>3. sectorsPerTrack' \in {32, 63} /\ numberOfHeads' \in {2, 4, 8, 16, 32, 64, 128, 255}
    BY <1>1, <2>1, SMT DEF initSizes, HeadsFor
  <2> QED BY <2>2, <2>3 DEF GeometryInv
<1>2. CASE ~initSizes
  <2>1. UNCHANGED sizeVars /\ Searching
    BY <1>2 DEF Layouts, SearchFat16, SearchFat32, LayoutFat16, LayoutFat32, Go, Searching
  <2> QED BY <2>1 DEF GeometryInv, sizeVars
<1> QED BY <1>1, <1>2

LEMMA LayoutKeptStep ==
    ASSUME LayoutInv, LayoutInv', CardInv, StartInv, LayoutKept, Layouts
    PROVE  LayoutKept'
<1>1. CASE initSizes \/ SearchFat16 \/ SearchFat32
  BY <1>1 DEF initSizes, SearchFat16, SearchFat32, Go, LayoutKept, LaidOut, Made, Mounted
<1>2. CASE LayoutFat16
  <2>1. /\ step = "layout16" /\ step' = "mbr" /\ Fat16Count
        /\ reservedSectors' = 1 /\ fatStart' = relSector + 1
        /\ UNCHANGED <<type, sectorsPerCluster, relSector, fatSize, dataStart, nc>>
    BY <1>2 DEF LayoutFat16, Go, cardVars, sizeVars
  <2>2. type = "SD" /\ fatSize \in Int /\ nc \in Int
    BY <2>1 DEF LayoutInv, SearchFacts, Sizes
  <2>3. /\ 0 < relSector' /\ fatSize' * 256 >= nc' + 2
        /\ fatStart' + 2 * fatSize' + DirBlocks16 = dataStart'
        /\ relSector' + partSize' = dataStart' + nc' * sectorsPerCluster'
        /\ relSector' \in Int
    BY <2>1, <2>2 DEF LayoutInv, LayoutFits, LaidOut, EntriesPerBlock, Sizes
  <2>4. fatSize' > 0
    BY <2>1, <2>2, <2>3 DEF Fat16Count
  <2> QED BY <2>1, <2>2, <2>3, <2>4 DEF LayoutKept, Fat16Count
<1>3. CASE LayoutFat32
  <2>1. /\ step = "layout32" /\ step' = "mbr" /\ Fat32Count
        /\ reservedSectors' = dataStart - relSector - 2 * fatSize
        /\ fatStart' = relSector + reservedSectors'
        /\ UNCHANGED <<type, sectorsPerCluster, relSector, fatSize, dataStart, nc>>
    BY <1>3 DEF LayoutFat32, Go, cardVars, sizeVars
  <2>2. /\ type = "SDHC" /\ fatSize \in Int /\ nc \in Int /\ dataStart \in Int /\ relSector = BU32
        /\ dataStart >= relSector + 9 + 2 * fatSize
        /\ dataStart - BU32 - 2 * fatSize < Uint16
    BY <2>1 DEF LayoutInv, SearchFacts, Sizes, Found32, StartInv
  <2>3. /\ 0 < relSector' /\ fatSize' * 128 >= nc' + 2
        /\ fatStart' + 2 * fatSize' + 0 = dataStart'
        /\ relSector' + partSize' = dataStart' + nc' * sectorsPerCluster'
        /\ relSector' \in Int /\ fatStart' \in Int
    BY <2>1, <2>2 DEF LayoutInv, LayoutFits, LaidOut, EntriesPerBlock, Sizes
  <2>4. fatSize' > 0 /\ reservedSectors' >= 9 /\ reservedSectors' < Uint16
    BY <2>1, <2>2, <2>3 DEF Fat32Count, BU32
  <2>5. fatStart' + 2 * fatSize' = dataStart'
    BY <2>1, <2>2, <2>3
  <2> QED BY <2>1, <2>2, <2>3, <2>4, <2>5 DEF LayoutKept, Fat32Count
<1> QED BY <1>1, <1>2, <1>3 DEF Layouts

\* All that is known of the numbers.
NumbersInv == LayoutInv /\ CardInv /\ StartInv /\ GeometryInv /\ LayoutKept

LEMMA NumbersStep ==
    ASSUME NumbersInv, LayoutInv', ModeInv, WrittenInv, [NextFormat]_formatVars
    PROVE  NumbersInv'
<1>1. CASE Reset
  <2>1. UNCHANGED cardVars /\ step' = "ready"
    BY <1>1 DEF Reset
  <2> QED BY <2>1 DEF NumbersInv, cardVars, CardInv, StartInv, GeometryInv, LayoutKept, Searching, LaidOut,
                      Made, Mounted
<1>2. CASE Layouts
  <2>1. UNCHANGED cardVars
    BY <1>2 DEF Layouts, initSizes, SearchFat16, SearchFat32, LayoutFat16, LayoutFat32
  <2>2. CardInv'
    BY <2>1 DEF NumbersInv, CardInv, cardVars
  <2> QED BY <1>2, <2>2, StartStep, GeometryStep, LayoutKeptStep DEF NumbersInv
<1>3. CASE Keeping
  <2>1. /\ UNCHANGED <<cardVars, sizeVars, layoutVars>>
        /\ ~Searching' /\ ((LaidOut \/ Made)' => LaidOut \/ Made)
    BY <1>3, LayoutStays DEF NumbersInv
  <2>2. CardInv' /\ GeometryInv' /\ StartInv'
    BY <2>1 DEF NumbersInv, CardInv, GeometryInv, StartInv, Searching, cardVars, sizeVars
  <2>3. LayoutKept'
    BY <2>1 DEF NumbersInv, LayoutKept, cardVars, sizeVars, layoutVars, Fat16Count, Fat32Count
  <2> QED BY <2>2, <2>3 DEF NumbersInv
<1>4. CASE UNCHANGED formatVars
  BY <1>4 DEF formatVars, cardVars, sizeVars, layoutVars, NumbersInv, CardInv, StartInv, GeometryInv,
              LayoutKept, Searching, LaidOut, Made, Mounted, ClustersBehind, Fat16Count, Fat32Count
<1> QED BY <1>1, <1>2, <1>3, <1>4, StepIs

-----------------------------------------------------------------------------
(* The writes.                                                                         *)

\* The order in which things are on the card.
LEMMA Placement ==
    ASSUME NumbersInv, LaidOut \/ Made
    PROVE  /\ relSector \in Int /\ fatStart \in Int /\ fatSize \in Int /\ dataStart \in Int
           /\ nc \in Int /\ RootFirst \in Int /\ RootBlocksOf \in Int /\ reservedSectors \in Int
           /\ partSize \in Int
           /\ 0 < relSector /\ relSector < fatStart /\ fatSize >= 1 /\ RootBlocksOf >= 1
           /\ type = "SDHC" => relSector + 8 < fatStart
           /\ RootFirst = fatStart + 2 * fatSize
           /\ fatStart + ClearCount - 1 = RootFirst + RootBlocksOf - 1
<1>1. /\ relSector \in Int /\ fatStart \in Int /\ fatSize \in Int /\ dataStart \in Int
      /\ nc \in Int /\ reservedSectors \in Int /\ partSize \in Int
  BY DEF NumbersInv, LayoutInv, Sizes
<1>2. sectorsPerCluster \in Int /\ sectorsPerCluster >= 1
  BY DEF NumbersInv, GeometryInv, ClusterSizes
<1>3. 0 < relSector /\ fatSize >= 1 /\ fatStart = relSector + reservedSectors
  BY <1>1 DEF NumbersInv, LayoutKept
<1>4. CASE type = "SD"
  <2>1. reservedSectors = 1 /\ fatStart + 2 * fatSize + DirBlocks16 = dataStart
    BY <1>4 DEF NumbersInv, LayoutKept
  <2> QED BY <1>1, <1>2, <1>3, <1>4, <2>1 DEF RootFirst, RootBlocksOf, DirBlocks16, ClearCount
<1>5. CASE type = "SDHC"
  <2>1. reservedSectors >= 9 /\ fatStart + 2 * fatSize = dataStart
    BY <1>5 DEF NumbersInv, LayoutKept
  <2> QED BY <1>1, <1>2, <1>3, <1>5, <2>1 DEF RootFirst, RootBlocksOf, ClearCount
<1> QED BY <1>4, <1>5 DEF NumbersInv, CardInv

\* A write behind the boot sectors leaves them alone.
LEMMA BehindBoot ==
    ASSUME NumbersInv, LaidOut \/ Made, NEW d, Disjoint(d),
           NEW lo \in Int, NEW hi \in Int, lo <= hi, lo >= fatStart, NEW c
    PROVE  /\ Disjoint(Put(d, lo, hi, c))
           /\ At(Put(d, lo, hi, c), 0) = At(d, 0)
           /\ At(Put(d, lo, hi, c), relSector) = At(d, relSector)
           /\ \A b \in Int :
                At(Put(d, lo, hi, c), b) = IF lo <= b /\ b <= hi THEN c ELSE At(d, b)
BY PutIs, Placement

\* The layout is the same before and after a write.
LEMMA SameLayout ==
    ASSUME UNCHANGED <<cardVars, sizeVars, layoutVars>>
    PROVE  /\ Mbr' = Mbr /\ Boot' = Boot /\ VolumeMade' = VolumeMade
           /\ fatStart' = fatStart /\ fatSize' = fatSize /\ relSector' = relSector /\ type' = type
           /\ RootFirst' = RootFirst /\ RootBlocksOf' = RootBlocksOf
           /\ cardSizeBlocks' = cardSizeBlocks
BY DEF cardVars, sizeVars, layoutVars, Mbr, Boot, VolumeMade, RootFirst, RootBlocksOf, Chs, lbnToCylinder,
       lbnToHead, lbnToSector

LEMMA EraseStep ==
    ASSUME CardInv, firstBlock \in Int, ModeInv, WrittenInv, EraseTurn
    PROVE  WrittenInv' /\ firstBlock' \in Int
<1> DEFINE lastBlock == IF firstBlock + ERASE_SIZE - 1 >= cardSizeBlocks
                          THEN cardSizeBlocks - 1 ELSE firstBlock + ERASE_SIZE - 1
<1>1. /\ step = "erase" /\ firstBlock' = firstBlock + ERASE_SIZE
      /\ step' = (IF firstBlock' < cardSizeBlocks THEN "erase" ELSE "erased")
      /\ mode' = mode /\ cardSizeBlocks' = cardSizeBlocks
  BY DEF EraseTurn, cardVars
<1>2. PICK c \in IF firstBlock = 0 THEN {Zeros, Ones} ELSE {Content(0)} :
         disk' = Put(disk, firstBlock, lastBlock, c)
  BY DEF EraseTurn
<1>3. /\ firstBlock >= 0 /\ firstBlock < cardSizeBlocks /\ cardSizeBlocks \in Int
      /\ firstBlock > 0 => Erased
      /\ Disjoint(disk)
  BY <1>1 DEF WrittenInv, CardInv
<1>4. lastBlock \in Int /\ firstBlock <= lastBlock
  BY <1>3 DEF ERASE_SIZE
<1> HIDE DEF lastBlock
<1>5. /\ Disjoint(disk')
      /\ At(disk', 0) = IF firstBlock <= 0 /\ 0 <= lastBlock THEN c ELSE At(disk, 0)
  BY <1>2, <1>3, <1>4, PutIs
<1>6. Erased'
  <2>1. At(disk', 0) \in {Zeros, Ones}
    <3>1. CASE firstBlock = 0
      BY <1>2, <1>4, <1>5, <3>1
    <3>2. CASE firstBlock > 0
      BY <1>3, <1>5, <3>2 DEF Erased
    <3> QED BY <1>3, <3>1, <3>2
  <2> QED BY <2>1 DEF Erased
<1>7. firstBlock' \in Int /\ firstBlock' >= 0
  BY <1>1, <1>3 DEF ERASE_SIZE
<1> QED BY <1>1, <1>5, <1>6, <1>7 DEF WrittenInv, Made, Mounted

LEMMA MbrStep ==
    ASSUME ModeInv, WrittenInv, writeMbr
    PROVE  WrittenInv'
<1>1. /\ step = "mbr" /\ step' = "boot" /\ disk' = Put(disk, 0, 0, Mbr)
      /\ UNCHANGED <<cardVars, sizeVars, layoutVars>>
  BY DEF writeMbr, Writes, Go
<1>2. Disjoint(disk') /\ At(disk', 0) = Mbr
  BY <1>1, PutIs DEF WrittenInv
<1>3. Mbr' = Mbr
  BY <1>1, SameLayout
<1>4. (At(disk, 0))' = At(disk', 0)
  BY DEF At, Old
<1> QED BY <1>1, <1>2, <1>3, <1>4 DEF WrittenInv, Made, Mounted

LEMMA BootStep ==
    ASSUME NumbersInv, ModeInv, WrittenInv, writeBoot16 \/ writeBoot32
    PROVE  WrittenInv'
<1>1. /\ step = "boot" /\ step' = "clear" /\ UNCHANGED <<cardVars, sizeVars, layoutVars>>
  BY DEF writeBoot16, writeBoot32, Writes, Go
<1>2. Mbr' = Mbr /\ Boot' = Boot /\ relSector' = relSector
  BY <1>1, SameLayout
<1>3. relSector \in Int /\ relSector > 0 /\ Disjoint(disk) /\ At(disk, 0) = Mbr
  BY <1>1, Placement DEF WrittenInv, LaidOut
<1> DEFINE d1 == Put(disk, relSector, relSector, Boot)
           d2 == Put(d1, relSector + 6, relSector + 6, Boot)
           d3 == Put(d2, relSector + 1, relSector + 2, Info)
           d4 == Put(d3, relSector + 7, relSector + 8, Info)
<1>4. Disjoint(d1) /\ At(d1, 0) = Mbr /\ At(d1, relSector) = Boot
  BY <1>3, PutIs
<1> HIDE DEF d1
<1>5. Disjoint(d2) /\ At(d2, 0) = Mbr /\ At(d2, relSector) = Boot
  <2>1. relSector + 6 \in Int
    BY <1>3
  <2> QED BY <1>3, <1>4, <2>1, PutIs
<1> HIDE DEF d2
<1>6. Disjoint(d3) /\ At(d3, 0) = Mbr /\ At(d3, relSector) = Boot
  <2>1. relSector + 1 \in Int /\ relSector + 2 \in Int /\ relSector + 1 <= relSector + 2
    BY <1>3
  <2> QED BY <1>3, <1>5, <2>1, PutIs
<1> HIDE DEF d3
<1>7. Disjoint(d4) /\ At(d4, 0) = Mbr /\ At(d4, relSector) = Boot
  <2>1. relSector + 7 \in Int /\ relSector + 8 \in Int /\ relSector + 7 <= relSector + 8
    BY <1>3
  <2> QED BY <1>3, <1>6, <2>1, PutIs
<1> HIDE DEF d4
<1>8. disk' = d1 \/ disk' = d4
  BY DEF writeBoot16, writeBoot32, Writes, d1, d2, d3, d4
<1>9. Disjoint(disk') /\ At(disk', 0) = Mbr' /\ At(disk', relSector') = Boot'
  BY <1>2, <1>4, <1>7, <1>8
<1> QED BY <1>1, <1>9 DEF WrittenInv, Made, Mounted

LEMMA ClearStep ==
    ASSUME NumbersInv, ModeInv, WrittenInv, clearFatDir
    PROVE  WrittenInv'
<1>1. /\ step = "clear" /\ step' = "reserve" /\ UNCHANGED <<cardVars, sizeVars, layoutVars>>
      /\ disk' = Put(disk, fatStart, fatStart + ClearCount - 1, Zeros)
  BY DEF clearFatDir, Writes, Go
<1>2. Mbr' = Mbr /\ Boot' = Boot /\ relSector' = relSector /\ fatStart' = fatStart
      /\ RootFirst' = RootFirst /\ RootBlocksOf' = RootBlocksOf
  BY <1>1, SameLayout
<1>3. Disjoint(disk) /\ At(disk, 0) = Mbr /\ At(disk, relSector) = Boot /\ LaidOut
  BY <1>1 DEF WrittenInv, LaidOut
<1> DEFINE last == RootFirst + RootBlocksOf - 1
<1>4. fatStart \in Int /\ last \in Int /\ fatStart <= last /\ disk' = Put(disk, fatStart, last, Zeros)
  BY <1>1, <1>3, Placement
<1> HIDE DEF last
<1>5. /\ Disjoint(disk') /\ At(disk', 0) = Mbr /\ At(disk', relSector) = Boot
      /\ \A b \in Int : fatStart <= b /\ b <= last => At(disk', b) = Zeros
  BY <1>3, <1>4, BehindBoot
<1>6. \A b \in fatStart .. last : At(disk', b) = Zeros
  BY <1>4, <1>5
<1>7. Zeroed(fatStart, RootFirst + RootBlocksOf - 1)'
  BY <1>2, <1>6 DEF Zeroed, last
<1> QED BY <1>1, <1>2, <1>5, <1>7 DEF WrittenInv, Made, Mounted

\* The entries that are never free, put into two FATs that are zero.
LEMMA ReservesMakeEmpty ==
    ASSUME NumbersInv, LaidOut \/ Made, Disjoint(disk), RootZeroed, Zeroed(fatStart, RootFirst - 1),
           UNCHANGED <<cardVars, sizeVars, layoutVars>>,
           disk' = Put(Put(disk, fatStart, fatStart, Reserved),
                       fatStart + fatSize, fatStart + fatSize, Reserved)
    PROVE  Empty'
<1> DEFINE d1 == Put(disk, fatStart, fatStart, Reserved)
           f2 == fatStart + fatSize
<1>1. /\ fatStart \in Int /\ fatSize \in Int /\ fatSize >= 1 /\ RootFirst = fatStart + 2 * fatSize
      /\ f2 \in Int /\ RootBlocksOf \in Int
  BY Placement
<1>2. Disjoint(d1) /\ \A b \in Int : At(d1, b) = IF b = fatStart THEN Reserved ELSE At(disk, b)
  BY <1>1, PutIs
<1> HIDE DEF d1
<1>3. disk' = Put(d1, f2, f2, Reserved)
  BY DEF d1
<1>4. \A b \in Int : At(disk', b) = IF b = f2 THEN Reserved ELSE At(d1, b)
  BY <1>1, <1>2, <1>3, PutIs
<1>5. \A b \in Int : At(disk', b) = IF b = fatStart \/ b = f2 THEN Reserved ELSE At(disk, b)
  BY <1>2, <1>4
<1>6. /\ fatStart' = fatStart /\ fatSize' = fatSize /\ RootFirst' = RootFirst
      /\ RootBlocksOf' = RootBlocksOf
  BY SameLayout
<1>7. At(disk', fatStart) = Reserved /\ At(disk', f2) = Reserved
  BY <1>1, <1>5
<1>8. \A b \in fatStart + 1 .. fatStart + fatSize - 1 : At(disk', b) = Zeros
  BY <1>1, <1>5 DEF Zeroed
<1>9. \A b \in f2 + 1 .. f2 + fatSize - 1 : At(disk', b) = Zeros
  BY <1>1, <1>5 DEF Zeroed
<1>10. \A b \in RootFirst .. RootFirst + RootBlocksOf - 1 : At(disk', b) = Zeros
  BY <1>1, <1>5 DEF RootZeroed, Zeroed
<1>11. RootZeroed'
  BY <1>6, <1>10 DEF RootZeroed, Zeroed
<1>12. /\ Zeroed(fatStart + 1, fatStart + fatSize - 1)'
       /\ Zeroed(fatStart + fatSize + 1, fatStart + fatSize + fatSize - 1)'
  BY <1>6, <1>8, <1>9 DEF Zeroed
<1> QED BY <1>6, <1>7, <1>11, <1>12 DEF Empty

LEMMA ReserveStep ==
    ASSUME NumbersInv, ModeInv, WrittenInv, writeReserved
    PROVE  WrittenInv'
<1>1. /\ step = "reserve" /\ step' = "done" /\ mode' = mode
      /\ UNCHANGED <<cardVars, sizeVars, layoutVars>>
      /\ disk' = Put(Put(disk, fatStart, fatStart, Reserved),
                     fatStart + fatSize, fatStart + fatSize, Reserved)
  BY DEF writeReserved, Writes, Go
<1>2. Mbr' = Mbr /\ Boot' = Boot /\ relSector' = relSector
  BY <1>1, SameLayout
<1>3. /\ Disjoint(disk) /\ At(disk, 0) = Mbr /\ At(disk, relSector) = Boot /\ LaidOut
      /\ Zeroed(fatStart, RootFirst + RootBlocksOf - 1) /\ mode \in {"F", "Q"}
  BY <1>1 DEF WrittenInv, LaidOut, ModeInv
<1> DEFINE d1 == Put(disk, fatStart, fatStart, Reserved)
<1>4. /\ fatStart \in Int /\ fatStart + fatSize \in Int /\ fatStart + fatSize >= fatStart
      /\ RootFirst \in Int /\ fatStart <= RootFirst /\ RootBlocksOf \in Int /\ RootBlocksOf >= 1
  BY <1>3, Placement
<1>5. Disjoint(d1) /\ At(d1, 0) = Mbr /\ At(d1, relSector) = Boot
  BY <1>3, <1>4, BehindBoot
<1> HIDE DEF d1
<1>6. disk' = Put(d1, fatStart + fatSize, fatStart + fatSize, Reserved)
  BY <1>1 DEF d1
<1>7. Disjoint(disk') /\ At(disk', 0) = Mbr /\ At(disk', relSector) = Boot
  BY <1>3, <1>4, <1>5, <1>6, BehindBoot
<1>8. RootZeroed /\ Zeroed(fatStart, RootFirst - 1)
  BY <1>3, <1>4 DEF RootZeroed, Zeroed
<1>9. Empty'
  BY <1>1, <1>3, <1>8, ReservesMakeEmpty
<1> QED BY <1>1, <1>2, <1>3, <1>7, <1>9 DEF WrittenInv, Made, Mounted

-----------------------------------------------------------------------------
(* The volume that is read is the one that was made.                                   *)

\* Clusters that were multiplied are divided again.
LEMMA ClustersAgain ==
    ASSUME NEW spc \in ClusterSizes, NEW n \in Int
    PROVE  (n * spc) \div spc = n /\ n * spc \in Int
<1>1. CASE spc = 2 BY <1>1, SMT
<1>2. CASE spc = 4 BY <1>2, SMT
<1>3. CASE spc = 8 BY <1>3, SMT
<1>4. CASE spc = 16 BY <1>4, SMT
<1>5. CASE spc = 32 BY <1>5, SMT
<1>6. CASE spc = 64 BY <1>6, SMT
<1>7. CASE spc = 128 BY <1>7, SMT
<1> QED BY <1>1, <1>2, <1>3, <1>4, <1>5, <1>6, <1>7 DEF ClusterSizes

LEMMA ReadIs ==
    ASSUME NumbersInv, Made, At(disk, 0) = Mbr, At(disk, relSector) = Boot
    PROVE  HasBoot /\ Read = VolumeMade
<1>1. Content(0) = Mbr /\ Content(relSector) = Boot
  BY DEF Content, At
<1>2. Mbr.kind = "mbr" /\ Mbr.firstSector = relSector
  BY DEF Mbr
<1>3. Boot.kind = "boot"
  BY DEF Boot
<1>4. HasBoot
  BY <1>1, <1>2, <1>3 DEF HasBoot
<1>5. Read = VolumeAt(relSector, Boot)
  BY <1>1, <1>2 DEF Read
<1>6. /\ relSector \in Int /\ fatStart \in Int /\ fatSize \in Int /\ dataStart \in Int
      /\ nc \in Int /\ reservedSectors \in Int /\ partSize \in Int /\ fatSize >= 1
  BY Placement
<1>7. /\ fatStart = relSector + reservedSectors
      /\ relSector + partSize = dataStart + nc * sectorsPerCluster
      /\ sectorsPerCluster \in ClusterSizes
  BY DEF NumbersInv, LayoutKept, GeometryInv
<1>8. (nc * sectorsPerCluster) \div sectorsPerCluster = nc /\ nc * sectorsPerCluster \in Int
  BY <1>6, <1>7, ClustersAgain
<1>9. partSize - (dataStart - relSector) = nc * sectorsPerCluster
  BY <1>6, <1>7, <1>8
<1>10. CASE type = "SDHC"
  <2>1. Fat32Count /\ fatStart + 2 * fatSize = dataStart
    BY <1>10 DEF NumbersInv, LayoutKept
  <2>2. /\ Boot.sectorsPerFat16 = 0 /\ Boot.sectorsPerFat32 = fatSize /\ Boot.rootDirEntryCount = 0
        /\ Boot.fat32RootCluster = 2 /\ Boot.reservedSectorCount = reservedSectors
        /\ Boot.sectorsPerCluster = sectorsPerCluster /\ Boot.totalSectors32 = partSize
    BY <1>10 DEF Boot
  <2>3. (32 * 0 + 511) \div 512 = 0 /\ dataStart + 0 = dataStart
    BY <1>6
  <2>4. ~(nc < 4085) /\ ~(nc < 65525)
    BY <1>6, <2>1 DEF Fat32Count
  <2> QED BY <1>5, <1>7, <1>8, <1>9, <1>10, <2>1, <2>2, <2>3, <2>4, <1>4 DEF VolumeAt, VolumeMade
<1>11. CASE type = "SD"
  <2>1. Fat16Count /\ fatStart + 2 * fatSize + DirBlocks16 = dataStart
    BY <1>11 DEF NumbersInv, LayoutKept
  <2>2. /\ Boot.sectorsPerFat16 = fatSize /\ Boot.sectorsPerFat16 # 0 /\ Boot.rootDirEntryCount = 512
        /\ Boot.reservedSectorCount = reservedSectors
        /\ Boot.sectorsPerCluster = sectorsPerCluster /\ Boot.totalSectors32 = partSize
    BY <1>6, <1>11 DEF Boot
  <2>3. (32 * 512 + 511) \div 512 = DirBlocks16
    BY DEF DirBlocks16
  <2>4. ~(nc < 4085) /\ nc < 65525
    BY <1>6, <2>1 DEF Fat16Count
  <2> QED BY <1>5, <1>7, <1>8, <1>9, <1>11, <2>1, <2>2, <2>3, <2>4, <1>4 DEF VolumeAt, VolumeMade
<1> QED BY <1>10, <1>11 DEF NumbersInv, CardInv

\* Where wipe() looks for the root directory.
LEMMA RootIs ==
    ASSUME NumbersInv, Made, vol = VolumeMade
    PROVE  /\ vol.fatStartBlock = fatStart /\ vol.blocksPerFat = fatSize
           /\ RootStart = RootFirst /\ RootBlocks = RootBlocksOf
<1>1. /\ vol.fatType = (IF type = "SDHC" THEN 32 ELSE 16)
      /\ vol.blocksPerCluster = sectorsPerCluster /\ vol.blocksPerFat = fatSize
      /\ vol.fatStartBlock = fatStart
      /\ vol.rootDirStart = (IF type = "SDHC" THEN 2 ELSE fatStart + 2 * fatSize)
      /\ vol.rootDirEntryCount = (IF type = "SDHC" THEN 0 ELSE 512)
      /\ vol.dataStartBlock = dataStart
  BY DEF VolumeMade
<1>2. dataStart \in Int /\ sectorsPerCluster \in Int
  BY Placement DEF NumbersInv, GeometryInv, ClusterSizes
<1>3. CASE type = "SDHC"
  <2>1. fatStart + 2 * fatSize = dataStart
    BY <1>3 DEF NumbersInv, LayoutKept
  <2>2. dataStart + (2 - 2) * sectorsPerCluster = dataStart
    BY <1>2
  <2> QED BY <1>1, <1>3, <2>1, <2>2 DEF RootStart, RootBlocks, RootFirst, RootBlocksOf, clusterStartBlock
<1>4. CASE type # "SDHC"
  BY <1>1, <1>4 DEF RootStart, RootBlocks, RootFirst, RootBlocksOf, DirBlocks16
<1> QED BY <1>3, <1>4

\* The steps that write nothing.
LEMMA QuietStep ==
    ASSUME NumbersInv, ModeInv, WrittenInv, firstBlock \in Int,
           \/ Reset \/ Layouts \/ AnswerYes \/ BeginCard \/ EraseDone \/ Halts \/ InitVolume \/ WipeFails
    PROVE  WrittenInv' /\ firstBlock' \in Int
<1> USE DEF WrittenInv, Made, Mounted, Erased
<1>1. CASE Reset
  BY <1>1 DEF Reset
<1>2. CASE Layouts
  BY <1>2 DEF Layouts, initSizes, SearchFat16, SearchFat32, LayoutFat16, LayoutFat32, Go
<1>3. CASE AnswerYes \/ Halts
  BY <1>3 DEF AnswerYes, Halts
<1>4. CASE BeginCard
  BY <1>4 DEF BeginCard, Go, cardVars, NumbersInv, CardInv
<1>5. CASE EraseDone
  BY <1>5 DEF EraseDone, Go, ModeInv
<1>6. CASE InitVolume \/ WipeFails
  <2>1. Made
    BY <1>6, MountsMade DEF WipeFails
  <2>2. /\ UNCHANGED <<cardVars, sizeVars, layoutVars, disk, firstBlock>>
        /\ step' \in {"mounted", "wipeFailed"}
    BY <1>6 DEF InitVolume, WipeFails
  <2>3. Mbr' = Mbr /\ Boot' = Boot /\ relSector' = relSector
    BY <2>2, SameLayout
  <2> QED BY <2>1, <2>2, <2>3
<1> QED BY <1>1, <1>2, <1>3, <1>4, <1>5, <1>6

\* What use and wipe() write is behind the boot sectors.
LEMMA WipingStep ==
    ASSUME NumbersInv, ModeInv, WrittenInv, WipedInv, Wiping
    PROVE  WrittenInv'
<1>1. /\ Mounted /\ UNCHANGED <<cardVars, sizeVars, layoutVars>>
      /\ step' \in {"mounted", "wipeFats", "wipeReserve", "wipeRootCluster", "wiped"}
  BY DEF Wiping, UseVolume, WipeRoot, WipeFats, WipeReserve, WipeRootCluster, WipeStep, Go, Mounted
<1>2. Mbr' = Mbr /\ Boot' = Boot /\ relSector' = relSector
  BY <1>1, SameLayout
<1>3. Made
  BY <1>1 DEF Made
<1>4. Disjoint(disk) /\ At(disk, 0) = Mbr /\ At(disk, relSector) = Boot /\ vol = VolumeMade
  BY <1>1, <1>3 DEF WrittenInv, WipedInv
<1> DEFINE Good(d) == Disjoint(d) /\ At(d, 0) = Mbr /\ At(d, relSector) = Boot
<1>5. ASSUME NEW d, Good(d), NEW lo \in Int, NEW hi \in Int, lo <= hi, lo >= fatStart, NEW c
      PROVE  Good(Put(d, lo, hi, c))
  BY <1>3, <1>5, BehindBoot
<1>6. /\ fatStart \in Int /\ fatSize \in Int /\ fatSize >= 1 /\ RootFirst = fatStart + 2 * fatSize
      /\ RootBlocksOf \in Int /\ RootBlocksOf >= 1 /\ RootFirst \in Int /\ dataStart \in Int
  BY <1>3, Placement
<1>7. /\ vol.fatStartBlock = fatStart /\ vol.blocksPerFat = fatSize
      /\ RootStart = RootFirst /\ RootBlocks = RootBlocksOf
  BY <1>3, <1>4, RootIs
<1> HIDE DEF Good
<1>8. Good(disk)
  BY <1>4 DEF Good
<1>9. Good(disk')
  <2>1. CASE UseVolume
    <3>1. PICK b \in {fatStart, fatStart + fatSize - 1} :
             disk' = Put(Put(Put(disk, b, b, InUse), b + fatSize, b + fatSize, InUse),
                         RootFirst, RootFirst, InUse)
      BY <1>7, <2>1 DEF UseVolume
    <3>2. /\ b \in Int /\ b >= fatStart /\ b + fatSize \in Int /\ b + fatSize >= fatStart
          /\ RootFirst >= fatStart
      BY <1>6
    <3> DEFINE d1 == Put(disk, b, b, InUse)
               d2 == Put(d1, b + fatSize, b + fatSize, InUse)
    <3>3. Good(d1)
      BY <1>5, <1>8, <3>2
    <3> HIDE DEF d1
    <3>4. Good(d2)
      BY <1>5, <3>2, <3>3
    <3> HIDE DEF d2
    <3>5. disk' = Put(d2, RootFirst, RootFirst, InUse)
      BY <3>1 DEF d1, d2
    <3> QED BY <1>5, <1>6, <3>2, <3>4, <3>5
  <2>2. CASE WipeRoot
    <3>1. disk' = Put(disk, RootFirst, RootFirst + RootBlocksOf - 1, Zeros)
      BY <1>7, <2>2 DEF WipeRoot, WipeStep
    <3>2. /\ RootFirst + RootBlocksOf - 1 \in Int /\ RootFirst >= fatStart
          /\ RootFirst <= RootFirst + RootBlocksOf - 1
      BY <1>6
    <3> QED BY <1>5, <1>6, <1>8, <3>1, <3>2
  <2>3. CASE WipeFats
    <3>1. \/ disk' = disk
          \/ FatsCount # 0 /\ disk' = Put(disk, fatStart, fatStart + FatsCount - 1, Zeros)
      BY <1>7, <2>3 DEF WipeFats, WipeStep
    <3>2. FatsCount \in Int /\ FatsCount >= 0
      BY <1>6, <1>7 DEF FatsCount, Uint16
    <3>3. FatsCount # 0 => fatStart + FatsCount - 1 \in Int /\ fatStart <= fatStart + FatsCount - 1
      BY <1>6, <3>2
    <3> QED BY <1>5, <1>6, <1>8, <3>1, <3>3
  <2>4. CASE WipeReserve \/ WipeRootCluster
    <3>1. disk' = disk \/ \E c :
             disk' = Put(Put(disk, fatStart, fatStart, c), fatStart + fatSize, fatStart + fatSize, c)
      BY <1>7, <2>4 DEF WipeReserve, WipeRootCluster, WipeStep
    <3>2. CASE disk' # disk
      <4>1. PICK c :
               disk' = Put(Put(disk, fatStart, fatStart, c), fatStart + fatSize, fatStart + fatSize, c)
        BY <3>1, <3>2
      <4> DEFINE d1 == Put(disk, fatStart, fatStart, c)
      <4>2. Good(d1)
        BY <1>5, <1>6, <1>8
      <4> HIDE DEF d1
      <4>3. disk' = Put(d1, fatStart + fatSize, fatStart + fatSize, c)
        BY <4>1 DEF d1
      <4>4. fatStart + fatSize \in Int /\ fatStart + fatSize >= fatStart
        BY <1>6
      <4> QED BY <1>5, <4>2, <4>3, <4>4
    <3> QED BY <1>8, <3>2
  <2> QED BY <2>1, <2>2, <2>3, <2>4 DEF Wiping
<1> QED BY <1>1, <1>2, <1>9 DEF WrittenInv, Made, Mounted, Good

LEMMA WrittenStep ==
    ASSUME NumbersInv, ModeInv, WrittenInv, WipedInv, firstBlock \in Int, [NextFormat]_formatVars
    PROVE  WrittenInv' /\ firstBlock' \in Int
<1>1. CASE EraseTurn
  BY <1>1, EraseStep DEF NumbersInv
<1>2. CASE Writing
  <2>1. UNCHANGED firstBlock
    BY <1>2 DEF Writing, writeMbr, writeBoot16, writeBoot32, clearFatDir, writeReserved, Writes
  <2> QED BY <1>2, <2>1, MbrStep, BootStep, ClearStep, ReserveStep DEF Writing
<1>3. CASE Wiping
  <2>1. UNCHANGED firstBlock
    BY <1>3 DEF Wiping, UseVolume, WipeRoot, WipeFats, WipeReserve, WipeRootCluster, WipeStep
  <2> QED BY <1>3, <2>1, WipingStep
<1>4. CASE UNCHANGED formatVars
  <2>1. /\ UNCHANGED <<cardVars, sizeVars, layoutVars>>
        /\ UNCHANGED <<step, mode, disk, firstBlock, cardSizeBlocks>>
    BY <1>4 DEF formatVars, cardVars
  <2>2. Mbr' = Mbr /\ Boot' = Boot /\ relSector' = relSector /\ fatStart' = fatStart /\ fatSize' = fatSize
        /\ RootFirst' = RootFirst /\ RootBlocksOf' = RootBlocksOf
    BY <2>1, SameLayout
  <2> QED BY <2>1, <2>2 DEF WrittenInv, Made, Mounted, Erased, Zeroed, Empty, RootZeroed
<1> QED BY <1>1, <1>2, <1>3, <1>4, StepIs, QuietStep DEF Keeping

-----------------------------------------------------------------------------
(* How far wipe() has come.                                                            *)

\* The root directory is behind the FATs.
LEMMA WipeRootStep ==
    ASSUME NumbersInv, WrittenInv, WipedInv, WipeRoot
    PROVE  WipedInv'
<1>1. /\ step = "mounted" /\ step' = "wipeFats" /\ UNCHANGED <<cardVars, sizeVars, layoutVars, vol>>
  BY DEF WipeRoot, WipeStep, Go
<1>2. Made /\ vol = VolumeMade /\ Disjoint(disk)
  BY <1>1 DEF Made, Mounted, WipedInv, WrittenInv
<1>3. RootStart = RootFirst /\ RootBlocks = RootBlocksOf
  BY <1>2, RootIs
<1>4. disk' = Put(disk, RootFirst, RootFirst + RootBlocksOf - 1, Zeros)
  BY <1>3 DEF WipeRoot, WipeStep
<1>5. /\ RootFirst \in Int /\ RootFirst + RootBlocksOf - 1 \in Int
      /\ RootFirst <= RootFirst + RootBlocksOf - 1
  BY <1>2, Placement
<1>6. \A b \in RootFirst .. RootFirst + RootBlocksOf - 1 : At(disk', b) = Zeros
  BY <1>2, <1>4, <1>5, PutIs
<1>7. VolumeMade' = VolumeMade /\ RootFirst' = RootFirst /\ RootBlocksOf' = RootBlocksOf
  BY <1>1, SameLayout
<1>8. RootZeroed'
  BY <1>6, <1>7 DEF RootZeroed, Zeroed
<1> QED BY <1>1, <1>2, <1>7, <1>8 DEF WipedInv, Mounted

\* Blocks that can be counted in 16 bits are all written.
LEMMA WipeFatsStep ==
    ASSUME NumbersInv, WrittenInv, WipedInv, WipeFats
    PROVE  WipedInv'
<1>1. step = "wipeFats" /\ step' = "wipeReserve" /\ UNCHANGED <<cardVars, sizeVars, layoutVars, vol>>
  BY DEF WipeFats, WipeStep, Go
<1>2. Made /\ vol = VolumeMade /\ Disjoint(disk) /\ RootZeroed
  BY <1>1 DEF Made, Mounted, WipedInv, WrittenInv
<1>3. vol.fatStartBlock = fatStart /\ vol.blocksPerFat = fatSize
  BY <1>2, RootIs
<1>4. /\ fatStart \in Int /\ fatSize \in Int /\ fatSize >= 1 /\ RootFirst = fatStart + 2 * fatSize
      /\ RootBlocksOf \in Int
  BY <1>2, Placement
<1>5. FatsCount = (2 * fatSize) % 65536
  BY <1>3 DEF FatsCount, Uint16
<1>6. /\ FatsCount \in Int /\ FatsCount >= 0 /\ FatsCount <= 2 * fatSize
      /\ 2 * fatSize < Uint16 => FatsCount = 2 * fatSize
  BY <1>4, <1>5, SMT DEF Uint16
<1>7. disk' = IF FatsCount = 0 THEN disk ELSE Put(disk, fatStart, fatStart + FatsCount - 1, Zeros)
  BY <1>3 DEF WipeFats, WipeStep
<1>8. /\ VolumeMade' = VolumeMade /\ RootFirst' = RootFirst /\ RootBlocksOf' = RootBlocksOf
      /\ fatStart' = fatStart /\ fatSize' = fatSize
  BY <1>1, SameLayout
<1>9. /\ \A b \in RootFirst .. RootFirst + RootBlocksOf - 1 : At(disk', b) = Zeros
      /\ 2 * fatSize < Uint16 => \A b \in fatStart .. RootFirst - 1 : At(disk', b) = Zeros
  <2>1. CASE FatsCount = 0
    BY <1>2, <1>4, <1>6, <1>7, <2>1 DEF RootZeroed, Zeroed
  <2>2. CASE FatsCount # 0
    <3>1. fatStart + FatsCount - 1 \in Int /\ fatStart <= fatStart + FatsCount - 1
      BY <1>4, <1>6, <2>2
    <3>2. \A b \in Int : At(disk', b) = IF fatStart <= b /\ b <= fatStart + FatsCount - 1
                                          THEN Zeros ELSE At(disk, b)
      BY <1>2, <1>4, <1>7, <2>2, <3>1, PutIs
    <3> QED BY <1>2, <1>4, <1>6, <3>2 DEF RootZeroed, Zeroed
  <2> QED BY <2>1, <2>2
<1>10. RootZeroed' /\ (2 * fatSize' < Uint16 => Zeroed(fatStart, RootFirst - 1)')
  BY <1>8, <1>9 DEF RootZeroed, Zeroed
<1> QED BY <1>1, <1>2, <1>8, <1>10 DEF WipedInv, Mounted

LEMMA WipeReserveStep ==
    ASSUME NumbersInv, WrittenInv, WipedInv, WipeReserve
    PROVE  WipedInv'
<1>1. /\ step = "wipeReserve" /\ step' = "wipeRootCluster"
      /\ UNCHANGED <<cardVars, sizeVars, layoutVars, vol>>
  BY DEF WipeReserve, WipeStep, Go
<1>2. Made /\ vol = VolumeMade /\ Disjoint(disk) /\ RootZeroed
  BY <1>1 DEF Made, Mounted, WipedInv, WrittenInv
<1>3. disk' = Put(Put(disk, fatStart, fatStart, Reserved),
                  fatStart + fatSize, fatStart + fatSize, Reserved)
  BY <1>2, RootIs DEF WipeReserve, WipeStep
<1>4. 2 * fatSize < Uint16 => Empty'
  BY <1>1, <1>2, <1>3, ReservesMakeEmpty DEF WipedInv
<1>5. VolumeMade' = VolumeMade /\ fatSize' = fatSize
  BY <1>1, SameLayout
<1> QED BY <1>1, <1>2, <1>4, <1>5 DEF WipedInv, Mounted

\* The entry of the root directory's cluster is written once more, by way of the cache.
LEMMA WipeRootClusterStep ==
    ASSUME NumbersInv, WrittenInv, WipedInv, WipeRootCluster
    PROVE  WipedInv'
<1>1. /\ step = "wipeRootCluster" /\ step' = "wiped"
      /\ UNCHANGED <<cardVars, sizeVars, layoutVars, fatCache>>
  BY DEF WipeRootCluster, Go
<1>2. /\ Made /\ vol = VolumeMade /\ Disjoint(disk) /\ (2 * fatSize < Uint16 => Empty)
  BY <1>1 DEF Made, Mounted, WipedInv, WrittenInv
<1>3. vol.fatStartBlock = fatStart /\ vol.blocksPerFat = fatSize
  BY <1>2, RootIs
<1>4. fatStart' = fatStart /\ fatSize' = fatSize /\ type' = type /\ RootFirst' = RootFirst
      /\ RootBlocksOf' = RootBlocksOf
  BY <1>1, SameLayout
<1>5. ASSUME 2 * fatSize < Uint16, ~(type = "SDHC" /\ fatCache = fatStart)
      PROVE  Empty'
  <2>1. CASE type # "SDHC"
    <3>1. vol.fatType = 16
      BY <1>2, <2>1 DEF VolumeMade
    <3>2. disk' = disk
      BY <3>1 DEF WipeRootCluster
    <3> QED BY <1>2, <1>4, <1>5, <3>2 DEF Empty, RootZeroed, Zeroed
  <2>2. CASE type = "SDHC"
    <3>1. vol.fatType = 32 /\ RootEntryBlock = Reserved
      BY <1>2, <1>3, <1>5, <2>2 DEF VolumeMade, RootEntryBlock
    <3>2. disk' = Put(Put(disk, fatStart, fatStart, Reserved),
                      fatStart + fatSize, fatStart + fatSize, Reserved)
      BY <1>3, <3>1 DEF WipeRootCluster
    <3> DEFINE d1 == Put(disk, fatStart, fatStart, Reserved)
               f2 == fatStart + fatSize
    <3>3. /\ fatStart \in Int /\ fatSize \in Int /\ fatSize >= 1 /\ RootFirst = fatStart + 2 * fatSize
          /\ f2 \in Int /\ RootBlocksOf \in Int
      BY <1>2, Placement
    <3>4. Disjoint(d1) /\ \A b \in Int : At(d1, b) = IF b = fatStart THEN Reserved ELSE At(disk, b)
      BY <1>2, <3>3, PutIs
    <3> HIDE DEF d1
    <3>5. disk' = Put(d1, f2, f2, Reserved)
      BY <3>2 DEF d1
    <3>6. \A b \in Int : At(disk', b) = IF b = f2 THEN Reserved ELSE At(d1, b)
      BY <3>3, <3>4, <3>5, PutIs
    <3>7. At(disk, fatStart) = Reserved /\ At(disk, f2) = Reserved
      BY <1>2, <1>5 DEF Empty
    <3>8. \A b \in Int : At(disk', b) = At(disk, b)
      BY <3>3, <3>4, <3>6, <3>7
    <3>9. \A start \in {fatStart, f2} : start \in Int /\ start + 1 \in Int /\ start + fatSize - 1 \in Int
      BY <3>3
    <3>10. RootZeroed'
      BY <1>2, <1>4, <1>5, <3>3, <3>8 DEF Empty, RootZeroed, Zeroed
    <3>11. \A start \in {fatStart, f2} :
             At(disk', start) = Reserved /\ \A b \in start + 1 .. start + fatSize - 1 : At(disk', b) = Zeros
      BY <1>2, <1>5, <3>8, <3>9 DEF Empty, Zeroed
    <3> HIDE DEF f2
    <3> QED BY <1>4, <3>10, <3>11 DEF Empty, Zeroed, f2
  <2> QED BY <2>1, <2>2
<1> QED BY <1>1, <1>4, <1>5, <1>2, Placement DEF WipedInv, Mounted, Uint16

LEMMA WipedStep ==
    ASSUME NumbersInv, ModeInv, WrittenInv, WipedInv, [NextFormat]_formatVars
    PROVE  WipedInv'
<1>1. CASE \/ Reset \/ Layouts \/ AnswerYes \/ BeginCard \/ EraseTurn \/ EraseDone \/ Writing
           \/ Halts \/ WipeFails
  <2>1. step' \notin {"mounted", "wipeFats", "wipeReserve", "wipeRootCluster", "wiped"}
    BY <1>1 DEF Reset, Layouts, initSizes, SearchFat16, SearchFat32, LayoutFat16, LayoutFat32, AnswerYes,
                BeginCard, EraseTurn, EraseDone, Writing, writeMbr, writeBoot16, writeBoot32, clearFatDir,
                writeReserved, Writes, Halts, WipeFails, Go
  <2> QED BY <2>1 DEF WipedInv, Mounted
<1>2. CASE InitVolume
  <2>1. Made
    BY <1>2, MountsMade
  <2>2. Read = VolumeMade
    BY <2>1, ReadIs DEF WrittenInv
  <2>3. step' = "mounted" /\ vol' = Read /\ UNCHANGED <<cardVars, sizeVars, layoutVars>>
    BY <1>2 DEF InitVolume
  <2>4. VolumeMade' = VolumeMade
    BY <2>3, SameLayout
  <2> QED BY <2>2, <2>3, <2>4 DEF WipedInv, Mounted
<1>3. CASE UseVolume
  <2>1. step = "mounted" /\ step' = "mounted" /\ UNCHANGED <<cardVars, sizeVars, layoutVars, vol>>
    BY <1>3 DEF UseVolume
  <2>2. VolumeMade' = VolumeMade
    BY <2>1, SameLayout
  <2> QED BY <2>1, <2>2 DEF WipedInv, Mounted
<1>4. CASE WipeRoot \/ WipeFats \/ WipeReserve \/ WipeRootCluster
  BY <1>4, WipeRootStep, WipeFatsStep, WipeReserveStep, WipeRootClusterStep
<1>5. CASE UNCHANGED formatVars
  <2>1. /\ UNCHANGED <<cardVars, sizeVars, layoutVars>>
        /\ UNCHANGED <<step, disk, vol, fatCache>>
    BY <1>5 DEF formatVars, volVars
  <2>2. /\ VolumeMade' = VolumeMade /\ fatStart' = fatStart /\ fatSize' = fatSize /\ type' = type
        /\ RootFirst' = RootFirst /\ RootBlocksOf' = RootBlocksOf
    BY <2>1, SameLayout
  <2> QED BY <2>1, <2>2 DEF WipedInv, Mounted, Zeroed, Empty, RootZeroed
<1> QED BY <1>1, <1>2, <1>3, <1>4, <1>5, StepIs DEF Keeping, Wiping

-----------------------------------------------------------------------------
(* What the property says.                                                             *)

\* An address by cylinder, head and sector is the address it was made from.
ThereAndBack(lbn, heads, tracks) ==
    ((lbn \div (heads * tracks)) * heads + (lbn % (heads * tracks)) \div tracks) * tracks
      + ((lbn % tracks) + 1) - 1
LEMMA ChsIsExact ==
    ASSUME NEW heads \in {2, 4, 8, 16, 32, 64, 128, 255}, NEW tracks \in {32, 63},
           NEW lbn \in Int, lbn >= 0
    PROVE  ThereAndBack(lbn, heads, tracks) = lbn
BY DEF ThereAndBack

LEMMA ZeroedHolds ==
    ASSUME Disjoint(disk), NEW lo \in Int, NEW hi \in Int, Zeroed(lo, hi)
    PROVE  Holds(lo, hi, Zeros)
<1>1. \A b \in Places(lo, hi) : b \in Int /\ lo <= b /\ b <= hi
  BY DEF Places, Disjoint
<1>2. \A b \in Places(lo, hi) : b \in lo .. hi
  BY <1>1
<1>3. \A b : Content(b) = At(disk, b)
  BY DEF Content, At
<1> QED BY <1>2, <1>3 DEF Holds, Zeroed

LEMMA EmptyIs ==
    ASSUME NumbersInv, Made, WrittenInv, Empty
    PROVE  IsEmptyVolume(Read)
<1>1. Read = VolumeMade
  BY ReadIs DEF WrittenInv
<1>2. /\ fatStart \in Int /\ fatSize \in Int /\ RootFirst \in Int /\ RootBlocksOf \in Int
      /\ dataStart \in Int /\ Disjoint(disk)
  BY Placement DEF WrittenInv
<1>3. /\ Read.fatType = (IF type = "SDHC" THEN 32 ELSE 16)
      /\ Read.blocksPerCluster = sectorsPerCluster /\ Read.blocksPerFat = fatSize
      /\ Read.fatStartBlock = fatStart
      /\ Read.rootDirStart = (IF type = "SDHC" THEN 2 ELSE fatStart + 2 * fatSize)
      /\ Read.rootDirEntryCount = (IF type = "SDHC" THEN 0 ELSE 512)
      /\ Read.dataStartBlock = dataStart
  BY <1>1 DEF VolumeMade
<1>4. \A b : Content(b) = At(disk, b)
  BY DEF Content, At
<1>5. ASSUME NEW start \in {fatStart, fatStart + fatSize}
      PROVE  Content(start) = Reserved /\ Holds(start + 1, start + fatSize - 1, Zeros)
  <2>1. start + 1 \in Int /\ start + fatSize - 1 \in Int
    BY <1>2
  <2>2. At(disk, start) = Reserved /\ Zeroed(start + 1, start + fatSize - 1)
    BY DEF Empty
  <2> QED BY <1>2, <1>4, <2>1, <2>2, ZeroedHolds
<1>6. RootOf(Read) = RootFirst
  <2>1. CASE type = "SDHC"
    <3>1. fatStart + 2 * fatSize = dataStart
      BY <2>1 DEF NumbersInv, LayoutKept
    <3>2. sectorsPerCluster \in Int
      BY DEF NumbersInv, GeometryInv, ClusterSizes
    <3>3. dataStart + (2 - 2) * sectorsPerCluster = dataStart
      BY <1>2, <3>2
    <3> QED BY <1>3, <2>1, <3>1, <3>3 DEF RootOf, RootFirst
  <2>2. CASE type # "SDHC"
    BY <1>3, <2>2 DEF RootOf, RootFirst
  <2> QED BY <2>1, <2>2
<1>7. (IF Read.fatType = 32 THEN Read.blocksPerCluster ELSE Read.rootDirEntryCount \div 16) = RootBlocksOf
  BY <1>3 DEF RootBlocksOf, DirBlocks16
<1>8. Holds(RootFirst, RootFirst + RootBlocksOf - 1, Zeros)
  <2>1. RootFirst + RootBlocksOf - 1 \in Int
    BY <1>2
  <2> QED BY <1>2, <2>1, ZeroedHolds DEF Empty, RootZeroed
<1>9. \A start \in {Read.fatStartBlock, Read.fatStartBlock + Read.blocksPerFat} :
         Content(start) = Reserved /\ Holds(start + 1, start + Read.blocksPerFat - 1, Zeros)
  BY <1>3, <1>5
<1> QED BY <1>6, <1>7, <1>8, <1>9 DEF IsEmptyVolume

\* The partition's end is marked where it is, or as too big.
LEMMA EndIs ==
    ASSUME NumbersInv, Made
    PROVE  EndIsMarked(Mbr)
<1> DEFINE lbn == relSector + partSize - 1
<1>1. /\ numberOfHeads \in {2, 4, 8, 16, 32, 64, 128, 255} /\ sectorsPerTrack \in {32, 63}
      /\ sectorsPerCluster \in ClusterSizes
  BY DEF NumbersInv, GeometryInv
<1>2. lbn \in Int /\ lbn >= 0
  <2>1. /\ relSector \in Int /\ relSector > 0 /\ partSize \in Int /\ dataStart \in Int /\ nc \in Int
        /\ relSector < fatStart /\ fatStart \in Int /\ fatSize \in Int /\ fatSize >= 1
    BY Placement
  <2>2. relSector + partSize = dataStart + nc * sectorsPerCluster /\ nc >= 0 /\ dataStart >= fatStart
    BY <2>1 DEF NumbersInv, CardInv, LayoutKept, Fat16Count, Fat32Count, DirBlocks16
  <2>3. nc * sectorsPerCluster \in Int /\ nc * sectorsPerCluster >= 0
    BY <1>1, <2>1, <2>2, SMT DEF ClusterSizes
  <2> QED BY <2>1, <2>2, <2>3
<1> DEFINE q == lbn \div (numberOfHeads * sectorsPerTrack)
<1>3. ThereAndBack(lbn, numberOfHeads, sectorsPerTrack) = lbn
  BY <1>1, <1>2, ChsIsExact
<1>4. q \in Int /\ q >= 0
  BY <1>1, <1>2, SMT
<1>5. Mbr.end = IF lbnToCylinder(lbn) <= 1023 THEN Chs(lbn) ELSE TooBig
  BY DEF Mbr
<1>6. lbnToCylinder(lbn) = q % Uint16
  BY DEF lbnToCylinder
<1> HIDE DEF q
<1>7. CASE q < Uint16
  <2>1. lbnToCylinder(lbn) = q
    BY <1>4, <1>6, <1>7 DEF Uint16
  <2>2. Chs(lbn) = [c |-> q, h |-> lbnToHead(lbn), s |-> lbnToSector(lbn)]
    BY <2>1 DEF Chs
  <2>3. ChsBlock(Chs(lbn)) = (q * numberOfHeads + lbnToHead(lbn)) * sectorsPerTrack + lbnToSector(lbn) - 1
    BY <2>2 DEF ChsBlock
  <2>4. ChsBlock(Chs(lbn)) = lbn
    BY <1>3, <2>3 DEF ThereAndBack, q, lbnToHead, lbnToSector
  <2> QED BY <1>5, <2>4 DEF EndIsMarked
<1>8. CASE q >= Uint16
  BY <1>8 DEF EndIsMarked, q
<1> QED BY <1>4, <1>7, <1>8 DEF Uint16

LEMMA MadeShows ==
    ASSUME NumbersInv, ModeInv, WrittenInv, WipedInv
    PROVE  VolumeStartsEmpty
<1>1. Made => HasBoot /\ Read = VolumeMade /\ Content(0) = Mbr
  BY ReadIs DEF WrittenInv, Content, At
<1>2. FormattedIsMounted
  <2>1. step \in {"fat16", "fat32"} => dataStart <= cardSizeBlocks
    BY DEF NumbersInv, StartInv
  <2>2. step \in {"mbr", "boot"} => reservedSectors < Uint16
    BY DEF NumbersInv, LayoutKept, LaidOut, Uint16
  <2>3. step = "done" /\ mode \in {"F", "Q"} =>
          HasBoot /\ Read = VolumeMade /\ IsEmptyVolume(Read) /\ EndIsMarked(Content(0))
    BY <1>1, EmptyIs, EndIs DEF Made, WrittenInv
  <2> QED BY <2>1, <2>2, <2>3 DEF FormattedIsMounted, VolumeMade
<1>3. WipedIsEmpty
  <2>1. SUFFICES ASSUME step = "wiped"
                 PROVE  \/ IsEmptyVolume(Read)
                        \/ Read.fatType = 32 /\ fatCache = Read.fatStartBlock
                        \/ 2 * Read.blocksPerFat >= Uint16
    BY DEF WipedIsEmpty
  <2>2. Made /\ (Empty \/ (type = "SDHC" /\ fatCache = fatStart) \/ 2 * fatSize >= Uint16)
    BY <2>1 DEF Made, WipedInv
  <2>3. /\ Read.fatType = (IF type = "SDHC" THEN 32 ELSE 16)
        /\ Read.fatStartBlock = fatStart /\ Read.blocksPerFat = fatSize
    BY <1>1, <2>2 DEF VolumeMade
  <2> QED BY <2>2, <2>3, EmptyIs
<1> QED BY <1>2, <1>3 DEF VolumeStartsEmpty

MadeInv == LayoutInv /\ NumbersInv /\ ModeInv /\ WrittenInv /\ WipedInv /\ firstBlock \in Int

\* The invariant of the formatter, and of the volume it made.
THEOREM MadeInvariant == SpecFormat => []MadeInv
<1>1. InitFormat => LayoutInv
  BY LayoutBegins
<1>2. InitFormat /\ LayoutInv => MadeInv
  <2> SUFFICES ASSUME InitFormat, LayoutInv PROVE MadeInv
    OBVIOUS
  <2>1. /\ step = "ready" /\ firstBlock = 0 /\ disk = {}
        /\ \/ type = "SD" /\ cardSizeBlocks \in StandardCards
           \/ type = "SDHC" /\ cardSizeBlocks \in HighCapacityCards
    BY DEF InitFormat
  <2>2. CardInv
    <3>1. CASE type = "SD" /\ cardSizeBlocks \in StandardCards
      <4>1. cardSizeBlocks \in Nat \ {0}
        BY <3>1, CardsAssumption
      <4>2. cardSizeBlocks \in Int /\ cardSizeBlocks > 0
        BY <4>1
      <4> QED BY <3>1, <4>2 DEF CardInv
    <3>2. CASE type = "SDHC" /\ cardSizeBlocks \in HighCapacityCards
      <4>1. cardSizeBlocks \in Nat /\ cardSizeBlocks > 16384
        BY <3>2, CardsAssumption
      <4> QED BY <3>2, <4>1 DEF CardInv, BU32
    <3> QED BY <2>1, <3>1, <3>2
  <2>3. Disjoint(disk)
    BY <2>1 DEF Disjoint
  <2> QED BY <2>1, <2>2, <2>3 DEF MadeInv, NumbersInv, ModeInv, StartInv, GeometryInv, LayoutKept, WrittenInv,
                                  WipedInv, Made, Mounted, Searching, LaidOut
<1>3. MadeInv /\ [NextFormat]_formatVars => MadeInv'
  <2> SUFFICES ASSUME MadeInv, [NextFormat]_formatVars PROVE MadeInv'
    OBVIOUS
  <2>1. LayoutInv'
    BY LayoutGoesOn DEF MadeInv
  <2>2. NumbersInv'
    BY <2>1, NumbersStep DEF MadeInv
  <2>3. ModeInv'
    <3>1. CASE UNCHANGED formatVars
      BY <3>1 DEF formatVars, MadeInv, ModeInv, Searching, LaidOut
    <3> QED BY <3>1, ModeStep, StepIs DEF MadeInv
  <2>4. WrittenInv' /\ firstBlock' \in Int
    BY WrittenStep DEF MadeInv
  <2>5. WipedInv'
    BY WipedStep DEF MadeInv
  <2> QED BY <2>1, <2>2, <2>3, <2>4, <2>5 DEF MadeInv
<1> QED BY <1>1, <1>2, <1>3, PTL DEF SpecFormat

\* A volume starts empty: formatted, it is found where it was put, with nothing in it, and
\* wiped, it is empty again but in the two cases that the property names.
THEOREM VolumeEmpty == SpecFormat => []VolumeStartsEmpty
<1>1. MadeInv => VolumeStartsEmpty
  BY MadeShows DEF MadeInv
<1> QED BY <1>1, MadeInvariant, PTL

-----------------------------------------------------------------------------
(* The clusters.  Each file has a chain, which its entry and the fat describe; what   *)
(* the call under way has found, linked or freed is told by the variables of its loop. *)

Length(f) == entry[f].clusters

\* Each file has its clusters, in the order of its chain, and none of the root directory's.
FilesInv(chain) ==
    \A f \in Files :
        /\ Length(f) = 0 => entry[f] = NoFile
        /\ Length(f) > 0 => entry[f].first = chain[f][1]
        /\ \A i \in 1 .. Length(f) : chain[f][i] \in Clusters \ root

KeptApart(chain) ==
    \A f, g \in Files : \A i \in 1 .. Length(f) : \A j \in 1 .. Length(g) :
        chain[f][i] = chain[g][j] => f = g /\ i = j

\* Each cluster leads to the next, those already freed excepted.
Freed(f, i, k) == pc \in {"free", "end"} /\ f = file /\ left < i /\ i < k

LinksInv(chain, k) ==
    \A f \in Files : \A i \in 1 .. Length(f) :
        fat[chain[f][i]] = IF Freed(f, i, k) THEN Unused
                           ELSE IF i = Length(f) THEN Eoc
                           ELSE chain[f][i + 1]

\* All other clusters are free, but for those of a file that is being created.
InChain(chain, c) == \E f \in Files : \E i \in 1 .. Length(f) : c = chain[f][i]
LastInRun == bgnCluster + count - 1
InRun(c) == pc = "link" /\ endCluster <= c /\ c <= LastInRun

RestInv(chain) ==
    /\ \A c \in Clusters :
         c \notin root /\ ~InChain(chain, c) => (fat[c] = Unused <=> ~InRun(c))
    /\ \A c \in root : c \in Clusters /\ fat[c] # Unused

\* The loops, each with what it has found so far.
SearchInv ==
    pc = "search" =>
        /\ file \in Files /\ entry[file] = NoFile /\ count >= 1
        /\ 2 <= bgnCluster /\ bgnCluster <= endCluster
        /\ \A c \in bgnCluster .. endCluster - 1 : c \in Clusters /\ fat[c] = Unused

LinkInv(chain) ==
    pc = "link" =>
        /\ file \in Files /\ entry[file] = NoFile /\ count >= 1
        /\ 2 <= bgnCluster /\ bgnCluster <= endCluster
        /\ endCluster <= LastInRun /\ LastInRun <= LastCluster
        /\ \A c \in bgnCluster .. LastInRun : c \notin root /\ ~InChain(chain, c)
        /\ \A c \in endCluster .. LastInRun :
             fat[c] = IF c = LastInRun THEN Eoc ELSE c + 1

FindInv(chain) ==
    pc = "find" =>
        /\ file \in Files /\ Length(file) < MaxCount /\ endCluster >= 1
        /\ current = IF Length(file) = 0 THEN 0 ELSE chain[file][Length(file)]

FreeInv(chain, k) ==
    /\ pc \in {"free", "end"} => file \in Files /\ left < k
    /\ pc = "free" => k <= Length(file) /\ current = chain[file][k]
    /\ pc = "end" => k = Length(file) + 1

ChainInv(chain, k) ==
    /\ FilesInv(chain) /\ KeptApart(chain) /\ LinksInv(chain, k) /\ RestInv(chain)
    /\ SearchInv /\ LinkInv(chain) /\ FindInv(chain) /\ FreeInv(chain, k)

\* The clusters of every file, in order: as many of them as its entry says.
Chains == [Files -> [Nat -> Int]]
InOrder(chain, k) == chain \in Chains /\ k \in Nat /\ ChainInv(chain, k)
VolumeInv == TypeOK /\ \E chain, k : InOrder(chain, k)

-----------------------------------------------------------------------------
(* The chain of a file, cluster by cluster. *)

\* A chain, followed from its first cluster on.
LEMMA ChainWalked ==
    ASSUME NEW f \in Files, NEW s, NEW n \in Nat \ {0},
           entry[f].first = s[1],
           \A i \in 1 .. n - 1 : fat[s[i]] = s[i + 1]
    PROVE  ClusterAt(f, n) = s[n]
<1> DEFINE Walks(g) == g = [k \in 1 .. n |-> IF k = 1 THEN entry[f].first ELSE fat[g[k - 1]]]
           w == CHOOSE g : Walks(g)
           t == [k \in 1 .. n |-> s[k]]
           T == {k \in 0 .. n : k = 0 \/ w[k] = s[k]}
<1>1. ClusterAt(f, n) = w[n]
  BY DEF ClusterAt
<1>2. Walks(t)
  <2>1. \A k \in 1 .. n : s[k] = IF k = 1 THEN entry[f].first ELSE fat[t[k - 1]]
    <3>1. SUFFICES ASSUME NEW k \in 1 .. n, k # 1 PROVE s[k] = fat[t[k - 1]]
      OBVIOUS
    <3>2. k - 1 \in 1 .. n - 1 /\ k - 1 \in 1 .. n /\ (k - 1) + 1 = k
      BY <3>1
    <3>3. QED
      BY <3>2
  <2>2. QED
    BY <2>1
<1>3. Walks(w)
  BY <1>2, Zenon
<1> HIDE DEF w, t
<1>4. \A k \in 1 .. n : w[k] = IF k = 1 THEN s[1] ELSE fat[w[k - 1]]
  BY <1>3
<1>5. \A k \in 0 .. n - 1 : k \in T => k + 1 \in T
  <2>1. SUFFICES ASSUME NEW k \in 0 .. n - 1, k \in T PROVE w[k + 1] = s[k + 1]
    OBVIOUS
  <2>2. CASE k = 0
    BY <1>4, <2>2
  <2>3. CASE k # 0
    <3>1. k \in 1 .. n - 1 /\ k + 1 \in 1 .. n /\ (k + 1) - 1 = k /\ k + 1 # 1
      BY <2>3
    <3>2. w[k + 1] = fat[w[k]]
      BY <1>4, <3>1
    <3>3. w[k] = s[k]
      BY <2>1, <2>3
    <3>4. QED
      BY <3>1, <3>2, <3>3
  <2>4. QED
    BY <2>2, <2>3
<1>6. 0 \in T
  OBVIOUS
<1> HIDE DEF T
<1>7. n \in T
  <2>1. n \in Nat
    OBVIOUS
  <2>2. QED
    BY <1>5, <1>6, <2>1, SetInductionUpTo
<1>8. QED
  BY <1>1, <1>7 DEF T

\* A file at rest has its clusters at the places of its chain.
LEMMA ClusterIs ==
    ASSUME TypeOK, NEW chain, NEW k, FilesInv(chain), LinksInv(chain, k),
           NEW f \in Files, NEW n \in 1 .. Length(f),
           \A i \in 1 .. n - 1 : ~Freed(f, i, k)
    PROVE  ClusterAt(f, n) = chain[f][n]
<1>1. Length(f) \in Nat
  BY ClustersAssumption DEF TypeOK, Length
<1>2. n \in Nat \ {0} /\ Length(f) > 0
  BY <1>1
<1>3. entry[f].first = chain[f][1]
  BY <1>2 DEF FilesInv
<1>4. \A i \in 1 .. n - 1 : fat[chain[f][i]] = chain[f][i + 1]
  <2>1. SUFFICES ASSUME NEW i \in 1 .. n - 1 PROVE fat[chain[f][i]] = chain[f][i + 1]
    OBVIOUS
  <2>2. i \in 1 .. Length(f) /\ i # Length(f)
    BY <1>1
  <2>3. QED
    BY <2>2 DEF LinksInv
<1>5. QED
  BY <1>2, <1>3, <1>4, ChainWalked

\* The lengths of files, and what is known of the cluster at a place.
LEMMA LengthTyped ==
    ASSUME TypeOK, NEW f \in Files
    PROVE  /\ Length(f) \in 0 .. LastCluster /\ Length(f) \in Nat /\ LastCluster \in Nat
           /\ entry[f] \in [first : {0} \cup Clusters, clusters : 0 .. LastCluster]
  BY ClustersAssumption DEF TypeOK, Length

\* A free cluster is in no chain.
LEMMA FreeIsNotInChain ==
    ASSUME TypeOK, NEW chain, NEW k, FilesInv(chain), LinksInv(chain, k), RestInv(chain),
           pc \notin {"free", "end"}, NEW c \in Clusters, fat[c] = Unused
    PROVE  c \notin root /\ ~InChain(chain, c)
<1>1. c \notin root
  BY DEF RestInv
<1>2. SUFFICES ASSUME NEW f \in Files, NEW i \in 1 .. Length(f), c = chain[f][i]
               PROVE  FALSE
  BY <1>1 DEF InChain
<1>3. Length(f) \in Nat
  BY LengthTyped
<1>4. Unused = IF i = Length(f) THEN Eoc ELSE chain[f][i + 1]
  BY <1>2 DEF LinksInv, Freed
<1>5. i # Length(f) => chain[f][i + 1] \in Clusters
  <2>1. i # Length(f) => i + 1 \in 1 .. Length(f)
    BY <1>3
  <2>2. QED
    BY <2>1 DEF FilesInv
<1>6. QED
  BY <1>4, <1>5, ClustersAssumption DEF Unused, Eoc, Clusters

-----------------------------------------------------------------------------
(* The steps. *)

\* Where nothing is linked or freed, the chains stay.
LEMMA ChainsStay ==
    ASSUME NEW chain, NEW k, ChainInv(chain, k), UNCHANGED <<fat, root, entry>>,
           pc \notin {"link", "free", "end"}, pc' \notin {"link", "free", "end"}
    PROVE  /\ FilesInv(chain)' /\ KeptApart(chain)' /\ LinksInv(chain, k)' /\ RestInv(chain)'
           /\ LinkInv(chain)' /\ FreeInv(chain, k)'
<1>1. \A f : Length(f)' = Length(f)
  BY DEF Length
<1>2. FilesInv(chain)' /\ KeptApart(chain)'
  BY <1>1 DEF ChainInv, FilesInv, KeptApart
<1>3. LinksInv(chain, k)'
  BY <1>1 DEF ChainInv, LinksInv, Freed
<1>4. RestInv(chain)'
  BY <1>1 DEF ChainInv, RestInv, InChain, InRun
<1>5. QED
  BY <1>2, <1>3, <1>4 DEF LinkInv, FreeInv

\* What the call that ends leaves.
LEMMA ReturnTyped ==
    ASSUME Return
    PROVE  /\ pc' = "idle" /\ file' \in Files \cup {NoName} /\ count' \in 0 .. MaxCount
           /\ startCluster' \in 0 .. LastCluster + 1
           /\ bgnCluster' \in 0 .. LastCluster + 2 /\ endCluster' \in 0 .. LastCluster + 2
           /\ setStart' \in BOOLEAN /\ current' \in {0, Eoc} \cup Clusters
           /\ left' \in 0 .. LastCluster
  BY ClustersAssumption, CountAssumption DEF Return

LEMMA MountStep ==
    ASSUME TypeOK, NEW chain, NEW k, InOrder(chain, k), Mount
    PROVE  TypeOK' /\ InOrder(chain, k)'
<1>1. /\ pc = "idle" /\ pc' = "idle" /\ searchStart' = 1
      /\ UNCHANGED <<fat, root, entry, file, searchVars, current, left>>
  BY DEF Mount, localVars
<1>2. TypeOK'
  BY <1>1, ClustersAssumption DEF TypeOK, searchVars
<1>3. ChainInv(chain, k)'
  BY <1>1, ChainsStay DEF InOrder, ChainInv, SearchInv, FindInv
<1>4. QED
  BY <1>2, <1>3 DEF InOrder

\* The search for a run: what has been found of it is free.
LEMMA SearchStep ==
    ASSUME TypeOK, NEW chain, NEW k, InOrder(chain, k), CreateContiguous \/ SearchOn \/ NoRoom
    PROVE  TypeOK' /\ InOrder(chain, k)'
<1> USE ClustersAssumption, CountAssumption
<1>1. /\ UNCHANGED <<fat, searchStart, root, entry>>
      /\ pc \notin {"link", "free", "end"} /\ pc' \notin {"link", "free", "end"}
      /\ pc' # "find"
  BY DEF CreateContiguous, SearchOn, NoRoom, Return
<1>2. CASE CreateContiguous
  <2>1. /\ file' \in Files /\ count' \in 1 .. MaxCount /\ entry[file'] = NoFile
        /\ startCluster' = searchStart /\ bgnCluster' = searchStart + 1
        /\ endCluster' = searchStart + 1 /\ setStart' = TRUE /\ pc' = "search"
        /\ UNCHANGED <<current, left>>
    BY <1>2 DEF CreateContiguous
  <2>2. searchStart \in 1 .. LastCluster + 1
    BY DEF TypeOK
  <2>3. TypeOK'
    BY <1>1, <2>1, <2>2 DEF TypeOK
  <2>4. SearchInv'
    BY <1>1, <2>1, <2>2 DEF SearchInv
  <2>5. QED
    BY <1>1, <2>3, <2>4, ChainsStay DEF InOrder, ChainInv, FindInv
<1>3. CASE SearchOn
  <2>1. /\ pc = "search" /\ pc' = "search"
        /\ bgnCluster' = IF IsFree(WrappedEnd) THEN WrappedBgn ELSE WrappedEnd + 1
        /\ endCluster' = WrappedEnd + 1
        /\ setStart' = (setStart /\ IsFree(WrappedEnd))
        /\ UNCHANGED <<file, count, startCluster, current, left>>
    BY <1>3 DEF SearchOn
  <2>2. /\ bgnCluster \in Nat /\ endCluster \in Nat
        /\ file \in Files /\ entry[file] = NoFile /\ count >= 1
        /\ 2 <= bgnCluster /\ bgnCluster <= endCluster
        /\ \A c \in bgnCluster .. endCluster - 1 : c \in Clusters /\ fat[c] = Unused
    BY <2>1 DEF InOrder, ChainInv, SearchInv, TypeOK
  <2>3. WrappedEnd \in Clusters /\ WrappedBgn \in 2 .. WrappedEnd
    BY <2>2 DEF WrappedEnd, WrappedBgn, Clusters
  <2>4. IsFree(WrappedEnd) =>
          \A c \in WrappedBgn .. WrappedEnd : c \in Clusters /\ fat[c] = Unused
    BY <2>2, <2>3 DEF WrappedEnd, WrappedBgn, Clusters, IsFree
  <2>5. bgnCluster' \in 0 .. LastCluster + 2 /\ endCluster' \in 0 .. LastCluster + 2
    BY <2>1, <2>3 DEF Clusters
  <2>6. setStart' \in BOOLEAN
    BY <2>1
  <2>7. TypeOK'
    BY <1>1, <2>1, <2>5, <2>6 DEF TypeOK
  <2>8. SearchInv'
    BY <1>1, <2>1, <2>2, <2>3, <2>4 DEF SearchInv, Clusters
  <2>9. QED
    BY <1>1, <2>7, <2>8, ChainsStay DEF InOrder, ChainInv, FindInv
<1>4. CASE NoRoom
  <2>1. TypeOK'
    BY <1>1, <1>4, ReturnTyped DEF NoRoom, TypeOK
  <2>2. SearchInv'
    BY <1>4 DEF NoRoom, Return, SearchInv
  <2>3. QED
    BY <1>1, <2>1, <2>2, ChainsStay DEF InOrder, ChainInv, FindInv
<1>5. QED
  BY <1>2, <1>3, <1>4

\* The facts about the search that its end rests on.
LEMMA SearchTyped ==
    ASSUME TypeOK, NEW chain, NEW k, InOrder(chain, k), pc = "search"
    PROVE  /\ file \in Files /\ entry[file] = NoFile /\ count \in Nat /\ count >= 1
           /\ WrappedEnd \in Clusters /\ WrappedBgn \in 2 .. WrappedEnd
           /\ \A c \in WrappedBgn .. WrappedEnd - 1 : c \in Clusters /\ fat[c] = Unused
<1> USE ClustersAssumption, CountAssumption
<1>1. /\ bgnCluster \in Nat /\ endCluster \in Nat
      /\ file \in Files /\ entry[file] = NoFile /\ count >= 1
      /\ 2 <= bgnCluster /\ bgnCluster <= endCluster
      /\ \A c \in bgnCluster .. endCluster - 1 : c \in Clusters /\ fat[c] = Unused
  BY DEF InOrder, ChainInv, SearchInv, TypeOK
<1>2. WrappedEnd \in Clusters /\ WrappedBgn \in 2 .. WrappedEnd
  BY <1>1 DEF WrappedEnd, WrappedBgn, Clusters
<1>3. \A c \in WrappedBgn .. WrappedEnd - 1 : c \in Clusters /\ fat[c] = Unused
  BY <1>1, <1>2 DEF WrappedEnd, WrappedBgn, Clusters
<1>4. count \in Nat
  BY DEF TypeOK
<1>5. QED
  BY <1>1, <1>2, <1>3, <1>4

\* The run is found, and its last cluster taken.
LEMMA RunFoundStep ==
    ASSUME TypeOK, NEW chain, NEW k, InOrder(chain, k), RunFound
    PROVE  TypeOK' /\ InOrder(chain, k)'
<1> USE ClustersAssumption, CountAssumption
<1> DEFINE e == WrappedEnd
           b == WrappedBgn
<1>1. /\ pc = "search" /\ pc' = "link" /\ fat[e] = Unused /\ e - b + 1 = count
      /\ bgnCluster' = b /\ endCluster' = e /\ fat' = [fat EXCEPT ![e] = Eoc]
      /\ searchStart' = IF setStart THEN e + 1 ELSE searchStart
      /\ UNCHANGED <<root, entry, file, count, startCluster, setStart, current, left>>
  BY DEF RunFound, IsFree, RunIsLongEnough, SearchStartAfter
<1>2. /\ file \in Files /\ entry[file] = NoFile /\ count \in Nat /\ count >= 1
      /\ e \in Clusters /\ b \in 2 .. e
      /\ \A c \in b .. e - 1 : c \in Clusters /\ fat[c] = Unused
  BY <1>1, SearchTyped
<1>3. FilesInv(chain) /\ KeptApart(chain) /\ LinksInv(chain, k) /\ RestInv(chain)
  BY DEF InOrder, ChainInv
<1> HIDE DEF e, b
<1>4. /\ e \in 2 .. LastCluster /\ e \in Int /\ b \in Int /\ e <= LastCluster
      /\ fat \in [Clusters -> {Unused, Eoc} \cup Clusters]
  BY <1>2 DEF Clusters, TypeOK
<1>5. /\ fat'[e] = Eoc
      /\ \A c \in Clusters : c # e => fat'[c] = fat[c]
  BY <1>1, <1>2, <1>4
<1>6. \A c \in b .. e : c \in Clusters /\ fat[c] = Unused
  BY <1>1, <1>2, <1>4
<1>7. \A c \in b .. e : c \notin root /\ ~InChain(chain, c)
  BY <1>1, <1>3, <1>6, FreeIsNotInChain
<1>8. e \in b .. e
  BY <1>2, <1>4
<1>9. \A f : Length(f)' = Length(f)
  BY <1>1 DEF Length
<1>10. LastInRun' = e
  BY <1>1, <1>2, <1>4 DEF LastInRun
<1>11. FilesInv(chain)' /\ KeptApart(chain)'
  BY <1>1, <1>3, <1>9 DEF FilesInv, KeptApart
<1>12. LinksInv(chain, k)'
  <2>1. \A f \in Files : \A i \in 1 .. Length(f) : fat'[chain[f][i]] = fat[chain[f][i]]
    <3>1. SUFFICES ASSUME NEW f \in Files, NEW i \in 1 .. Length(f)
                   PROVE  chain[f][i] \in Clusters /\ chain[f][i] # e
      BY <1>5
    <3>2. chain[f][i] \in Clusters
      BY <1>3 DEF FilesInv
    <3>3. QED
      BY <1>7, <1>8, <3>2 DEF InChain
  <2>2. QED
    BY <1>1, <1>3, <1>9, <2>1 DEF LinksInv, Freed
<1>13. RestInv(chain)'
  <2>1. \A c : InChain(chain, c)' = InChain(chain, c)
    BY <1>1, <1>9 DEF InChain
  <2>2. \A c \in Clusters : InRun(c)' <=> c = e
    BY <1>1, <1>4, <1>10 DEF InRun, Clusters
  <2>3. \A c \in Clusters : ~InRun(c)
    BY <1>1 DEF InRun
  <2>4. Eoc # Unused
    BY DEF Eoc, Unused
  <2>5. \A c \in root : c \in Clusters /\ c # e
    BY <1>3, <1>7, <1>8 DEF RestInv
  <2>6. QED
    BY <1>1, <1>3, <1>5, <2>1, <2>2, <2>3, <2>4, <2>5 DEF RestInv
<1>14. LinkInv(chain)'
  <2>1. \A c : InChain(chain, c)' = InChain(chain, c)
    BY <1>1, <1>9 DEF InChain
  <2>2. \A c \in e .. e : c = e
    BY <1>4
  <2>3. 2 <= b /\ b <= e
    BY <1>2, <1>4
  <2>4. QED
    BY <1>1, <1>2, <1>4, <1>5, <1>7, <1>10, <2>1, <2>2, <2>3 DEF LinkInv
<1>15. SearchInv' /\ FindInv(chain)' /\ FreeInv(chain, k)'
  BY <1>1 DEF SearchInv, FindInv, FreeInv
<1>16. TypeOK'
  <2>1. fat' \in [Clusters -> {Unused, Eoc} \cup Clusters]
    BY <1>1, <1>4
  <2>2. searchStart' \in 1 .. LastCluster + 1
    BY <1>1, <1>4 DEF TypeOK
  <2>3. bgnCluster' \in 0 .. LastCluster + 2 /\ endCluster' \in 0 .. LastCluster + 2
    BY <1>1, <1>2, <1>4
  <2>4. QED
    BY <1>1, <2>1, <2>2, <2>3 DEF TypeOK
<1>17. QED
  BY <1>11, <1>12, <1>13, <1>14, <1>15, <1>16 DEF InOrder, ChainInv

\* One more cluster of the run leads to the next.
LEMMA LinkStep ==
    ASSUME TypeOK, NEW chain, NEW k, InOrder(chain, k), LinkOne
    PROVE  TypeOK' /\ InOrder(chain, k)'
<1> USE ClustersAssumption, CountAssumption
<1>1. /\ pc = "link" /\ pc' = "link" /\ endCluster > bgnCluster
      /\ fat' = [fat EXCEPT ![endCluster - 1] = endCluster] /\ endCluster' = endCluster - 1
      /\ UNCHANGED <<searchStart, root, entry, file, count, startCluster, bgnCluster,
                     setStart, current, left>>
  BY DEF LinkOne, NextInRun
<1>2. /\ file \in Files /\ entry[file] = NoFile /\ count >= 1
      /\ 2 <= bgnCluster /\ bgnCluster <= endCluster
      /\ endCluster <= LastInRun /\ LastInRun <= LastCluster
      /\ \A c \in bgnCluster .. LastInRun : c \notin root /\ ~InChain(chain, c)
      /\ \A c \in endCluster .. LastInRun :
           fat[c] = IF c = LastInRun THEN Eoc ELSE c + 1
  BY <1>1 DEF InOrder, ChainInv, LinkInv
<1>3. FilesInv(chain) /\ KeptApart(chain) /\ LinksInv(chain, k) /\ RestInv(chain)
  BY DEF InOrder, ChainInv
<1>4. /\ endCluster \in Int /\ bgnCluster \in Int /\ count \in Int /\ LastInRun \in Int
      /\ fat \in [Clusters -> {Unused, Eoc} \cup Clusters]
  BY DEF TypeOK, LastInRun
<1> DEFINE e == endCluster - 1
<1>5. e \in Clusters /\ endCluster \in Clusters /\ e \in bgnCluster .. LastInRun
  BY <1>1, <1>2, <1>4 DEF Clusters
<1>6. /\ fat'[e] = endCluster
      /\ \A c \in Clusters : c # e => fat'[c] = fat[c]
  BY <1>1, <1>4, <1>5
<1>7. \A f : Length(f)' = Length(f)
  BY <1>1 DEF Length
<1>8. LastInRun' = LastInRun
  BY <1>1 DEF LastInRun
<1>9. \A c : InChain(chain, c)' = InChain(chain, c)
  BY <1>1, <1>7 DEF InChain
<1>10. FilesInv(chain)' /\ KeptApart(chain)'
  BY <1>1, <1>3, <1>7 DEF FilesInv, KeptApart
<1>11. LinksInv(chain, k)'
  <2>1. \A f \in Files : \A i \in 1 .. Length(f) : fat'[chain[f][i]] = fat[chain[f][i]]
    <3>1. SUFFICES ASSUME NEW f \in Files, NEW i \in 1 .. Length(f)
                   PROVE  chain[f][i] \in Clusters /\ chain[f][i] # e
      BY <1>6
    <3>2. chain[f][i] \in Clusters
      BY <1>3 DEF FilesInv
    <3>3. QED
      BY <1>2, <1>5, <3>2 DEF InChain
  <2>2. QED
    BY <1>1, <1>3, <1>7, <2>1 DEF LinksInv, Freed
<1>12. RestInv(chain)'
  <2>1. \A c \in Clusters : InRun(c)' <=> (InRun(c) \/ c = e)
    BY <1>1, <1>2, <1>4, <1>8 DEF InRun, Clusters
  <2>2. endCluster # Unused
    BY <1>1, <1>2, <1>4 DEF Unused
  <2>3. \A c \in root : c \in Clusters /\ c # e
    BY <1>2, <1>3, <1>5 DEF RestInv
  <2>4. QED
    BY <1>1, <1>3, <1>6, <1>9, <2>1, <2>2, <2>3 DEF RestInv
<1>13. LinkInv(chain)'
  <2>1. \A c \in e .. LastInRun : fat'[c] = IF c = LastInRun THEN Eoc ELSE c + 1
    <3>1. SUFFICES ASSUME NEW c \in e .. LastInRun
                   PROVE  fat'[c] = IF c = LastInRun THEN Eoc ELSE c + 1
      OBVIOUS
    <3>2. CASE c = e
      BY <1>2, <1>4, <1>6, <3>2
    <3>3. CASE c # e
      <4>1. c \in endCluster .. LastInRun /\ c \in Clusters
        BY <1>1, <1>2, <1>4, <3>3 DEF Clusters
      <4>2. QED
        BY <1>2, <1>6, <3>3, <4>1
    <3>4. QED
      BY <3>2, <3>3
  <2>2. QED
    BY <1>1, <1>2, <1>4, <1>8, <1>9, <2>1 DEF LinkInv
<1>14. SearchInv' /\ FindInv(chain)' /\ FreeInv(chain, k)'
  BY <1>1 DEF SearchInv, FindInv, FreeInv
<1>15. TypeOK'
  <2>1. fat' \in [Clusters -> {Unused, Eoc} \cup Clusters]
    BY <1>1, <1>4, <1>5
  <2>2. endCluster' \in 0 .. LastCluster + 2
    BY <1>1, <1>4, <1>5 DEF Clusters
  <2>3. QED
    BY <1>1, <2>1, <2>2 DEF TypeOK
<1>16. QED
  BY <1>10, <1>11, <1>12, <1>13, <1>14, <1>15 DEF InOrder, ChainInv

\* The file gets its entry: its chain is the run.
LEMMA LinkedStep ==
    ASSUME TypeOK, NEW chain, NEW k, InOrder(chain, k), Linked,
           NEW x, x = file, NEW b, b = bgnCluster, NEW n, n = count
    PROVE  TypeOK' /\ \E s : InOrder(s, k)'
<1> USE ClustersAssumption, CountAssumption
<1>1. /\ pc = "link" /\ pc' = "idle" /\ endCluster = b /\ x = file /\ b = bgnCluster /\ n = count
      /\ entry' = [entry EXCEPT ![x] = [first |-> b, clusters |-> n]]
      /\ Return /\ UNCHANGED <<fat, searchStart, root>>
  BY DEF Linked, Return
<1>2. /\ x \in Files /\ entry[x] = NoFile /\ n >= 1
      /\ 2 <= b /\ LastInRun <= LastCluster
      /\ \A c \in b .. LastInRun : c \notin root /\ ~InChain(chain, c)
      /\ \A c \in b .. LastInRun :
           fat[c] = IF c = LastInRun THEN Eoc ELSE c + 1
  BY <1>1 DEF InOrder, ChainInv, LinkInv
<1>3. FilesInv(chain) /\ KeptApart(chain) /\ LinksInv(chain, k) /\ RestInv(chain)
  BY DEF InOrder, ChainInv
<1>4. chain \in [Files -> [Nat -> Int]] /\ k \in Nat
  BY DEF InOrder, Chains
<1>5. /\ b \in Int /\ n \in Nat /\ LastInRun = b + n - 1
      /\ entry \in [Files -> [first : {0} \cup Clusters, clusters : 0 .. LastCluster]]
      /\ n <= LastCluster
  BY DEF TypeOK, LastInRun
<1> DEFINE e == [first |-> b, clusters |-> n]
<1>6. PICK run \in [Nat -> Int] : \A i \in Nat : run[i] = b + i - 1
  <2>1. [i \in Nat |-> b + i - 1] \in [Nat -> Int]
    BY <1>5
  <2>2. QED
    BY <2>1
<1>7. PICK s \in Chains : s = [chain EXCEPT ![x] = run]
  BY <1>2, <1>4, <1>6 DEF Chains
<1>8. s[x] = run /\ \A f \in Files : f # x => s[f] = chain[f]
  BY <1>2, <1>4, <1>7
<1>9. entry'[x] = e /\ \A f \in Files : f # x => entry'[f] = entry[f]
  BY <1>1, <1>2, <1>5
<1>10. \A i \in 1 .. n : run[i] = b + i - 1 /\ run[i] \in b .. LastInRun
  BY <1>5, <1>6
<1>11. /\ Length(x)' = n /\ Length(x) = 0
       /\ \A f \in Files : f # x => Length(f)' = Length(f)
  BY <1>2, <1>9 DEF Length, NoFile
<1>12. run[1] = b
  BY <1>5, <1>6
<1>13. \A c \in b .. LastInRun : c \in Clusters
  BY <1>2, <1>5 DEF Clusters
<1>14. FilesInv(s)'
  <2>1. SUFFICES ASSUME NEW f \in Files
                 PROVE  /\ Length(f)' = 0 => entry'[f] = NoFile
                        /\ Length(f)' > 0 => entry'[f].first = s[f][1]
                        /\ \A i \in 1 .. Length(f)' : s[f][i] \in Clusters \ root
    BY <1>1 DEF FilesInv
  <2>2. CASE f = x
    BY <1>2, <1>8, <1>9, <1>10, <1>11, <1>12, <1>13, <2>2
  <2>3. CASE f # x
    BY <1>3, <1>8, <1>9, <1>11, <2>3 DEF FilesInv
  <2>4. QED
    BY <2>2, <2>3
<1>15. KeptApart(s)'
  <2>1. SUFFICES ASSUME NEW f \in Files, NEW g \in Files,
                        NEW i \in 1 .. Length(f)', NEW j \in 1 .. Length(g)',
                        s[f][i] = s[g][j]
                 PROVE  f = g /\ i = j
    BY DEF KeptApart
  <2>2. CASE f = x /\ g = x
    BY <1>5, <1>8, <1>10, <1>11, <2>1, <2>2
  <2>3. CASE f = x /\ g # x
    BY <1>2, <1>8, <1>10, <1>11, <2>1, <2>3 DEF InChain
  <2>4. CASE f # x /\ g = x
    BY <1>2, <1>8, <1>10, <1>11, <2>1, <2>4 DEF InChain
  <2>5. CASE f # x /\ g # x
    BY <1>3, <1>8, <1>11, <2>1, <2>5 DEF KeptApart
  <2>6. QED
    BY <2>2, <2>3, <2>4, <2>5
<1>16. LinksInv(s, k)'
  <2>1. SUFFICES ASSUME NEW f \in Files, NEW i \in 1 .. Length(f)'
                 PROVE  fat'[s[f][i]] = IF i = Length(f)' THEN Eoc ELSE s[f][i + 1]
    BY <1>1 DEF LinksInv, Freed
  <2>2. CASE f = x
    <3>1. i \in 1 .. n /\ s[f][i] = run[i]
      BY <1>8, <1>11, <2>2
    <3>2. run[i] = LastInRun <=> i = n
      <4>1. run[i] = b + i - 1
        BY <1>10, <3>1
      <4>2. i \in Int
        BY <1>5, <3>1
      <4>3. QED
        BY <1>5, <4>1, <4>2
    <3>3. i # n => run[i + 1] = run[i] + 1
      <4>1. i # n => i + 1 \in 1 .. n
        BY <1>5, <3>1
      <4>2. QED
        BY <1>5, <1>10, <3>1, <4>1
    <3>4. QED
      BY <1>1, <1>2, <1>8, <1>10, <1>11, <2>2, <3>1, <3>2, <3>3
  <2>3. CASE f # x
    BY <1>1, <1>3, <1>8, <1>11, <2>3 DEF LinksInv, Freed
  <2>4. QED
    BY <2>2, <2>3
<1>17. RestInv(s)'
  <2>1. \A c \in Clusters : ~InChain(s, c)' => ~InChain(chain, c) /\ ~InRun(c)
    <3>1. SUFFICES ASSUME NEW c \in Clusters, InChain(chain, c) \/ InRun(c)
                   PROVE  InChain(s, c)'
      OBVIOUS
    <3>2. CASE InChain(chain, c)
      <4>1. PICK f \in Files : \E i \in 1 .. Length(f) : c = chain[f][i]
        BY <3>2 DEF InChain
      <4>2. f # x
        BY <1>11, <4>1
      <4>3. QED
        BY <1>8, <1>11, <4>1, <4>2 DEF InChain
    <3>3. CASE InRun(c)
      <4>1. c \in b .. LastInRun
        BY <1>1, <1>5, <3>3 DEF InRun, Clusters
      <4>2. c - b + 1 \in 1 .. n /\ run[c - b + 1] = c
        BY <1>5, <1>10, <4>1
      <4>3. QED
        BY <1>2, <1>8, <1>11, <4>2 DEF InChain
    <3>4. QED
      BY <3>1, <3>2, <3>3
  <2>2. \A c : ~InRun(c)'
    BY <1>1 DEF InRun
  <2>3. QED
    BY <1>1, <1>3, <2>1, <2>2 DEF RestInv
<1>18. SearchInv' /\ LinkInv(s)' /\ FindInv(s)' /\ FreeInv(s, k)'
  BY <1>1 DEF SearchInv, LinkInv, FindInv, FreeInv
<1>19. TypeOK'
  <2>1. e \in [first : {0} \cup Clusters, clusters : 0 .. LastCluster]
    <3>1. b \in Clusters
      BY <1>2, <1>5 DEF Clusters
    <3>2. QED
      BY <1>5, <3>1
  <2>2. entry' \in [Files -> [first : {0} \cup Clusters, clusters : 0 .. LastCluster]]
    BY <1>1, <1>5, <2>1
  <2>3. QED
    BY <1>1, <2>2, ReturnTyped DEF TypeOK
<1>20. QED
  BY <1>4, <1>7, <1>14, <1>15, <1>16, <1>17, <1>18, <1>19 DEF InOrder, ChainInv

\* The search for one cluster.
LEMMA FindStep ==
    ASSUME TypeOK, NEW chain, NEW k, InOrder(chain, k), Grow \/ FindOn \/ FoundNone
    PROVE  TypeOK' /\ InOrder(chain, k)'
<1> USE ClustersAssumption, CountAssumption
<1>1. /\ UNCHANGED <<fat, searchStart, root, entry>>
      /\ pc \notin {"link", "free", "end"} /\ pc' \notin {"link", "free", "end"}
      /\ pc' # "search"
  BY DEF Grow, FindOn, FoundNone, Return
<1>2. SearchInv'
  BY <1>1 DEF SearchInv
<1>3. /\ FilesInv(chain) /\ LinksInv(chain, k)
      /\ pc = "find" => file \in Files /\ Length(file) < MaxCount /\ endCluster >= 1
                        /\ current = IF Length(file) = 0 THEN 0 ELSE chain[file][Length(file)]
  BY DEF InOrder, ChainInv, FindInv
<1>4. CASE Grow
  <2>1. PICK f \in Files : /\ entry[f].clusters < MaxCount /\ file' = f
                           /\ current' = IF entry[f] = NoFile THEN 0 ELSE LastOf(f)
    BY <1>4 DEF Grow
  <2>2. /\ startCluster' = IF current' = 0 THEN searchStart ELSE current'
        /\ endCluster' = startCluster' /\ pc' = "find"
        /\ UNCHANGED <<count, bgnCluster, setStart, left>>
    BY <1>4 DEF Grow
  <2>3. /\ Length(f) \in Nat /\ searchStart \in 1 .. LastCluster + 1
        /\ Length(f)' = Length(f) /\ Length(f) < MaxCount
    BY <1>1, <2>1, LengthTyped DEF TypeOK, Length
  <2>4. current' = IF Length(f) = 0 THEN 0 ELSE chain[f][Length(f)]
    <3>1. CASE Length(f) = 0
      BY <1>3, <2>1, <3>1 DEF FilesInv
    <3>2. CASE Length(f) # 0
      <4>1. entry[f] # NoFile /\ Length(f) \in 1 .. Length(f)
        BY <2>3, <3>2 DEF NoFile, Length
      <4>2. \A i : ~Freed(f, i, k)
        BY <1>1 DEF Freed
      <4>3. ClusterAt(f, Length(f)) = chain[f][Length(f)]
        BY <1>3, <4>1, <4>2, ClusterIs
      <4>4. QED
        BY <2>1, <3>2, <4>1, <4>3 DEF LastOf, Length
    <3>3. QED
      BY <3>1, <3>2
  <2>5. Length(f) # 0 => chain[f][Length(f)] \in Clusters
    <3>1. Length(f) # 0 => Length(f) \in 1 .. Length(f)
      BY <2>3
    <3>2. QED
      BY <1>3, <3>1 DEF FilesInv
  <2>6. /\ current' \in {0, Eoc} \cup Clusters
        /\ startCluster' \in 1 .. LastCluster + 1 /\ endCluster' \in 1 .. LastCluster + 1
    BY <2>2, <2>3, <2>4, <2>5 DEF Clusters
  <2>7. TypeOK'
    <3>1. startCluster' \in 0 .. LastCluster + 1 /\ endCluster' \in 0 .. LastCluster + 2
      BY <2>6
    <3>2. QED
      BY <1>1, <2>1, <2>2, <2>6, <3>1 DEF TypeOK
  <2>8. FindInv(chain)'
    BY <2>1, <2>3, <2>4, <2>6 DEF FindInv
  <2>9. QED
    BY <1>1, <1>2, <2>7, <2>8, ChainsStay DEF InOrder, ChainInv
<1>5. CASE FindOn
  <2>1. /\ pc = "find" /\ pc' = "find" /\ endCluster' = NextToFind
        /\ UNCHANGED <<file, count, startCluster, bgnCluster, setStart, current, left>>
    BY <1>5 DEF FindOn
  <2>2. endCluster' \in 0 .. LastCluster + 2 /\ endCluster' >= 1
    BY <1>3, <2>1 DEF TypeOK, NextToFind
  <2>3. TypeOK'
    BY <1>1, <2>1, <2>2 DEF TypeOK
  <2>4. FindInv(chain)'
    BY <1>1, <1>3, <2>1, <2>2 DEF FindInv, Length
  <2>5. QED
    BY <1>1, <1>2, <2>3, <2>4, ChainsStay DEF InOrder, ChainInv
<1>6. CASE FoundNone
  <2>1. TypeOK'
    BY <1>1, <1>6, ReturnTyped DEF FoundNone, TypeOK
  <2>2. FindInv(chain)'
    BY <1>6 DEF FoundNone, Return, FindInv
  <2>3. QED
    BY <1>1, <1>2, <2>1, <2>2, ChainsStay DEF InOrder, ChainInv
<1>7. QED
  BY <1>4, <1>5, <1>6

\* A cluster is found: it is the file's last, its first if it had none.
LEMMA FoundOneStep ==
    ASSUME TypeOK, NEW chain, NEW k, InOrder(chain, k), FoundOne,
           NEW x, x = file, NEW c, c = NextToFind, NEW m, m = Length(file) + 1
    PROVE  TypeOK' /\ \E s : InOrder(s, k)'
<1> USE ClustersAssumption, CountAssumption
<1>1. /\ pc = "find" /\ pc' = "idle" /\ fat[c] = Unused
      /\ searchStart' = IF current = 0 THEN c ELSE searchStart
      /\ entry' = [entry EXCEPT ![x] =
                     [first |-> IF current = 0 THEN c ELSE @.first,
                      clusters |-> @.clusters + 1]]
      /\ fat' = [y \in Clusters |-> IF y = c THEN Eoc ELSE IF y = current THEN c ELSE fat[y]]
      /\ Return /\ UNCHANGED root
  BY DEF FoundOne, IsFree, AppendCluster, Return
<1>2. /\ x \in Files /\ Length(x) < MaxCount /\ endCluster >= 1
      /\ current = IF Length(x) = 0 THEN 0 ELSE chain[x][Length(x)]
  BY <1>1 DEF InOrder, ChainInv, FindInv
<1>3. FilesInv(chain) /\ KeptApart(chain) /\ LinksInv(chain, k) /\ RestInv(chain)
  BY DEF InOrder, ChainInv
<1>4. chain \in [Files -> [Nat -> Int]] /\ k \in Nat
  BY DEF InOrder, Chains
<1>5. /\ fat \in [Clusters -> {Unused, Eoc} \cup Clusters]
      /\ entry \in [Files -> [first : {0} \cup Clusters, clusters : 0 .. LastCluster]]
      /\ \A f \in Files : Length(f) \in Nat
      /\ m \in Nat /\ m >= 1 /\ m = Length(x) + 1 /\ Length(x) = m - 1 /\ m <= LastCluster
  BY <1>2, LengthTyped DEF TypeOK
<1>6. c \in Clusters
  BY <1>2 DEF TypeOK, NextToFind, Clusters
<1>7. c \notin root /\ ~InChain(chain, c)
  BY <1>1, <1>3, <1>6, FreeIsNotInChain
<1>8. \A f \in Files : \A i \in 1 .. Length(f) : chain[f][i] \in Clusters \ root
                                                  /\ chain[f][i] # c
  BY <1>3, <1>7 DEF FilesInv, InChain
<1>9. current = IF m = 1 THEN 0 ELSE chain[x][m - 1]
  BY <1>2, <1>5
<1>10. m # 1 => current \in Clusters /\ current # c
  <2>1. m # 1 => m - 1 \in 1 .. Length(x)
    BY <1>5
  <2>2. QED
    BY <1>2, <1>8, <1>9, <2>1
<1>11. PICK ext \in [Nat -> Int] : ext = [chain[x] EXCEPT ![m] = c]
  <2>1. chain[x] \in [Nat -> Int] /\ c \in Int
    BY <1>2, <1>4, <1>6 DEF Clusters
  <2>2. QED
    BY <1>5, <2>1
<1>12. PICK s \in Chains : s = [chain EXCEPT ![x] = ext]
  BY <1>2, <1>4 DEF Chains
<1>13. /\ \A f \in Files : f # x => s[f] = chain[f]
       /\ s[x] = ext /\ ext[m] = c /\ \A i \in Nat : i # m => ext[i] = chain[x][i]
  BY <1>2, <1>4, <1>5, <1>11, <1>12
<1>14. /\ Length(x)' = m
       /\ \A f \in Files : f # x => Length(f)' = Length(f) /\ entry'[f] = entry[f]
       /\ entry'[x].first = IF m = 1 THEN c ELSE entry[x].first
       /\ entry'[x] \in [first : {0} \cup Clusters, clusters : 0 .. LastCluster]
  <2>1. current = 0 <=> m = 1
    BY <1>9, <1>10 DEF Clusters
  <2>2. entry'[x] = [first |-> IF current = 0 THEN c ELSE entry[x].first,
                     clusters |-> entry[x].clusters + 1]
    BY <1>1, <1>2, <1>5
  <2>3. entry[x].clusters + 1 = m /\ m \in 0 .. LastCluster
    BY <1>5 DEF Length
  <2>4. entry[x].first \in {0} \cup Clusters
    BY <1>2, <1>5
  <2>5. \A f \in Files : f # x => entry'[f] = entry[f]
    BY <1>1, <1>5
  <2>6. entry'[x] \in [first : {0} \cup Clusters, clusters : 0 .. LastCluster]
    BY <1>6, <2>2, <2>3, <2>4
  <2>7. QED
    BY <2>1, <2>2, <2>3, <2>5, <2>6 DEF Length
<1>15. \A i \in 1 .. m : i \in Nat /\ (i # m => i \in 1 .. Length(x))
  BY <1>5
<1>16. FilesInv(s)'
  <2>1. SUFFICES ASSUME NEW f \in Files
                 PROVE  /\ Length(f)' = 0 => entry'[f] = NoFile
                        /\ Length(f)' > 0 => entry'[f].first = s[f][1]
                        /\ \A i \in 1 .. Length(f)' : s[f][i] \in Clusters \ root
    BY <1>1 DEF FilesInv
  <2>2. CASE f = x
    <3>1. m # 1 => entry[x].first = chain[x][1]
      BY <1>2, <1>3, <1>5 DEF FilesInv
    <3>2. entry'[x].first = s[x][1]
      BY <1>13, <1>14, <1>5, <3>1
    <3>3. \A i \in 1 .. m : s[x][i] \in Clusters \ root
      BY <1>2, <1>6, <1>7, <1>8, <1>13, <1>15
    <3>4. QED
      BY <1>5, <1>14, <2>2, <3>2, <3>3
  <2>3. CASE f # x
    BY <1>3, <1>13, <1>14, <2>3 DEF FilesInv
  <2>4. QED
    BY <2>2, <2>3
<1>17. KeptApart(s)'
  <2>1. SUFFICES ASSUME NEW f \in Files, NEW g \in Files,
                        NEW i \in 1 .. Length(f)', NEW j \in 1 .. Length(g)',
                        s[f][i] = s[g][j]
                 PROVE  f = g /\ i = j
    BY DEF KeptApart
  <2>2. \A y \in Files : \A l \in 1 .. Length(y)' :
           \/ y = x /\ l = m /\ s[y][l] = c
           \/ l \in 1 .. Length(y) /\ s[y][l] = chain[y][l] /\ s[y][l] # c
    BY <1>2, <1>8, <1>13, <1>14, <1>15
  <2>3. \/ f = x /\ i = m /\ s[f][i] = c
        \/ i \in 1 .. Length(f) /\ s[f][i] = chain[f][i] /\ s[f][i] # c
    BY <2>2
  <2>4. \/ g = x /\ j = m /\ s[g][j] = c
        \/ j \in 1 .. Length(g) /\ s[g][j] = chain[g][j] /\ s[g][j] # c
    BY <2>2
  <2>5. QED
    BY <1>3, <2>1, <2>3, <2>4 DEF KeptApart
<1>18. LinksInv(s, k)'
  <2>1. SUFFICES ASSUME NEW f \in Files, NEW i \in 1 .. Length(f)'
                 PROVE  fat'[s[f][i]] = IF i = Length(f)' THEN Eoc ELSE s[f][i + 1]
    BY <1>1 DEF LinksInv, Freed
  <2>2. \A g \in Files : \A j \in 1 .. Length(g) :
          fat[chain[g][j]] = IF j = Length(g) THEN Eoc ELSE chain[g][j + 1]
    BY <1>1, <1>3 DEF LinksInv, Freed
  <2>3. CASE f = x
    <3>1. CASE i = m
      BY <1>1, <1>6, <1>13, <1>14, <2>3, <3>1
    <3>2. CASE i = m - 1
      <4>1. i \in Nat /\ i # m /\ i + 1 = m /\ m # 1
        BY <1>5, <2>1, <3>2
      <4>2. s[x][i] = current /\ s[x][i + 1] = c
        BY <1>9, <1>13, <3>2, <4>1
      <4>3. fat'[current] = c
        BY <1>1, <1>10, <4>1
      <4>4. QED
        BY <1>14, <2>3, <4>1, <4>2, <4>3
    <3>3. CASE i # m /\ i # m - 1
      <4>1. /\ i \in Nat /\ i + 1 \in Nat /\ i + 1 # m /\ m # 1
            /\ i \in 1 .. Length(x) /\ m - 1 \in 1 .. Length(x) /\ i # Length(x)
        BY <1>5, <1>14, <2>1, <2>3, <3>3
      <4>2. s[x][i] = chain[x][i] /\ s[x][i + 1] = chain[x][i + 1]
        BY <1>13, <3>3, <4>1
      <4>3. chain[x][i] # current
        BY <1>2, <1>3, <1>9, <3>3, <4>1 DEF KeptApart
      <4>4. fat'[chain[x][i]] = fat[chain[x][i]]
        BY <1>1, <1>2, <1>8, <4>1, <4>3
      <4>5. fat[chain[x][i]] = chain[x][i + 1]
        BY <1>2, <2>2, <4>1
      <4>6. QED
        BY <1>14, <2>3, <3>3, <4>2, <4>4, <4>5
    <3>4. QED
      BY <3>1, <3>2, <3>3
  <2>4. CASE f # x
    <3>1. i \in 1 .. Length(f) /\ Length(f)' = Length(f) /\ s[f] = chain[f]
      BY <1>13, <1>14, <2>1, <2>4
    <3>2. chain[f][i] # current
      <4>1. CASE m = 1
        BY <1>8, <1>9, <3>1, <4>1 DEF Clusters
      <4>2. CASE m # 1
        <5>1. m - 1 \in 1 .. Length(x)
          BY <1>5, <4>2
        <5>2. QED
          BY <1>2, <1>3, <1>9, <2>4, <3>1, <4>2, <5>1 DEF KeptApart
      <4>3. QED
        BY <4>1, <4>2
    <3>3. fat'[chain[f][i]] = fat[chain[f][i]]
      BY <1>1, <1>8, <3>1, <3>2
    <3>4. QED
      BY <2>2, <3>1, <3>3
  <2>5. QED
    BY <2>3, <2>4
<1>19. RestInv(s)'
  <2>1. \A y \in Clusters : ~InRun(y) /\ ~InRun(y)'
    BY <1>1 DEF InRun
  <2>2. \A y \in Clusters : ~InChain(s, y)' => ~InChain(chain, y) /\ y # c
    <3>1. SUFFICES ASSUME NEW y \in Clusters, InChain(chain, y) \/ y = c
                   PROVE  InChain(s, y)'
      OBVIOUS
    <3>2. CASE y = c
      <4>1. m \in 1 .. m
        BY <1>5
      <4>2. m \in 1 .. Length(x)' /\ s[x][m] = c
        BY <1>13, <1>14, <4>1, Zenon
      <4>3. QED
        BY <1>2, <3>2, <4>2 DEF InChain
    <3>3. CASE InChain(chain, y)
      <4>1. PICK f \in Files : \E i \in 1 .. Length(f) : y = chain[f][i]
        BY <3>3 DEF InChain
      <4>2. PICK i \in 1 .. Length(f) : y = chain[f][i]
        BY <4>1
      <4>3. i \in 1 .. Length(f) /\ Length(f) \in Nat
        BY <1>5
      <4>4. CASE f # x
        BY <1>13, <1>14, <4>2, <4>3, <4>4 DEF InChain
      <4>5. CASE f = x
        <5>1. i \in 1 .. m /\ i \in Nat /\ i # m
          BY <1>5, <4>3, <4>5
        <5>2. i \in 1 .. Length(x)' /\ s[x][i] = y
          BY <1>13, <1>14, <4>2, <4>5, <5>1, Zenon
        <5>3. QED
          BY <1>2, <5>2 DEF InChain
      <4>6. QED
        BY <4>4, <4>5
    <3>4. QED
      BY <3>1, <3>2, <3>3
  <2>3. m # 1 => InChain(chain, current)
    <3>1. m # 1 => m - 1 \in 1 .. Length(x)
      BY <1>5
    <3>2. QED
      BY <1>2, <1>9, <3>1 DEF InChain
  <2>4. \A y \in Clusters : ~InChain(chain, y) /\ y # c => fat'[y] = fat[y]
    <3>1. m = 1 => current \notin Clusters
      BY <1>9 DEF Clusters
    <3>2. QED
      BY <1>1, <2>3, <3>1
  <2>5. \A y \in root : y \in Clusters /\ y # c /\ fat[y] # Unused
    BY <1>3, <1>7 DEF RestInv
  <2>6. \A y \in Clusters : y \in root => ~InChain(chain, y)
    BY <1>8 DEF InChain
  <2>7. QED
    BY <1>1, <1>3, <2>1, <2>2, <2>4, <2>5, <2>6 DEF RestInv
<1>20. SearchInv' /\ LinkInv(s)' /\ FindInv(s)' /\ FreeInv(s, k)'
  BY <1>1 DEF SearchInv, LinkInv, FindInv, FreeInv
<1>21. TypeOK'
  <2>1. fat' \in [Clusters -> {Unused, Eoc} \cup Clusters]
    BY <1>1, <1>5, <1>6
  <2>2. searchStart' \in 1 .. LastCluster + 1
    BY <1>1, <1>6 DEF TypeOK, Clusters
  <2>3. entry' \in [Files -> [first : {0} \cup Clusters, clusters : 0 .. LastCluster]]
    <3>1. entry' = [entry EXCEPT ![x] = entry'[x]]
      BY <1>1, <1>2, <1>5
    <3>2. QED
      BY <1>5, <1>14, <3>1
  <2>4. QED
    BY <1>1, <2>1, <2>2, <2>3, ReturnTyped DEF TypeOK
<1>22. QED
  BY <1>4, <1>12, <1>16, <1>17, <1>18, <1>19, <1>20, <1>21 DEF InOrder, ChainInv

\* A chain is cut: what is freed begins behind the clusters that stay.
LEMMA CutStep ==
    ASSUME TypeOK, NEW chain, NEW k, InOrder(chain, k), Cut
    PROVE  TypeOK' /\ \E j : InOrder(chain, j)'
<1> USE ClustersAssumption, CountAssumption
<1>0. PICK l : l = left'
  OBVIOUS
<1>1. /\ pc = "idle" /\ pc' = "free"
      /\ UNCHANGED <<fat, searchStart, root, entry, count, startCluster, bgnCluster,
                     endCluster, setStart>>
  BY DEF Cut, searchVars
<1>2. PICK x \in Files : /\ entry[x] # NoFile /\ file' = x
                         /\ l = left' /\ l \in 0 .. entry[x].clusters - 1
                         /\ current' = ClusterAt(x, l + 1)
  BY <1>0, Zenon DEF Cut
<1>3. FilesInv(chain) /\ KeptApart(chain) /\ LinksInv(chain, k) /\ RestInv(chain)
  BY DEF InOrder, ChainInv
<1>4. /\ Length(x) \in 0 .. LastCluster /\ Length(x) \in Nat /\ LastCluster \in Nat
      /\ l \in 0 .. Length(x) - 1
  BY <1>2, LengthTyped, Zenon DEF Length
<1>5. PICK j \in Nat : j = l + 1
  BY <1>4
<1>6. l \in 0 .. LastCluster /\ l < j /\ j \in 1 .. Length(x)
  BY <1>4, <1>5
<1>7. current' = chain[x][j]
  <2>1. \A i : ~Freed(x, i, k)
    BY <1>1 DEF Freed
  <2>2. QED
    BY <1>2, <1>3, <1>5, <1>6, <2>1, ClusterIs
<1>8. current' \in Clusters
  BY <1>3, <1>6, <1>7 DEF FilesInv
<1>9. \A f : Length(f)' = Length(f)
  BY <1>1 DEF Length
<1>10. FilesInv(chain)' /\ KeptApart(chain)'
  BY <1>1, <1>3, <1>9 DEF FilesInv, KeptApart
<1>11. LinksInv(chain, j)'
  <2>1. \A f \in Files : \A i \in 1 .. Length(f) : ~Freed(f, i, k) /\ ~Freed(f, i, j)'
    <3>1. SUFFICES ASSUME NEW f \in Files, NEW i \in 1 .. Length(f)
                   PROVE  ~(l < i /\ i < j)
      BY <1>1, <1>2, Zenon DEF Freed
    <3>2. i \in Nat
      BY LengthTyped
    <3>3. QED
      BY <1>5, <1>6, <3>2
  <2>2. QED
    BY <1>1, <1>3, <1>9, <2>1 DEF LinksInv
<1>12. RestInv(chain)'
  <2>1. \A c : InChain(chain, c)' = InChain(chain, c)
    BY <1>1, <1>9 DEF InChain
  <2>2. \A c : ~InRun(c) /\ ~InRun(c)'
    BY <1>1 DEF InRun
  <2>3. QED
    BY <1>1, <1>3, <2>1, <2>2 DEF RestInv
<1>13. FreeInv(chain, j)'
  <2>1. j <= Length(x)
    BY <1>4, <1>6
  <2>2. QED
    BY <1>1, <1>2, <1>6, <1>7, <1>9, <2>1, Zenon DEF FreeInv
<1>14. SearchInv' /\ LinkInv(chain)' /\ FindInv(chain)'
  BY <1>1 DEF SearchInv, LinkInv, FindInv
<1>15. TypeOK'
  <2>1. left' \in 0 .. LastCluster
    BY <1>2, <1>6, Zenon
  <2>2. QED
    BY <1>1, <1>2, <1>8, <2>1 DEF TypeOK
<1>16. InOrder(chain, j)'
  BY <1>5, <1>10, <1>11, <1>12, <1>13, <1>14 DEF InOrder, ChainInv
<1>17. QED
  BY <1>15, <1>16

\* What is known while a chain is freed.
LEMMA FreeTyped ==
    ASSUME TypeOK, NEW chain, NEW k, InOrder(chain, k), pc \in {"free", "end"}
    PROVE  /\ file \in Files /\ left < k /\ k \in Nat /\ left \in Nat
           /\ Length(file) \in Nat
           /\ chain \in [Files -> [Nat -> Int]]
           /\ pc = "free" => k <= Length(file) /\ k \in 1 .. Length(file)
                             /\ current = chain[file][k] /\ current \in Clusters
           /\ pc = "end" => k = Length(file) + 1
           /\ \A f \in Files : \A i \in 1 .. Length(f) : chain[f][i] \in Clusters \ root
           /\ \A c \in Clusters : ~InRun(c)
           /\ FilesInv(chain) /\ KeptApart(chain) /\ LinksInv(chain, k) /\ RestInv(chain)
<1>1. FilesInv(chain) /\ KeptApart(chain) /\ LinksInv(chain, k) /\ RestInv(chain)
      /\ FreeInv(chain, k) /\ chain \in [Files -> [Nat -> Int]] /\ k \in Nat
  BY DEF InOrder, ChainInv, Chains
<1>2. /\ file \in Files /\ left < k
      /\ pc = "free" => k <= Length(file) /\ current = chain[file][k]
      /\ pc = "end" => k = Length(file) + 1
  BY <1>1 DEF FreeInv
<1>3. left \in Nat /\ Length(file) \in Nat
  <2>1. left \in Nat
    BY ClustersAssumption DEF TypeOK
  <2>2. QED
    BY <1>2, <2>1, LengthTyped
<1>4. \A f \in Files : \A i \in 1 .. Length(f) : chain[f][i] \in Clusters \ root
  BY <1>1 DEF FilesInv
<1>5. pc = "free" => k \in 1 .. Length(file)
  BY <1>1, <1>2, <1>3
<1>6. \A c \in Clusters : ~InRun(c)
  BY DEF InRun
<1>7. QED
  BY <1>1, <1>2, <1>3, <1>4, <1>5, <1>6

\* One more cluster of the chain is freed.
LEMMA FreeOneStep ==
    ASSUME TypeOK, NEW chain, NEW k, InOrder(chain, k), FreeOne,
           NEW x, x = file, NEW c, c = current
    PROVE  TypeOK' /\ \E j : InOrder(chain, j)'
<1> USE ClustersAssumption, CountAssumption
<1>1. /\ pc = "free" /\ fat' = [fat EXCEPT ![c] = Unused]
      /\ searchStart' = IF c < searchStart THEN c ELSE searchStart
      /\ current' = fat[c] /\ pc' = IF fat[c] = Eoc THEN "end" ELSE "free"
      /\ UNCHANGED <<root, entry, file, count, startCluster, bgnCluster,
                     endCluster, setStart, left>>
  BY DEF FreeOne, AfterFreed, searchVars
<1>2. /\ x \in Files /\ left < k /\ k \in Nat /\ left \in Nat /\ Length(x) \in Nat
      /\ k \in 1 .. Length(x) /\ c = chain[x][k] /\ c \in Clusters
      /\ \A f \in Files : \A i \in 1 .. Length(f) : chain[f][i] \in Clusters \ root
      /\ \A y \in Clusters : ~InRun(y)
      /\ FilesInv(chain) /\ KeptApart(chain) /\ LinksInv(chain, k) /\ RestInv(chain)
  BY <1>1, FreeTyped
<1>3. PICK j \in Nat : j = k + 1
  BY <1>2
<1>4. fat \in [Clusters -> {Unused, Eoc} \cup Clusters]
  BY DEF TypeOK
<1>5. fat'[c] = Unused /\ \A y \in Clusters : y # c => fat'[y] = fat[y]
  BY <1>1, <1>2, <1>4
<1>6. \A f : Length(f)' = Length(f)
  BY <1>1 DEF Length
<1>7. fat[c] = IF k = Length(x) THEN Eoc ELSE chain[x][k + 1]
  <2>1. ~Freed(x, k, k)
    BY <1>2 DEF Freed
  <2>2. QED
    BY <1>2, <2>1 DEF LinksInv
<1>8. k # Length(x) => k + 1 \in 1 .. Length(x) /\ chain[x][k + 1] \in Clusters
  <2>1. k # Length(x) => k + 1 \in 1 .. Length(x)
    BY <1>2
  <2>2. QED
    BY <1>2, <2>1
<1>9. fat[c] = Eoc <=> k = Length(x)
  BY <1>7, <1>8 DEF Eoc, Clusters
<1>10. FilesInv(chain)' /\ KeptApart(chain)'
  BY <1>1, <1>2, <1>6 DEF FilesInv, KeptApart
<1>11. LinksInv(chain, j)'
  <2>1. SUFFICES ASSUME NEW f \in Files, NEW i \in 1 .. Length(f)
                 PROVE  fat'[chain[f][i]] = IF Freed(f, i, j)' THEN Unused
                                            ELSE IF i = Length(f) THEN Eoc
                                            ELSE chain[f][i + 1]
    BY <1>6 DEF LinksInv
  <2>2. Length(f) \in Nat
    BY LengthTyped
  <2>3. pc' \in {"free", "end"} /\ file' = x /\ left' = left
    BY <1>1
  <2>4. CASE f = x /\ i = k
    <3>1. Freed(f, i, j)'
      BY <1>2, <1>3, <2>3, <2>4 DEF Freed
    <3>2. QED
      BY <1>2, <1>5, <2>4, <3>1
  <2>5. CASE ~(f = x /\ i = k)
    <3>1. chain[f][i] # c /\ chain[f][i] \in Clusters
      BY <1>2, <2>5 DEF KeptApart
    <3>2. Freed(f, i, j)' <=> Freed(f, i, k)
      BY <1>1, <1>2, <1>3, <2>2, <2>3, <2>5 DEF Freed
    <3>3. QED
      BY <1>2, <1>5, <3>1, <3>2 DEF LinksInv
  <2>6. QED
    BY <2>4, <2>5
<1>12. RestInv(chain)'
  <2>1. \A y : InChain(chain, y)' = InChain(chain, y)
    BY <1>1, <1>6 DEF InChain
  <2>2. \A y : ~InRun(y)'
    BY <1>1 DEF InRun
  <2>3. InChain(chain, c) /\ c \notin root
    BY <1>2 DEF InChain
  <2>4. QED
    BY <1>1, <1>2, <1>5, <2>1, <2>2, <2>3 DEF RestInv
<1>13. FreeInv(chain, j)'
  <2>1. pc' = "free" => j <= Length(x)' /\ current' = chain[x][j]
    BY <1>1, <1>2, <1>3, <1>6, <1>7, <1>8, <1>9
  <2>2. pc' = "end" => j = Length(x)' + 1
    BY <1>1, <1>3, <1>6, <1>9
  <2>3. left' < j
    BY <1>1, <1>2, <1>3
  <2>4. file' = x
    BY <1>1
  <2>5. QED
    BY <1>2, <2>1, <2>2, <2>3, <2>4 DEF FreeInv
<1>14. SearchInv' /\ LinkInv(chain)' /\ FindInv(chain)'
  BY <1>1 DEF SearchInv, LinkInv, FindInv
<1>15. TypeOK'
  <2>1. fat' \in [Clusters -> {Unused, Eoc} \cup Clusters]
    BY <1>1, <1>4
  <2>2. searchStart' \in 1 .. LastCluster + 1
    BY <1>1, <1>2 DEF TypeOK, Clusters
  <2>3. current' \in {0, Eoc} \cup Clusters
    BY <1>1, <1>7, <1>8
  <2>4. QED
    BY <1>1, <2>1, <2>2, <2>3 DEF TypeOK
<1>16. InOrder(chain, j)'
  <2>1. chain \in Chains
    BY DEF InOrder
  <2>2. QED
    BY <1>3, <1>10, <1>11, <1>12, <1>13, <1>14, <2>1 DEF InOrder, ChainInv
<1>17. QED
  BY <1>15, <1>16

\* The file has its new length: the last cluster that stays ends its chain.
LEMMA EndChainStep ==
    ASSUME TypeOK, NEW chain, NEW k, InOrder(chain, k), EndChain,
           NEW x, x = file, NEW l, l = left
    PROVE  TypeOK' /\ InOrder(chain, k)'
<1> USE ClustersAssumption, CountAssumption
<1>1. /\ pc = "end" /\ pc' = "idle" /\ Return /\ UNCHANGED <<searchStart, root>>
      /\ l = 0 => entry' = [entry EXCEPT ![x] = NoFile] /\ fat' = fat
      /\ l # 0 => /\ entry' = [entry EXCEPT ![x].clusters = l]
                  /\ fat' = [fat EXCEPT ![ClusterAt(x, l)] = Eoc]
  BY DEF EndChain, Return
<1>2. /\ x \in Files /\ l < k /\ k \in Nat /\ l \in Nat /\ Length(x) \in Nat
      /\ k = Length(x) + 1
      /\ \A f \in Files : \A i \in 1 .. Length(f) : chain[f][i] \in Clusters \ root
      /\ \A y \in Clusters : ~InRun(y)
      /\ FilesInv(chain) /\ KeptApart(chain) /\ LinksInv(chain, k) /\ RestInv(chain)
  BY <1>1, FreeTyped
<1>3. /\ fat \in [Clusters -> {Unused, Eoc} \cup Clusters]
      /\ entry \in [Files -> [first : {0} \cup Clusters, clusters : 0 .. LastCluster]]
      /\ Length(x) \in 0 .. LastCluster
  BY <1>2, LengthTyped DEF TypeOK
<1>4. \A f \in Files : \A i \in 1 .. Length(f) : Freed(f, i, k) <=> f = x /\ l < i
  <2>1. SUFFICES ASSUME NEW f \in Files, NEW i \in 1 .. Length(f)
                 PROVE  f = x => i < k
    BY <1>1 DEF Freed
  <2>2. QED
    BY <1>2
<1>5. l # 0 => l \in 1 .. Length(x) /\ ClusterAt(x, l) = chain[x][l]
  <2>1. SUFFICES ASSUME l # 0 PROVE l \in 1 .. Length(x) /\ ClusterAt(x, l) = chain[x][l]
    OBVIOUS
  <2>2. l \in 1 .. Length(x)
    BY <1>2, <2>1
  <2>3. \A i \in 1 .. l - 1 : ~Freed(x, i, k)
    BY <1>2 DEF Freed
  <2>4. QED
    BY <1>2, <2>2, <2>3, ClusterIs
<1>6. /\ Length(x)' = l /\ entry'[x].first = IF l = 0 THEN 0 ELSE entry[x].first
      /\ l = 0 => entry'[x] = NoFile
      /\ \A f \in Files : f # x => entry'[f] = entry[f] /\ Length(f)' = Length(f)
      /\ entry' \in [Files -> [first : {0} \cup Clusters, clusters : 0 .. LastCluster]]
  <2>1. l \in 0 .. LastCluster
    BY <1>2, <1>3
  <2>2. CASE l = 0
    <3>1. NoFile \in [first : {0} \cup Clusters, clusters : 0 .. LastCluster]
      BY DEF NoFile
    <3>2. QED
      BY <1>1, <1>2, <1>3, <2>2, <3>1 DEF Length, NoFile
  <2>3. CASE l # 0
    <3>1. entry'[x] = [entry[x] EXCEPT !.clusters = l]
      BY <1>1, <1>2, <1>3, <2>3
    <3>2. \A f \in Files : f # x => entry'[f] = entry[f]
      BY <1>1, <1>3, <2>3
    <3>3. entry' \in [Files -> [first : {0} \cup Clusters, clusters : 0 .. LastCluster]]
      BY <1>1, <1>2, <1>3, <2>1, <2>3
    <3>4. QED
      BY <1>2, <1>3, <2>3, <3>1, <3>2, <3>3 DEF Length
  <2>4. QED
    BY <2>2, <2>3
<1>7. \A f \in Files : \A i \in 1 .. Length(f)' :
        i \in 1 .. Length(f) /\ (f = x => i <= l) /\ (f # x => Length(f)' = Length(f))
  BY <1>2, <1>6
<1>8. \A f \in Files : \A i \in 1 .. Length(f) :
        fat'[chain[f][i]] = IF f = x /\ i = l THEN Eoc ELSE fat[chain[f][i]]
  <2>1. SUFFICES ASSUME NEW f \in Files, NEW i \in 1 .. Length(f)
                 PROVE  fat'[chain[f][i]] = IF f = x /\ i = l THEN Eoc ELSE fat[chain[f][i]]
    OBVIOUS
  <2>2. chain[f][i] \in Clusters
    BY <1>2
  <2>3. CASE l = 0
    BY <1>1, <1>2, <2>3
  <2>4. CASE l # 0
    <3>1. chain[f][i] = chain[x][l] => f = x /\ i = l
      BY <1>2, <1>5, <2>4 DEF KeptApart
    <3>2. fat' = [fat EXCEPT ![chain[x][l]] = Eoc]
      BY <1>1, <1>5, <2>4
    <3>3. QED
      BY <1>3, <2>2, <3>1, <3>2
  <2>5. QED
    BY <2>3, <2>4
<1>9. FilesInv(chain)'
  <2>1. SUFFICES ASSUME NEW f \in Files
                 PROVE  /\ Length(f)' = 0 => entry'[f] = NoFile
                        /\ Length(f)' > 0 => entry'[f].first = chain[f][1]
                        /\ \A i \in 1 .. Length(f)' : chain[f][i] \in Clusters \ root
    BY <1>1 DEF FilesInv
  <2>2. \A i \in 1 .. Length(f)' : chain[f][i] \in Clusters \ root
    BY <1>2, <1>7
  <2>3. CASE f = x
    <3>1. l > 0 => Length(x) > 0
      BY <1>2
    <3>2. l > 0 => entry[x].first = chain[x][1]
      BY <1>2, <3>1 DEF FilesInv
    <3>3. QED
      BY <1>6, <2>2, <2>3, <3>2
  <2>4. CASE f # x
    BY <1>2, <1>6, <2>2, <2>4 DEF FilesInv
  <2>5. QED
    BY <2>3, <2>4
<1>10. KeptApart(chain)'
  BY <1>2, <1>7 DEF KeptApart
<1>11. LinksInv(chain, k)'
  <2>1. SUFFICES ASSUME NEW f \in Files, NEW i \in 1 .. Length(f)'
                 PROVE  fat'[chain[f][i]] = IF i = Length(f)' THEN Eoc ELSE chain[f][i + 1]
    BY <1>1 DEF LinksInv, Freed
  <2>2. i \in 1 .. Length(f) /\ (f = x => i <= l) /\ (f # x => Length(f)' = Length(f))
    BY <1>7
  <2>3. ~Freed(f, i, k)
    <3>1. f = x => ~(l < i)
      BY <1>2, <2>2
    <3>2. QED
      BY <1>4, <2>2, <3>1
  <2>4. fat[chain[f][i]] = IF i = Length(f) THEN Eoc ELSE chain[f][i + 1]
    BY <1>2, <2>2, <2>3 DEF LinksInv
  <2>5. fat'[chain[f][i]] = IF f = x /\ i = l THEN Eoc ELSE fat[chain[f][i]]
    BY <1>8, <2>2
  <2>6. CASE f = x
    <3>1. i # l => i # Length(x)
      BY <1>2, <2>2, <2>6
    <3>2. QED
      BY <1>6, <2>4, <2>5, <2>6, <3>1
  <2>7. CASE f # x
    BY <2>2, <2>4, <2>5, <2>7
  <2>8. QED
    BY <2>6, <2>7
<1>12. RestInv(chain)'
  <2>1. \A y \in Clusters : ~InRun(y)'
    BY <1>1 DEF InRun
  <2>2. \A y \in Clusters : ~InChain(chain, y) => fat'[y] = fat[y]
    <3>1. CASE l = 0
      BY <1>1, <3>1
    <3>2. CASE l # 0
      <4>1. InChain(chain, chain[x][l])
        BY <1>2, <1>5, <3>2 DEF InChain
      <4>2. QED
        BY <1>1, <1>3, <1>5, <3>2, <4>1
    <3>3. QED
      BY <3>1, <3>2
  <2>3. ASSUME NEW y \in Clusters, ~InChain(chain, y)', InChain(chain, y)
        PROVE  fat'[y] = Unused
    <3>1. PICK f \in Files : \E i \in 1 .. Length(f) : y = chain[f][i]
      BY <2>3 DEF InChain
    <3>2. PICK i \in 1 .. Length(f) : y = chain[f][i]
      BY <3>1
    <3>3. i \notin 1 .. Length(f)'
      BY <2>3, <3>2 DEF InChain
    <3>4. f = x /\ l < i
      BY <1>2, <1>6, <3>2, <3>3
    <3>5. Freed(f, i, k) /\ i # l
      BY <1>2, <1>4, <3>4
    <3>6. QED
      BY <1>2, <1>8, <3>2, <3>5 DEF LinksInv
  <2>4. \A y \in Clusters : y \in root => ~InChain(chain, y)
    BY <1>2 DEF InChain
  <2>5. QED
    BY <1>1, <1>2, <2>1, <2>2, <2>3, <2>4 DEF RestInv
<1>13. SearchInv' /\ LinkInv(chain)' /\ FindInv(chain)' /\ FreeInv(chain, k)'
  BY <1>1 DEF SearchInv, LinkInv, FindInv, FreeInv
<1>14. TypeOK'
  <2>1. fat' \in [Clusters -> {Unused, Eoc} \cup Clusters]
    BY <1>1, <1>3
  <2>2. QED
    BY <1>1, <1>6, <2>1, ReturnTyped DEF TypeOK
<1>15. QED
  BY <1>9, <1>10, <1>11, <1>12, <1>13, <1>14 DEF InOrder, ChainInv

-----------------------------------------------------------------------------
(* What follows from them. *)

\* The volume is empty where it begins, but for the root directory.
LEMMA StartsInOrder ==
    ASSUME Init
    PROVE  TypeOK /\ \E chain : InOrder(chain, 0)
<1> USE ClustersAssumption, CountAssumption
<1>1. /\ root \in {{}, {2}} /\ fat = [c \in Clusters |-> IF c \in root THEN Eoc ELSE Unused]
      /\ searchStart = 1 /\ entry = [f \in Files |-> NoFile]
      /\ pc = "idle" /\ file = NoName
      /\ count = 0 /\ startCluster = 0 /\ bgnCluster = 0 /\ endCluster = 0
      /\ setStart = TRUE /\ current = 0 /\ left = 0
  BY DEF Init, Idle
<1>2. root \subseteq Clusters
  BY <1>1 DEF Clusters
<1>3. TypeOK
  <2>1. fat \in [Clusters -> {Unused, Eoc} \cup Clusters]
    BY <1>1
  <2>2. entry \in [Files -> [first : {0} \cup Clusters, clusters : 0 .. LastCluster]]
    BY <1>1 DEF NoFile
  <2>3. QED
    BY <1>1, <1>2, <2>1, <2>2 DEF TypeOK
<1>4. PICK chain : chain \in Chains
  <2>1. [f \in Files |-> [i \in Nat |-> 0]] \in Chains
    BY DEF Chains
  <2>2. QED
    BY <2>1
<1>5. \A f \in Files : entry[f] = NoFile /\ Length(f) = 0
  BY <1>1 DEF Length, NoFile
<1>6. FilesInv(chain) /\ KeptApart(chain) /\ LinksInv(chain, 0)
  BY <1>5 DEF FilesInv, KeptApart, LinksInv
<1>7. RestInv(chain)
  <2>1. \A c : ~InRun(c)
    BY <1>1 DEF InRun
  <2>2. Eoc # Unused
    BY DEF Eoc, Unused
  <2>3. QED
    BY <1>1, <1>2, <2>1, <2>2 DEF RestInv
<1>8. SearchInv /\ LinkInv(chain) /\ FindInv(chain) /\ FreeInv(chain, 0)
  BY <1>1 DEF SearchInv, LinkInv, FindInv, FreeInv
<1>9. InOrder(chain, 0)
  BY <1>4, <1>6, <1>7, <1>8 DEF InOrder, ChainInv
<1>10. QED
  BY <1>3, <1>9

\* A step that changes nothing.
LEMMA StutterStep ==
    ASSUME TypeOK, NEW chain, NEW k, InOrder(chain, k), UNCHANGED vars
    PROVE  TypeOK' /\ InOrder(chain, k)'
<1>1. UNCHANGED <<fat, searchStart, root, entry, pc, file, count, startCluster,
                  bgnCluster, endCluster, setStart, current, left>>
  BY DEF vars, localVars, searchVars
<1>2. TypeOK'
  BY <1>1 DEF TypeOK
<1>3. \A f : Length(f)' = Length(f)
  BY <1>1 DEF Length
<1>4. FilesInv(chain)' /\ KeptApart(chain)'
  BY <1>1, <1>3 DEF InOrder, ChainInv, FilesInv, KeptApart
<1>5. LinksInv(chain, k)'
  BY <1>1, <1>3 DEF InOrder, ChainInv, LinksInv, Freed
<1>6. LastInRun' = LastInRun
  BY <1>1 DEF LastInRun
<1>7. \A c : (InChain(chain, c)' <=> InChain(chain, c)) /\ (InRun(c)' <=> InRun(c))
  BY <1>1, <1>3, <1>6 DEF InChain, InRun
<1>8. RestInv(chain)'
  BY <1>1, <1>7 DEF InOrder, ChainInv, RestInv
<1>9. SearchInv' /\ FreeInv(chain, k)'
  BY <1>1, <1>3 DEF InOrder, ChainInv, SearchInv, FreeInv
<1>10. LinkInv(chain)'
  BY <1>1, <1>6, <1>7 DEF InOrder, ChainInv, LinkInv
<1>11. FindInv(chain)'
  BY <1>1, <1>3 DEF InOrder, ChainInv, FindInv
<1>12. QED
  BY <1>2, <1>4, <1>5, <1>8, <1>9, <1>10, <1>11 DEF InOrder, ChainInv

\* Every step leaves the volume in order, with other chains perhaps.
LEMMA StepKeepsOrder ==
    ASSUME VolumeInv, [Next]_vars
    PROVE  VolumeInv'
<1>1. PICK chain, k : InOrder(chain, k)
  BY DEF VolumeInv
<1>2. TypeOK
  BY DEF VolumeInv
<1>3. SUFFICES TypeOK' /\ \E s, j : InOrder(s, j)'
  BY DEF VolumeInv
<1>4. CASE Mount
  BY <1>1, <1>2, <1>4, MountStep
<1>5. CASE CreateContiguous \/ SearchOn \/ NoRoom
  BY <1>1, <1>2, <1>5, SearchStep
<1>6. CASE RunFound
  BY <1>1, <1>2, <1>6, RunFoundStep
<1>7. CASE LinkOne
  BY <1>1, <1>2, <1>7, LinkStep
<1>8. CASE Linked
  <2>1. PICK x, b, n : x = file /\ b = bgnCluster /\ n = count
    OBVIOUS
  <2>2. QED
    BY <1>1, <1>2, <1>8, <2>1, LinkedStep
<1>9. CASE Grow \/ FindOn \/ FoundNone
  BY <1>1, <1>2, <1>9, FindStep
<1>10. CASE FoundOne
  <2>1. PICK x, c, m : x = file /\ c = NextToFind /\ m = Length(file) + 1
    OBVIOUS
  <2>2. QED
    BY <1>1, <1>2, <1>10, <2>1, FoundOneStep
<1>11. CASE Cut
  BY <1>1, <1>2, <1>11, CutStep
<1>12. CASE FreeOne
  <2>1. PICK x, c : x = file /\ c = current
    OBVIOUS
  <2>2. QED
    BY <1>1, <1>2, <1>12, <2>1, FreeOneStep
<1>13. CASE EndChain
  <2>1. PICK x, l : x = file /\ l = left
    OBVIOUS
  <2>2. QED
    BY <1>1, <1>2, <1>13, <2>1, EndChainStep
<1>14. CASE UNCHANGED vars
  BY <1>1, <1>2, <1>14, StutterStep
<1>15. QED
  BY <1>4, <1>5, <1>6, <1>7, <1>8, <1>9, <1>10, <1>11, <1>12, <1>13, <1>14 DEF Next, Loops

-----------------------------------------------------------------------------
(* The range of a file in one piece.                                                    *)

\* The first place from which g does not lead to the one behind it.
Stop(g, first, top) ==
    CHOOSE c \in first .. top : g[c] # c + 1 /\ \A d \in first .. c - 1 : g[d] = d + 1

LEMMA FirstStop ==
    ASSUME NEW g, NEW first \in Nat, NEW top \in Nat, NEW last \in first .. top,
           g[last] # last + 1, \A d \in first .. last - 1 : g[d] = d + 1
    PROVE  Stop(g, first, top) = last
<1> DEFINE Stops(c) == g[c] # c + 1 /\ \A d \in first .. c - 1 : g[d] = d + 1
           found == CHOOSE c \in first .. top : Stops(c)
<1>1. last \in first .. top /\ Stops(last)
  OBVIOUS
<1>2. \A c \in first .. top : Stops(c) => c = last
  <2>1. SUFFICES ASSUME NEW c \in first .. top, Stops(c), c # last PROVE FALSE
    OBVIOUS
  <2>2. /\ c < last => c \in first .. last - 1
        /\ c > last => last \in first .. c - 1
        /\ c < last \/ c > last
    BY <2>1
  <2>3. QED
    BY <2>1, <2>2
<1>3. found \in first .. top /\ Stops(found)
  BY <1>1, Zenon
<1>4. QED
  BY <1>2, <1>3 DEF Stop

LEMMA RangeIs ==
    ASSUME NEW f
    PROVE  contiguousRange(f) =
             LET last == Stop(fat, entry[f].first, LastCluster)
             IN  IF fat[last] = Eoc THEN entry[f].first .. last ELSE {}
  BY DEF contiguousRange, Stop

\* For a chain that the fat follows.
LEMMA RangeShows ==
    ASSUME VolumeInv
    PROVE  RangeIsTheFile
<1>1. TypeOK
  BY DEF VolumeInv
<1>2. PICK chain, k : InOrder(chain, k)
  BY DEF VolumeInv
<1>3. FilesInv(chain) /\ LinksInv(chain, k)
  BY <1>2 DEF InOrder, ChainInv
<1>4. SUFFICES ASSUME NEW f \in AtRest, entry[f] # NoFile
               PROVE  contiguousRange(f) =
                        LET first == entry[f].first
                            last == first + entry[f].clusters - 1
                        IN  IF \A i \in 1 .. entry[f].clusters : ClusterAt(f, i) = first + i - 1
                            THEN first .. last ELSE {}
  BY DEF RangeIsTheFile
<1> DEFINE first == entry[f].first
           n == Length(f)
           InOnePiece == \A i \in 1 .. n : chain[f][i] = first + i - 1
<1>5. f \in Files /\ n \in Nat /\ n > 0 /\ LastCluster \in Nat /\ \A i : ~Freed(f, i, k)
  <2>1. f \in Files /\ \A i : ~Freed(f, i, k)
    BY DEF AtRest, Freed
  <2>2. n \in Nat /\ LastCluster \in Nat
    BY <1>1, <2>1, LengthTyped
  <2>3. n # 0
    BY <1>3, <1>4, <2>1 DEF FilesInv
  <2>4. QED
    BY <2>1, <2>2, <2>3
<1>6. \A i \in 1 .. n : ClusterAt(f, i) = chain[f][i]
  BY <1>1, <1>3, <1>5, ClusterIs
<1>7. first = chain[f][1] /\ \A i \in 1 .. n : chain[f][i] \in 2 .. LastCluster
  BY <1>3, <1>5 DEF FilesInv, Clusters
<1>8. \A i \in 1 .. n : fat[chain[f][i]] = IF i = n THEN Eoc ELSE chain[f][i + 1]
  BY <1>3, <1>5 DEF LinksInv
<1>9. first \in 2 .. LastCluster
  BY <1>5, <1>7
<1>10. entry[f].clusters = n
  BY DEF Length
<1> HIDE DEF n
<1>11. CASE InOnePiece
  <2>1. first + n - 1 \in first .. LastCluster /\ fat[first + n - 1] = Eoc
    <3>1. n \in 1 .. n
      BY <1>5
    <3>2. QED
      BY <1>5, <1>7, <1>8, <1>9, <1>11, <3>1
  <2>2. \A d \in first .. (first + n - 1) - 1 : fat[d] = d + 1
    <3>1. SUFFICES ASSUME NEW d \in first .. first + n - 2 PROVE fat[d] = d + 1
      BY <1>5, <1>9
    <3>2. d - first + 1 \in 1 .. n /\ d - first + 2 \in 1 .. n /\ d - first + 1 # n
      BY <1>5, <1>9
    <3>3. chain[f][d - first + 1] = d /\ chain[f][(d - first + 1) + 1] = d + 1
      BY <1>9, <1>11, <3>2
    <3>4. QED
      BY <1>8, <3>2, <3>3
  <2>3. fat[first + n - 1] # (first + n - 1) + 1
    BY <1>5, <1>9, <2>1 DEF Eoc
  <2>4. contiguousRange(f) = first .. first + n - 1
    <3> DEFINE last == first + n - 1
    <3>1. last \in first .. LastCluster /\ fat[last] = Eoc /\ fat[last] # last + 1
          /\ \A d \in first .. last - 1 : fat[d] = d + 1
      BY <2>1, <2>2, <2>3
    <3> HIDE DEF last
    <3>2. first \in Nat
      BY <1>9
    <3>3. Stop(fat, first, LastCluster) = last
      BY <1>5, <3>1, <3>2, FirstStop
    <3>4. contiguousRange(f) = first .. last
      BY <3>1, <3>3, RangeIs
    <3>5. QED
      BY <3>4 DEF last
  <2>5. QED
    BY <1>6, <1>10, <1>11, <2>4
<1>12. CASE ~InOnePiece
  <2> DEFINE Elsewhere == {i \in Nat : i \in 1 .. n /\ chain[f][i] # first + i - 1}
  <2>1. PICK j \in Elsewhere : \A i \in Elsewhere : j <= i
    <3>1. Elsewhere \in SUBSET Nat /\ Elsewhere # {}
      BY <1>5, <1>12
    <3> HIDE DEF Elsewhere
    <3>2. QED
      BY <3>1, LeastOf
  <2>2. j \in 1 .. n /\ chain[f][j] # first + j - 1
    BY <2>1
  <2>3. \A i \in 1 .. j - 1 : chain[f][i] = first + i - 1
    <3>1. SUFFICES ASSUME NEW i \in 1 .. j - 1, chain[f][i] # first + i - 1 PROVE FALSE
      OBVIOUS
    <3>2. i \in Elsewhere
      BY <2>2, <3>1, <1>5
    <3>3. QED
      BY <2>1, <2>2, <3>1, <3>2, <1>5
  <2> HIDE DEF Elsewhere
  <2>4. j > 1
    BY <1>7, <1>9, <2>2
  <2> DEFINE last == first + j - 2
  <2>5. chain[f][j - 1] = last /\ fat[last] = chain[f][j]
    <3>1. j - 1 \in 1 .. j - 1 /\ j - 1 \in 1 .. n /\ j - 1 # n /\ (j - 1) + 1 = j
      BY <1>5, <2>2, <2>4
    <3>2. chain[f][j - 1] = first + (j - 1) - 1
      BY <2>3, <3>1
    <3>3. fat[chain[f][j - 1]] = chain[f][j]
      BY <1>8, <3>1
    <3>4. QED
      BY <1>9, <3>1, <3>2, <3>3
  <2>6. last \in first .. LastCluster /\ fat[last] # last + 1 /\ fat[last] # Eoc
    <3>1. last \in 2 .. LastCluster /\ chain[f][j] \in 2 .. LastCluster
      <4>1. j - 1 \in 1 .. n
        BY <1>5, <2>2, <2>4
      <4>2. QED
        BY <1>7, <2>2, <2>5, <4>1
    <3>2. QED
      BY <1>9, <2>2, <2>4, <2>5, <3>1 DEF Eoc
  <2>7. \A d \in first .. last - 1 : fat[d] = d + 1
    <3>1. SUFFICES ASSUME NEW d \in first .. last - 1 PROVE fat[d] = d + 1
      OBVIOUS
    <3>2. /\ d - first + 1 \in 1 .. j - 1 /\ (d - first + 1) + 1 \in 1 .. j - 1
          /\ d - first + 1 \in 1 .. n /\ d - first + 1 # n
      BY <1>5, <1>9, <2>2, <2>4
    <3>3. chain[f][d - first + 1] = d /\ chain[f][(d - first + 1) + 1] = d + 1
      BY <1>9, <2>3, <3>2
    <3>4. QED
      BY <1>8, <3>2, <3>3
  <2> HIDE DEF last
  <2>8. contiguousRange(f) = {}
    <3>1. first \in Nat
      BY <1>9
    <3>2. Stop(fat, first, LastCluster) = last
      BY <1>5, <2>6, <2>7, <3>1, FirstStop
    <3>3. QED
      BY <2>6, <3>2, RangeIs
  <2>9. \E i \in 1 .. entry[f].clusters : ClusterAt(f, i) # first + i - 1
    BY <1>6, <1>10, <2>2
  <2>10. QED
    BY <2>8, <2>9
<1>13. QED
  BY <1>11, <1>12

\* Chains that are followed by their entries are those kept apart.
LEMMA OrderShows ==
    ASSUME VolumeInv
    PROVE  VolumeIsInOrder
<1>1. TypeOK
  BY DEF VolumeInv
<1>2. PICK chain, k : InOrder(chain, k)
  BY DEF VolumeInv
<1>3. FilesInv(chain) /\ KeptApart(chain) /\ LinksInv(chain, k) /\ RestInv(chain)
  BY <1>2 DEF InOrder, ChainInv
<1>4. \A f \in AtRest : f \in Files /\ \A i : ~Freed(f, i, k)
  BY DEF AtRest, Freed
<1>5. \A f \in AtRest : \A i \in 1 .. Length(f) : ClusterAt(f, i) = chain[f][i]
  BY <1>1, <1>3, <1>4, ClusterIs
<1>6. \A f \in AtRest : ClustersOf(f) = {chain[f][i] : i \in 1 .. Length(f)}
  <2>1. \A f \in AtRest : ClustersOf(f) = {ClusterAt(f, i) : i \in 1 .. Length(f)}
    BY DEF ClustersOf, Length
  <2>2. QED
    BY <1>5, <2>1
<1>7. ChainsAreDisjoint
  <2>1. SUFFICES ASSUME NEW f \in AtRest, entry[f] # NoFile
                 PROVE  /\ ClustersOf(f) \subseteq Clusters \ root
                        /\ Cardinality(ClustersOf(f)) = Length(f)
                        /\ fat[LastOf(f)] = Eoc
                        /\ \A g \in AtRest \ {f} : ClustersOf(f) \cap ClustersOf(g) = {}
    BY DEF ChainsAreDisjoint, Length
  <2>2. f \in Files /\ Length(f) \in Nat /\ Length(f) # 0
    BY <1>1, <1>3, <1>4, <2>1, LengthTyped DEF FilesInv
  <2>3. Length(f) \in 1 .. Length(f)
    BY <2>2
  <2>4. ClustersOf(f) \subseteq Clusters \ root
    BY <1>3, <1>6, <2>2 DEF FilesInv
  <2>5. Cardinality(ClustersOf(f)) = Length(f)
    <3> DEFINE I == 1 .. Length(f)
               F == [i \in I |-> chain[f][i]]
    <3>1. IsFiniteSet(I) /\ Cardinality(I) = Length(f)
      BY <2>2, FS_Interval
    <3>2. \A i, j \in I : F[i] = F[j] => i = j
      BY <1>3, <2>2 DEF KeptApart
    <3>3. F \in [I -> ClustersOf(f)] /\ \A c \in ClustersOf(f) : \E i \in I : F[i] = c
      BY <1>6
    <3>4. F \in Bijection(I, ClustersOf(f))
      BY <3>2, <3>3 DEF Bijection, Injection, Surjection, IsInjective
    <3>5. ExistsBijection(I, ClustersOf(f))
      BY <3>4 DEF ExistsBijection
    <3>6. QED
      BY <3>1, <3>5, FS_Bijection
  <2>6. fat[LastOf(f)] = Eoc
    <3>1. LastOf(f) = chain[f][Length(f)]
      BY <1>5, <2>3 DEF LastOf, Length
    <3>2. QED
      BY <1>3, <1>4, <2>2, <2>3, <3>1 DEF LinksInv
  <2>7. \A g \in AtRest \ {f} : ClustersOf(f) \cap ClustersOf(g) = {}
    BY <1>3, <1>4, <1>6, <2>2 DEF KeptApart
  <2>8. QED
    BY <2>4, <2>5, <2>6, <2>7
<1>8. NoClusterLost
  <2>1. SUFFICES ASSUME pc = "idle"
                 PROVE  {c \in Clusters : ~IsFree(c)} =
                            root \cup UNION {ClustersOf(f) : f \in Files}
    BY DEF NoClusterLost
  <2>2. AtRest = Files
    BY <2>1 DEF AtRest
  <2>3. \A c : c \in UNION {ClustersOf(f) : f \in Files} <=> InChain(chain, c)
    BY <1>6, <2>2 DEF InChain
  <2>4. \A c \in Clusters : c \notin root /\ ~InChain(chain, c) => fat[c] = Unused
    BY <1>3, <2>1 DEF RestInv, InRun
  <2>5. \A c : InChain(chain, c) => c \in Clusters
    BY <1>3 DEF InChain, FilesInv
  <2>6. \A c : InChain(chain, c) => fat[c] # Unused
    BY <1>1, <1>2, <1>3, <2>1, <2>5, FreeIsNotInChain
  <2>7. \A c \in root : c \in Clusters /\ fat[c] # Unused
    BY <1>3 DEF RestInv
  <2>8. QED
    BY <2>3, <2>4, <2>5, <2>6, <2>7 DEF IsFree
<1>9. QED
  BY <1>1, <1>7, <1>8, RangeShows DEF VolumeIsInOrder

\* VolumeInv says that the files have chains: the fat leads along them, they share no
\* cluster, and all else is free.  Every step keeps it, a turn of a loop too: what the
\* search of allocContiguous() has found is free, what it has linked is not in a chain
\* yet, and what freeChain() has freed is the part of the one chain behind the cut.
THEOREM VolumeInvariant == Spec => []VolumeInv
<1>1. Init => VolumeInv
  BY StartsInOrder DEF VolumeInv
<1>2. VolumeInv /\ [Next]_vars => VolumeInv'
  BY StepKeepsOrder
<1>3. QED
  BY <1>1, <1>2, PTL DEF Spec

\* Whatever is created, grown, cut and removed on a volume of any size, and however often
\* the card is mounted in between: no two files share a cluster, each chain ends where the
\* entry of its file says, between two calls no cluster is lost, and contiguousRange()
\* gives the clusters of a file in one piece, and of no other.
THEOREM VolumeOrdered == Spec => []VolumeIsInOrder
<1>1. VolumeInv => VolumeIsInOrder
  BY OrderShows
<1>2. QED
  BY <1>1, VolumeInvariant, PTL

-----------------------------------------------------------------------------
(* The search of allocContiguous().                                                     *)

\* The run that was linked is the range of the new file.
LEMMA LinkedRange ==
    ASSUME VolumeInv, Linked, NEW f \in Files, file = f
    PROVE  contiguousRange(f)' = bgnCluster .. bgnCluster + count - 1
<1>1. PICK chain, k : InOrder(chain, k)
  BY DEF VolumeInv
<1>2. /\ pc = "link" /\ endCluster = bgnCluster /\ UNCHANGED fat
      /\ entry' = [entry EXCEPT ![file] = [first |-> bgnCluster, clusters |-> count]]
  BY DEF Linked
<1>3. /\ count >= 1 /\ 2 <= bgnCluster /\ LastInRun <= LastCluster
      /\ \A c \in bgnCluster .. LastInRun : fat[c] = IF c = LastInRun THEN Eoc ELSE c + 1
  BY <1>1, <1>2 DEF InOrder, ChainInv, LinkInv
<1>4. count \in Nat /\ bgnCluster \in Nat /\ LastCluster \in Nat
  BY ClustersAssumption, CountAssumption DEF VolumeInv, TypeOK
<1>5. entry'[f].first = bgnCluster
  BY <1>2 DEF VolumeInv, TypeOK
<1>6. LastInRun \in bgnCluster .. LastCluster /\ LastInRun = bgnCluster + count - 1
  BY <1>3, <1>4 DEF LastInRun
<1>7. fat'[LastInRun] = Eoc /\ fat'[LastInRun] # LastInRun + 1
      /\ \A d \in bgnCluster .. LastInRun - 1 : fat'[d] = d + 1
  BY <1>2, <1>3, <1>4, <1>6 DEF Eoc
<1> DEFINE first == entry'[f].first
           last == LastInRun
<1> HIDE DEF last
<1>8. /\ first \in Nat /\ last \in first .. LastCluster /\ fat'[last] = Eoc
      /\ fat'[last] # last + 1 /\ \A d \in first .. last - 1 : fat'[d] = d + 1
  BY <1>4, <1>5, <1>6, <1>7 DEF last
<1>9. contiguousRange(f)' =
        LET stop == Stop(fat', first, LastCluster)
        IN  IF fat'[stop] = Eoc THEN first .. stop ELSE {}
  BY DEF contiguousRange, Stop
<1> HIDE DEF first
<1>10. contiguousRange(f)' = first .. last
  BY <1>4, <1>8, <1>9, FirstStop
<1>11. QED
  BY <1>5, <1>6, <1>10 DEF first, last

\* The clusters that createContiguous() linked are the range that contiguousRange() gives the
\* logger to erase and to write, however full the volume was and in how many pieces.
THEOREM RangeFound == Spec => RangeIsTheRoom
<1>1. VolumeInv /\ [Next]_vars =>
        [\A f \in Files :
           Linked /\ file = f =>
               contiguousRange(f)' = bgnCluster .. bgnCluster + count - 1]_vars
  BY LinkedRange
<1>2. QED
  BY <1>1, VolumeInvariant, PTL DEF Spec, RangeIsTheRoom

\* Where the search of this lap began: behind startCluster, or at the first cluster.
LapStart == IF endCluster > startCluster THEN startCluster + 1 ELSE 2
\* The run that the search is in has no beginning further in front, it is too short, and no
\* run of free clusters that is long enough lies behind it; in the second lap, none at all
\* behind startCluster.
SeenInv ==
    pc = "search" =>
        /\ startCluster >= 1
        /\ LapStart <= bgnCluster /\ bgnCluster <= endCluster
        /\ endCluster - bgnCluster < count
        /\ bgnCluster = LapStart \/ (bgnCluster - 1 \in Clusters /\ ~IsFree(bgnCluster - 1))
        /\ \A b \in Runs(count) :
             /\ b >= LapStart => endCluster <= b + count - 1
             /\ endCluster <= startCluster => b <= startCluster

\* The turns of a search that goes on, each by the cluster it looks at.
LEMMA SearchGoesOn ==
    ASSUME TypeOK, SeenInv, SearchOn, VolumeInv
    PROVE  SeenInv'
<1> DEFINE e == WrappedEnd
           b0 == WrappedBgn
<1>1. PICK chain, k : InOrder(chain, k)
  BY DEF VolumeInv
<1>2. /\ pc = "search" /\ UNCHANGED <<fat, count, startCluster, pc>>
      /\ ~IsFree(e) \/ e - b0 + 1 # count
      /\ e # startCluster
      /\ bgnCluster' = IF IsFree(e) THEN b0 ELSE e + 1
      /\ endCluster' = e + 1
  BY DEF SearchOn, RunIsLongEnough
<1>3. /\ count \in Nat /\ count >= 1 /\ e \in Clusters /\ b0 \in 2 .. e
  BY <1>1, <1>2, SearchTyped
<1>4. /\ startCluster \in 0 .. LastCluster + 1 /\ bgnCluster \in 0 .. LastCluster + 2
      /\ endCluster \in 0 .. LastCluster + 2 /\ LastCluster \in Nat /\ LastCluster >= 2
  BY ClustersAssumption DEF TypeOK
<1>5. /\ startCluster >= 1 /\ LapStart <= bgnCluster /\ bgnCluster <= endCluster
      /\ endCluster - bgnCluster < count
      /\ bgnCluster = LapStart \/ (bgnCluster - 1 \in Clusters /\ ~IsFree(bgnCluster - 1))
      /\ \A b \in Runs(count) :
           /\ b >= LapStart => endCluster <= b + count - 1
           /\ endCluster <= startCluster => b <= startCluster
  BY <1>2 DEF SeenInv
<1>6. Runs(count)' = Runs(count) /\ \A c : IsFree(c)' = IsFree(c)
  BY <1>2 DEF Runs, IsFree
<1>7. e = (IF endCluster > LastCluster THEN 2 ELSE endCluster)
      /\ b0 = (IF endCluster > LastCluster THEN 2 ELSE bgnCluster)
  BY DEF WrappedEnd, WrappedBgn
<1> DEFINE lap == IF e + 1 > startCluster THEN startCluster + 1 ELSE 2
<1>8. LapStart' = lap
  BY <1>2 DEF LapStart
<1>9. \A b \in Runs(count) :
        /\ b \in 2 .. LastCluster /\ b + count - 1 <= LastCluster
        /\ \A c \in b .. b + count - 1 : IsFree(c)
  BY DEF Runs, Clusters
<1> HIDE DEF e, b0
<1>10. lap <= b0 /\ (b0 = lap \/ (b0 - 1 \in Clusters /\ ~IsFree(b0 - 1)))
  <2>1. CASE endCluster > LastCluster
    BY <1>2, <1>3, <1>4, <1>5, <1>7, <2>1
  <2>2. CASE endCluster <= LastCluster
    BY <1>2, <1>4, <1>5, <1>7, <2>2 DEF LapStart
  <2>3. QED
    BY <1>4, <2>1, <2>2
<1>11. e - b0 < count
  BY <1>3, <1>4, <1>5, <1>7
\* A run that ends at the cluster of this turn would begin where the run found began, or behind.
<1>12. \A b \in Runs(count) : b >= lap => e + 1 <= b + count - 1
  <2>1. SUFFICES ASSUME NEW b \in Runs(count), b >= lap, b + count - 1 < e + 1 PROVE FALSE
    BY <1>3, <1>4, <1>9 DEF Clusters
  <2>2. b \in 2 .. LastCluster /\ \A c \in b .. b + count - 1 : IsFree(c)
    BY <1>9
  <2>3. e <= b + count - 1
    <3>1. CASE endCluster > LastCluster
      BY <1>3, <1>4, <1>7, <2>2, <3>1
    <3>2. CASE endCluster <= LastCluster
      <4>1. e = endCluster /\ lap = LapStart
        BY <1>2, <1>4, <1>7, <3>2 DEF LapStart
      <4>2. QED
        BY <1>5, <2>1, <4>1
    <3>3. QED
      BY <1>4, <3>1, <3>2
  <2>4. e = b + count - 1
    BY <1>3, <2>1, <2>2, <2>3 DEF Clusters
  <2>5. IsFree(e) /\ e - b0 + 1 # count
    BY <1>2, <1>3, <2>2, <2>4
  <2>6. b0 > b
    BY <1>3, <1>11, <2>2, <2>4, <2>5 DEF Clusters
  <2>7. b0 - 1 \in b .. b + count - 1 /\ ~IsFree(b0 - 1)
    BY <1>3, <1>10, <2>1, <2>2, <2>4, <2>6 DEF Clusters
  <2>8. QED
    BY <2>2, <2>7
<1>13. e + 1 <= startCluster => \A b \in Runs(count) : b <= startCluster
  <2>1. CASE endCluster <= startCluster
    BY <1>5, <2>1
  <2>2. CASE endCluster > startCluster
    <3>1. SUFFICES ASSUME e + 1 <= startCluster, NEW b \in Runs(count), b > startCluster
                   PROVE  FALSE
      BY <1>4, <1>9
    <3>2. endCluster > LastCluster /\ LapStart = startCluster + 1
      BY <1>3, <1>4, <1>7, <2>2, <3>1 DEF LapStart
    <3>3. endCluster <= b + count - 1 /\ b + count - 1 <= LastCluster
      BY <1>4, <1>5, <1>9, <3>1, <3>2
    <3>4. QED
      BY <1>3, <1>4, <1>9, <3>2, <3>3
  <2>3. QED
    BY <1>4, <2>1, <2>2
<1>14. CASE IsFree(e)
  <2>1. bgnCluster' = b0 /\ endCluster' = e + 1 /\ e + 1 - b0 < count
    BY <1>2, <1>3, <1>11, <1>14 DEF Clusters
  <2>2. QED
    BY <1>2, <1>3, <1>5, <1>6, <1>8, <1>10, <1>12, <1>13, <2>1 DEF SeenInv, Clusters
<1>15. CASE ~IsFree(e)
  <2>1. bgnCluster' = e + 1 /\ endCluster' = e + 1
    BY <1>2, <1>15
  <2>2. lap <= e + 1 /\ (e + 1) - 1 = e /\ (e + 1) - (e + 1) < count
    BY <1>3, <1>4, <1>10 DEF Clusters
  <2>3. QED
    BY <1>2, <1>3, <1>5, <1>6, <1>8, <1>12, <1>13, <1>15, <2>1, <2>2 DEF SeenInv
<1>16. QED
  BY <1>14, <1>15

\* When the search gives up, it has seen all runs but those across its start.
LEMMA NoRoomShows ==
    ASSUME TypeOK, SeenInv, NoRoom, VolumeInv, NEW b \in Runs(count)
    PROVE  b <= startCluster /\ startCluster < b + count - 1
<1> DEFINE e == WrappedEnd
           b0 == WrappedBgn
<1>1. PICK chain, k : InOrder(chain, k)
  BY DEF VolumeInv
<1>2. /\ pc = "search"
      /\ ~IsFree(e) \/ e - b0 + 1 # count
      /\ e = startCluster
  BY DEF NoRoom, RunIsLongEnough
<1>3. count \in Nat /\ count >= 1 /\ e \in Clusters /\ b0 \in 2 .. e
  BY <1>1, <1>2, SearchTyped
<1>4. /\ startCluster \in 0 .. LastCluster + 1 /\ bgnCluster \in 0 .. LastCluster + 2
      /\ endCluster \in 0 .. LastCluster + 2 /\ LastCluster \in Nat /\ LastCluster >= 2
  BY ClustersAssumption DEF TypeOK
<1>5. /\ startCluster >= 1 /\ LapStart <= bgnCluster /\ bgnCluster <= endCluster
      /\ endCluster - bgnCluster < count
      /\ bgnCluster = LapStart \/ (bgnCluster - 1 \in Clusters /\ ~IsFree(bgnCluster - 1))
      /\ b >= LapStart => endCluster <= b + count - 1
      /\ endCluster <= startCluster => b <= startCluster
  BY <1>2 DEF SeenInv
<1>6. e = (IF endCluster > LastCluster THEN 2 ELSE endCluster)
      /\ b0 = (IF endCluster > LastCluster THEN 2 ELSE bgnCluster)
  BY DEF WrappedEnd, WrappedBgn
<1>7. b \in 2 .. LastCluster /\ b + count - 1 <= LastCluster
      /\ \A c \in b .. b + count - 1 : IsFree(c)
  BY DEF Runs, Clusters
<1> HIDE DEF e, b0
<1>8. b <= startCluster
  BY <1>2, <1>3, <1>4, <1>5, <1>6, <1>7 DEF LapStart
<1>9. b + count - 1 >= startCluster
  BY <1>2, <1>3, <1>4, <1>5, <1>6, <1>7 DEF LapStart
<1>10. b + count - 1 # startCluster
  <2>1. SUFFICES ASSUME b + count - 1 = e PROVE FALSE
    BY <1>2
  <2>2. IsFree(e) /\ e - b0 + 1 # count
    BY <1>2, <1>3, <1>7, <2>1
  <2>3. e - b0 < count
    BY <1>3, <1>4, <1>5, <1>6
  <2>4. b0 > b
    BY <1>3, <1>7, <2>1, <2>2, <2>3 DEF Clusters
  <2>5. b0 - 1 \in b .. b + count - 1 /\ ~IsFree(b0 - 1)
    BY <1>2, <1>3, <1>4, <1>5, <1>6, <1>7, <2>1, <2>4 DEF LapStart, Clusters
  <2>6. QED
    BY <1>7, <2>5
<1>11. QED
  BY <1>3, <1>4, <1>7, <1>8, <1>9, <1>10

LEMMA SeenStep ==
    ASSUME VolumeInv, SeenInv, [Next]_vars
    PROVE  SeenInv'
<1>1. TypeOK /\ VolumeInv'
  BY StepKeepsOrder DEF VolumeInv
<1>2. CASE CreateContiguous
  <2>1. /\ startCluster' = searchStart /\ count' \in 1 .. MaxCount /\ UNCHANGED fat
        /\ bgnCluster' = searchStart + 1 /\ endCluster' = searchStart + 1
    BY <1>2 DEF CreateContiguous
  <2>2. searchStart \in 1 .. LastCluster + 1 /\ LastCluster \in Nat /\ MaxCount \in Nat
    BY <1>1, ClustersAssumption, CountAssumption DEF TypeOK
  <2>3. LapStart' = searchStart + 1
    BY <2>1, <2>2 DEF LapStart
  <2>4. \A b \in Runs(count)' : b \in Nat
    BY <2>2 DEF Runs, Clusters
  <2>5. QED
    BY <2>1, <2>2, <2>3, <2>4 DEF SeenInv
<1>3. CASE SearchOn
  BY <1>1, <1>3, SearchGoesOn
<1>4. CASE pc' # "search"
  BY <1>4 DEF SeenInv
<1>5. CASE UNCHANGED vars
  BY <1>5 DEF SeenInv, LapStart, Runs, IsFree, vars, localVars, searchVars
<1>6. Next => CreateContiguous \/ SearchOn \/ pc' # "search"
  BY DEF Next, Loops, Mount, Grow, Cut, NoRoom, RunFound, LinkOne, Linked, FindOn, FoundNone,
         FoundOne, FreeOne, EndChain, Return, AfterFreed
<1>7. QED
  BY <1>2, <1>3, <1>4, <1>5, <1>6

\* When allocContiguous() gives up, there is no room for the file, but perhaps across the
\* cluster at which it began, on a volume of any size: what it has passed it has seen whole.
THEOREM RoomSeen == Spec => RoomMissedOnlyAtStart
<1>1. Init => SeenInv
  BY DEF Init, Idle, SeenInv
<1>2. VolumeInv /\ SeenInv /\ [Next]_vars => SeenInv'
  BY SeenStep
<1>3. VolumeInv /\ SeenInv /\ [Next]_vars =>
        [NoRoom => \A b \in Runs(count) :
                     b <= startCluster /\ startCluster < b + count - 1]_vars
  BY NoRoomShows DEF VolumeInv
<1>4. QED
  BY <1>1, <1>2, <1>3, VolumeInvariant, PTL DEF Spec, RoomMissedOnlyAtStart
=============================================================================
