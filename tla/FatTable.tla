------------------------------ MODULE FatTable ------------------------------
(***************************************************************************)
(* The entries of SdFat's file allocation table as bytes of its blocks:    *)
(* fatPut(), fatGet() and freeClusterCount(), for the three sizes of an    *)
(* entry.  With FAT12, which is left out of a build unless FAT12_SUPPORT   *)
(* is set, two entries share a byte, and one may lie across the end of a   *)
(* block.  The blocks are seen through the cache, as FatFileData models    *)
(* it; refused reads are left out.                                         *)
(***************************************************************************)
EXTENDS Integers, FiniteSets, FiniteSetsExt

CONSTANTS
    BlockSize,      \* bytes in a block: 512
    LastCluster,    \* m_lastCluster
    Links,          \* the clusters that entries are given
    MaxPuts

VARIABLES
    fatType,        \* m_fatType
    table,          \* the bytes of each block
    given,          \* what each cluster's entry was given
    puts

tableVars == <<fatType, table, given, puts>>

Clusters == 2 .. LastCluster
Unused == 0
Eoc == 268435455            \* fatPutEOC(): 0X0FFFFFFF, cut to the entry's width
LastBlock == (4 * LastCluster + 3) \div BlockSize

-----------------------------------------------------------------------------
\* The n bytes at an index of a block, the lowest first.
Bytes(blk, i, n) ==
    MapThenSumSet(LAMBDA k : table[blk][i + k] * 256 ^ k, 0 .. n - 1)
BytesWith(v, blk, i, n) ==
    [table EXCEPT ![blk] =
        [k \in 0 .. BlockSize - 1 |->
            IF k \in i .. i + n - 1 THEN (v \div 256 ^ (k - i)) % 256 ELSE @[k]]]

\* Where a FAT16 or FAT32 entry is.
Width == IF fatType = 16 THEN 2 ELSE 4
PerBlock == BlockSize \div Width
BlockOf(c) == c \div PerBlock
PlaceOf(c) == Width * (c % PerBlock)

\* Where a FAT12 entry begins and where its second byte is.
First12(c) == [blk |-> (c + c \div 2) \div BlockSize, i |-> (c + c \div 2) % BlockSize]
Second12(p) == IF p.i + 1 = BlockSize THEN [blk |-> p.blk + 1, i |-> 0]
                                      ELSE [p EXCEPT !.i = @ + 1]
ByteAt(p) == table[p.blk][p.i]

\* fatGet(): the raw entry.
Entry(c) ==
    IF fatType # 12 THEN Bytes(BlockOf(c), PlaceOf(c), Width)
    ELSE LET tmp == ByteAt(First12(c)) + 256 * ByteAt(Second12(First12(c)))
         IN  IF c % 2 = 1 THEN tmp \div 16 ELSE tmp % 4096

\* What fatGet() returns: 0 at the end of a chain, and 1 with the next cluster.
Get(c) == IF Entry(c) > LastCluster THEN [fg |-> 0] ELSE [fg |-> 1, next |-> Entry(c)]

\* fatPut() with FAT12: a byte, and half of another that it shares with a neighbour.
Parts(value, c, first, second) ==
    IF c % 2 = 1 THEN <<(first % 16) + ((value * 16) % 256), (value \div 16) % 256>>
                 ELSE <<value % 256, second - (second % 16) + ((value \div 256) % 16)>>

Put12(c, v) ==
    LET p == First12(c)
        q == Second12(p)
        new == Parts(v % 65536, c, ByteAt(p), ByteAt(q))
    IN  [table EXCEPT ![p.blk][p.i] = new[1], ![q.blk][q.i] = new[2]]

Put(c, v) ==
    /\ puts < MaxPuts
    /\ table' = IF fatType = 12 THEN Put12(c, v)
                ELSE BytesWith(v, BlockOf(c), PlaceOf(c), Width)
    /\ given' = [given EXCEPT ![c] = v]
    /\ puts' = puts + 1
    /\ UNCHANGED fatType

\* freeClusterCount(): entry by entry, or block by block up to the last cluster's entry,
\* the two entries before the first cluster's included.
AtMostBlock(n) == IF n < PerBlock THEN n ELSE PerBlock
\* Mutant: as many as the last cluster's number, one too few.
LeftShort(blk) == AtMostBlock(LastCluster - blk * PerBlock)
Left(blk) == AtMostBlock(LastCluster + 1 - blk * PerBlock)
freeClusterCount ==
    IF fatType = 12 THEN Cardinality({c \in Clusters : Get(c) = [fg |-> 1, next |-> 0]})
    ELSE MapThenSumSet(
            LAMBDA blk : Cardinality({k \in 0 .. Left(blk) - 1 :
                                        Bytes(blk, Width * k, Width) = 0}),
            0 .. BlockOf(LastCluster))

\* A formatted volume: two entries in front, and the root directory's cluster with FAT32.
FirstBytes == CASE fatType = 12 -> 3 [] fatType = 16 -> 4 [] OTHER -> 12
InitTable ==
    /\ fatType \in {12, 16, 32}
    /\ table = [blk \in 0 .. LastBlock |-> [k \in 0 .. BlockSize - 1 |->
                  LET n == blk * BlockSize + k IN
                    CASE n >= FirstBytes -> 0
                      [] n = 0 -> 248
                      [] fatType = 32 /\ n % 4 = 3 -> 15
                      [] OTHER -> 255]]
    /\ given = [c \in Clusters |-> IF c = 2 /\ fatType = 32 THEN Eoc ELSE Unused]
    /\ puts = 0

NextTable == \E c \in Clusters, v \in Links \cup {Unused, Eoc} : Put(c, v)

-----------------------------------------------------------------------------
\* Every cluster's entry is read as it was written last, whatever was written to its
\* neighbours since, and the free clusters are counted as they are.
EntriesAreKept ==
    /\ \A c \in Clusters :
         Get(c) = IF given[c] = Eoc THEN [fg |-> 0] ELSE [fg |-> 1, next |-> given[c]]
    /\ freeClusterCount = Cardinality({c \in Clusters : given[c] = Unused})
=============================================================================
