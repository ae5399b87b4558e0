------------------------------ MODULE Directory ------------------------------
(***************************************************************************)
(* A directory of SdFat with long file names: an array of entries of 32    *)
(* bytes, in which a file has a short entry and, in front of it, as many   *)
(* long entries as its name needs.  Files are created, synchronised,       *)
(* removed and renamed through one handle; the entries are changed in the  *)
(* cache, which holds one block of them, and reach the card block by       *)
(* block, with a power failure possible between any two.                   *)
(*                                                                         *)
(* A name is a number: a long name that of the entries it takes.  A short  *)
(* name is a pair: a name of eight and three characters, or what all long  *)
(* names have in common, or a hash of one.  Long names that differ in all  *)
(* their parts, and checksums and hashes without collisions, are assumed.  *)
(***************************************************************************)
EXTENDS Integers, Sequences, FiniteSets

CONSTANTS
    ShortNames, LongNames,
    BlockEntries,       \* entries of a block, and of a cluster
    MaxClusters,        \* clusters the directory may have
    MaxSeq              \* 99: the last hash that is tried for a short name

Names == ShortNames \cup LongNames
Files == 1 .. Cardinality(Names)     \* a bound
Slots == 1 .. (MaxClusters * BlockEntries)
BlockOf(i) == (i - 1) \div BlockEntries
Blocks == 0 .. MaxClusters - 1
NoBlock == -1
NoName == 0
None == 0

Free == [kind |-> "free"]
Deleted == [kind |-> "deleted"]
Long(n, ord, last, sfn) ==
    [kind |-> "long", name |-> n, ord |-> ord, last |-> last, chksum |-> sfn]
Short(sfn, file) == [kind |-> "short", sfn |-> sfn, file |-> file]

VARIABLES
    dir,                \* entries, as the program sees them
    disk,               \* entries on the card
    dirty,              \* the block in the cache that differs from the card's
    clusters,           \* clusters of the directory, in the FAT's cache
    clustersDisk,       \* ... and on the card
    pc, after,          \* where the program is, and where cacheSync() goes on
    handle,             \* m_dirIndex and m_lfnOrd of the open file
    name,               \* the name it has, or rename() gives it
    old,                \* the entries remove() is at work on, with the next long one
    fill,               \* entries still to be written by open(), with the first index
    \* observation only
    sure,               \* the file each name has led to since a sync()
    moving,             \* the names rename() is at work on, and the file
    failed              \* the power has failed

NoHandle == [index |-> None, lfnOrd |-> 0]
NoOld == [index |-> None, lfnOrd |-> 0, ord |-> 0]
NoFill == [at |-> None, entries |-> <<>>]
NotMoving == [from |-> NoName, to |-> NoName, file |-> None, hidden |-> FALSE]

cardVars == <<dir, disk, dirty, clusters, clustersDisk>>
callVars == <<handle, name, old, fill>>
ghostVars == <<sure, moving, failed>>
dirVars == <<cardVars, pc, after, callVars, ghostVars>>

Empty ==
    /\ dir = [i \in Slots |-> Free] /\ disk = dir /\ dirty = NoBlock
    /\ clusters = 1 /\ clustersDisk = 1
InitDirectory ==
    /\ Empty
    /\ pc = "idle" /\ after = "idle"
    /\ handle = NoHandle /\ name = NoName /\ old = NoOld /\ fill = NoFill
    /\ sure = [n \in Names |-> None] /\ moving = NotMoving /\ failed = FALSE

-----------------------------------------------------------------------------
(* Short names.                                                            *)
IsLong(n) == n \in LongNames
Need(n) == IF IsLong(n) THEN n ELSE 1
Common == <<0, 1>>
Sfn(n) == IF IsLong(n) THEN Common ELSE <<n, 0>>
Hashed(n, seq) == <<n, seq>>

Entries(d, size) == SubSeq(d, 1, size * BlockEntries)
ShortNamesIn(es) == {es[i].sfn : i \in {j \in DOMAIN es : es[j].kind = "short"}}

\* lfnUniqueSfn(): the first hash that no file has; 0 if all are taken.
UniqueSeq(n, es) ==
    LET unused == {seq \in 2 .. MaxSeq : Hashed(n, seq) \notin ShortNamesIn(es)}
    IN  IF unused = {} THEN 0 ELSE CHOOSE seq \in unused : \A s \in unused : seq <= s

-----------------------------------------------------------------------------
(* open(): the search for a name, an entry at a time.  A long name that    *)
(* has begun to match is broken off by an entry that is not its next one,  *)
(* which is not looked at again.                                           *)
Searching ==
    [result |-> "search", index |-> None, lfnOrd |-> 0, ord |-> 0, chksum |-> Common,
     freeFound |-> 0, freeIndex |-> None, sfnSeen |-> FALSE]

CountFree(s, e, i, need) ==
    IF e.kind \in {"free", "deleted"}
      THEN [s EXCEPT !.freeIndex = IF s.freeFound = 0 THEN i ELSE @,
                     !.freeFound = IF @ < need THEN @ + 1 ELSE @]
      ELSE [s EXCEPT !.freeFound = IF @ < need THEN 0 ELSE @]

\* Without a match under way only the entry with the last part begins one.
MatchLong(s, e, n) ==
    LET ord == IF s.lfnOrd = 0 THEN e.ord ELSE s.ord - 1
        next == IF s.lfnOrd = 0 THEN e.last
                ELSE ~e.last /\ e.ord = ord /\ e.chksum = s.chksum
    IN  IF s.lfnOrd = 0 /\ ~next THEN s
        ELSE [s EXCEPT !.ord = ord,
                       !.chksum = IF s.lfnOrd = 0 THEN e.chksum ELSE @,
                       !.lfnOrd = IF ~next \/ e.name # n THEN 0
                                  ELSE IF s.lfnOrd = 0 THEN e.ord ELSE @]

MatchAnyShort(s, e, i, n) ==
    IF s.lfnOrd # 0
      THEN [s EXCEPT !.result = IF s.ord = 1 /\ e.sfn = s.chksum THEN "found" ELSE "fail",
                     !.index = i]
    ELSE IF e.sfn # Sfn(n) THEN s ELSE [s EXCEPT !.result = "found", !.index = i]

MatchShort(s, e, i, n) ==
    IF s.lfnOrd # 0
      THEN [s EXCEPT !.result = IF s.ord = 1 /\ e.sfn = s.chksum THEN "found" ELSE "fail",
                     !.index = i]
    ELSE IF e.sfn # Sfn(n) THEN s
    ELSE IF ~IsLong(n) THEN [s EXCEPT !.result = "found", !.index = i]
    ELSE [s EXCEPT !.sfnSeen = TRUE]

Look(s0, e, i, n) ==
    LET s == CountFree(s0, e, i, Need(n)) IN
      IF s.result # "search" THEN s0
      ELSE CASE e.kind = "free" -> [s EXCEPT !.result = "create", !.index = i]
             [] e.kind = "deleted" -> [s EXCEPT !.lfnOrd = 0]
             [] e.kind = "long" -> MatchLong(s, e, n)
             [] e.kind = "short" -> MatchShort(s, e, i, n)

\* At the end of the directory the name is not found either.
Search(es, n) ==
    LET seen[i \in 0 .. Len(es)] ==
            IF i = 0 THEN Searching ELSE Look(seen[i - 1], es[i], i, n)
        s == seen[Len(es)]
        end == IF s.result = "search"
                 THEN [s EXCEPT !.result = "create", !.index = Len(es) + 1] ELSE s
    IN  IF end.result = "create" /\ end.freeFound = 0
          THEN [end EXCEPT !.freeIndex = end.index] ELSE end

\* open() of a path leads to this file; no file is None.
FileAt(es, n) ==
    LET s == Search(es, n) IN IF s.result = "found" THEN es[s.index].file ELSE None

\* openNext() from the start to the end: the files it comes to.
Listing(es) ==
    LET Step(t, e) ==
          IF t.done THEN t
          ELSE CASE e.kind = "free" -> [t EXCEPT !.done = TRUE]
                 [] e.kind = "deleted" -> [t EXCEPT !.lfnOrd = 0]
                 [] e.kind = "long" -> IF e.last
                      THEN [t EXCEPT !.lfnOrd = e.ord, !.chksum = e.chksum] ELSE t
                 [] e.kind = "short" -> IF t.lfnOrd # 0 /\ t.chksum # e.sfn
                      THEN [t EXCEPT !.done = TRUE]
                      ELSE [t EXCEPT !.files = @ \cup {e.file}, !.lfnOrd = 0]
        Come[i \in 0 .. Len(es)] ==
          IF i = 0 THEN [done |-> FALSE, lfnOrd |-> 0, chksum |-> Common, files |-> {}]
          ELSE Step(Come[i - 1], es[i])
    IN  Come[Len(es)].files

\* Long entries that lead to no short one, in the order and with the checksum they have.
Led(es, i) ==
    LET j == i + es[i].ord IN
    /\ j \in DOMAIN es /\ es[j].kind = "short" /\ es[j].sfn = es[i].chksum
    /\ \A k \in i + 1 .. j - 1 :
          es[k] = Long(es[i].name, j - k, FALSE, es[i].chksum)
Orphans(es) == {es[i].name : i \in {j \in DOMAIN es : es[j].kind = "long" /\ ~Led(es, j)}}

-----------------------------------------------------------------------------
(* The cache.  Another block is fetched: a dirty one goes to the card.     *)
Written(d, b) == [i \in Slots |-> IF BlockOf(i) = b THEN dir[i] ELSE d[i]]
FlushedBut(b) == IF dirty \in {b, NoBlock} THEN disk ELSE Written(disk, dirty)
DirtyBut(b) == IF dirty = b THEN b ELSE NoBlock
Synced == IF dirty = NoBlock THEN disk ELSE Written(disk, dirty)

\* A search reads the blocks from the first to that of the entry where it ends.
AfterSearch(s) ==
    IF dirty = NoBlock \/ s.index <= BlockEntries \/ clusters = 1
      THEN disk' = FlushedBut(0) /\ dirty' = DirtyBut(0)
      ELSE disk' = Synced /\ dirty' = NoBlock

\* An entry's block is fetched for writing, and changed in the cache.
Change(d, b) ==
    /\ dir' = d
    /\ disk' = FlushedBut(b) /\ dirty' = b

\* cacheSync(): the block in the cache goes to the card, and then the FAT.
SyncData ==
    /\ pc = "sync"
    /\ disk' = Synced /\ dirty' = NoBlock
    /\ pc' = "syncFat"
    /\ UNCHANGED <<dir, clusters, clustersDisk, after, callVars, ghostVars>>

SyncFat ==
    /\ pc = "syncFat"
    /\ clustersDisk' = clusters
    /\ pc' = after /\ after' = "idle"
    /\ sure' = IF handle = NoHandle \/ after # "idle" THEN sure
               ELSE [sure EXCEPT ![name] = dir[handle.index].file]
    /\ moving' = IF after = "idle" THEN NotMoving ELSE moving
    /\ UNCHANGED <<dir, disk, dirty, clusters, callVars, failed>>

-----------------------------------------------------------------------------
(* open()                                                                  *)
Idle == pc = "idle"
Present == Entries(dir, clusters)

LongEntries(n, sfn) ==
    [k \in 1 .. Need(n) - 1 |-> Long(n, Need(n) - k, k = 1, sfn)]
NewEntries(n, sfn, file) == Append(LongEntries(n, sfn), Short(sfn, file))

\* Clusters of free entries that are needed behind the last one.
Lacking(s, n) ==
    LET room == clusters * BlockEntries - s.freeIndex + 1
    IN  IF s.freeFound >= Need(n) \/ room >= Need(n) THEN 0
        ELSE (Need(n) - room + BlockEntries - 1) \div BlockEntries

\* A short name that another file has is replaced by one with a hash.
ShortFor(s, n) == IF s.sfnSeen THEN Hashed(n, UniqueSeq(n, Present)) ELSE Sfn(n)

CanCreate(s, n) ==
    /\ s.result = "create"
    /\ clusters + Lacking(s, n) <= MaxClusters
    /\ ~(s.sfnSeen /\ UniqueSeq(n, Present) = 0)

\* The clusters that are added are zeroed, the last of them in the cache.
Create(s, n, file) ==
    LET added == clusters * BlockEntries + 1 .. (clusters + Lacking(s, n)) * BlockEntries
        Zeroed(d) == [i \in Slots |-> IF i \in added THEN Free ELSE d[i]]
    IN  /\ CanCreate(s, n)
        /\ pc' = "fill"
        /\ name' = n
        /\ fill' = [at |-> s.freeIndex, entries |-> NewEntries(n, ShortFor(s, n), file)]
        /\ clusters' = clusters + Lacking(s, n)
        /\ dir' = Zeroed(dir)
        /\ IF added = {} THEN AfterSearch(s)
           ELSE /\ dirty' = clusters' - 1
                /\ disk' = [i \in Slots |-> IF BlockOf(i) = dirty' THEN disk[i]
                                            ELSE Zeroed(Synced)[i]]

\* A file that no entry is about, in the cache or on the card, and none did since.
FilesIn(d) == {d[i].file : i \in {j \in Slots : d[j].kind = "short"}}
Unused == Files \ (FilesIn(dir) \cup FilesIn(disk))
NewFile == CHOOSE f \in Unused : \A g \in Unused : f <= g

OpenNew(s, n) ==
    /\ Unused # {}
    /\ Create(s, n, NewFile)
    /\ UNCHANGED <<clustersDisk, after, handle, old, ghostVars>>

OpenFound(s, n) ==
    /\ s.result = "found"
    /\ handle' = [index |-> s.index, lfnOrd |-> s.lfnOrd] /\ name' = n
    /\ AfterSearch(s)
    /\ UNCHANGED <<dir, clusters, clustersDisk, pc, after, old, fill, ghostVars>>

\* An orphan in the way, or no short name left.
OpenFails(s, n) ==
    /\ s.result = "fail" \/ (s.result = "create" /\ ~CanCreate(s, n))
    /\ AfterSearch(s)
    /\ UNCHANGED <<dir, clusters, clustersDisk, pc, after, callVars, ghostVars>>

Open(n) ==
    /\ Idle /\ handle = NoHandle
    /\ LET s == Search(Present, n)
       IN  OpenNew(s, n) \/ OpenFound(s, n) \/ OpenFails(s, n)

\* The entries of one block.
InBlock == {k \in DOMAIN fill.entries : BlockOf(fill.at + k - 1) = BlockOf(fill.at)}
Filled ==
    [i \in Slots |-> IF i - fill.at + 1 \in InBlock THEN fill.entries[i - fill.at + 1]
                                                    ELSE dir[i]]
FillBlock ==
    /\ pc = "fill"
    /\ Change(Filled, BlockOf(fill.at))
    /\ LET k == Len(fill.entries)
           n == Cardinality(InBlock)
       IN  IF n < k
             THEN /\ fill' = [at |-> fill.at + n, entries |-> SubSeq(fill.entries, n + 1, k)]
                  /\ UNCHANGED <<pc, handle>>
             ELSE /\ fill' = NoFill
                  /\ handle' = [index |-> fill.at + n - 1, lfnOrd |-> Need(name) - 1]
                  /\ pc' = IF moving = NotMoving THEN "idle" ELSE "copy"
    /\ UNCHANGED <<clusters, clustersDisk, after, name, old, ghostVars>>

-----------------------------------------------------------------------------
(* The open file.  What is written to it goes through the same cache.      *)
FileData ==
    /\ Idle /\ handle # NoHandle /\ dirty # NoBlock
    /\ disk' = Synced /\ dirty' = NoBlock
    /\ UNCHANGED <<dir, clusters, clustersDisk, pc, after, callVars, ghostVars>>

Sync ==
    /\ Idle /\ handle # NoHandle
    /\ Change(dir, BlockOf(handle.index))
    /\ pc' = "sync"
    /\ UNCHANGED <<clusters, clustersDisk, after, callVars, ghostVars>>

IsSynced == dirty = NoBlock /\ clusters = clustersDisk

\* close() is sync(), and the handle is given up.
Close ==
    /\ Idle /\ handle # NoHandle /\ IsSynced
    /\ handle' = NoHandle /\ name' = NoName
    /\ sure' = [sure EXCEPT ![name] = dir[handle.index].file]
    /\ UNCHANGED <<cardVars, pc, after, old, fill, moving, failed>>

-----------------------------------------------------------------------------
(* remove()                                                                *)
RemoveFile ==
    /\ Idle /\ handle # NoHandle
    /\ pc' = "removeShort"
    /\ old' = [index |-> handle.index, lfnOrd |-> handle.lfnOrd, ord |-> 1]
    /\ sure' = [sure EXCEPT ![name] = None]
    /\ handle' = NoHandle /\ name' = NoName
    /\ UNCHANGED <<cardVars, after, fill, moving, failed>>

\* The short entry is deleted and the card brought up to date.
RemoveShort ==
    /\ pc = "removeShort"
    /\ Change([dir EXCEPT ![old.index] = Deleted], BlockOf(old.index))
    /\ pc' = "sync"
    /\ after' = IF old.lfnOrd = 0 THEN "idle" ELSE "removeLong"
    /\ UNCHANGED <<clusters, clustersDisk, callVars, ghostVars>>

\* A long entry in front of it is deleted; after the last one the card again.
RemoveLong ==
    LET i == old.index - old.ord IN
    /\ pc = "removeLong"
    /\ dir[i].kind = "long" /\ dir[i].ord = old.ord
    /\ Change([dir EXCEPT ![i] = Deleted], BlockOf(i))
    /\ old' = [old EXCEPT !.ord = @ + 1]
    /\ pc' = IF dir[i].last THEN "sync" ELSE pc
    /\ UNCHANGED <<clusters, clustersDisk, after, handle, name, fill, ghostVars>>

-----------------------------------------------------------------------------
(* rename(), after the sync() it begins with.                              *)
Rename(n) ==
    /\ Idle /\ handle # NoHandle /\ IsSynced
    /\ Create(Search(Present, n), n, None)
    /\ old' = [index |-> handle.index, lfnOrd |-> handle.lfnOrd, ord |-> 1]
    /\ moving' = [from |-> name, to |-> n, file |-> dir[handle.index].file,
                 hidden |-> {name, n} \cap Orphans(Present) # {}]
    /\ sure' = [sure EXCEPT ![name] = None]
    /\ UNCHANGED <<clustersDisk, after, handle, failed>>

\* All of the old entry but its name goes into the new one.
Copy ==
    /\ pc = "copy"
    /\ Change([dir EXCEPT ![handle.index].file = moving.file], BlockOf(handle.index))
    /\ pc' = "removeShort"
    /\ UNCHANGED <<clusters, clustersDisk, after, callVars, ghostVars>>

-----------------------------------------------------------------------------
\* The power fails, and the program starts again from what is on the card.
PowerFails ==
    /\ dir' = disk /\ clusters' = clustersDisk /\ dirty' = NoBlock
    /\ pc' = "idle" /\ after' = "idle"
    /\ handle' = NoHandle /\ name' = NoName /\ old' = NoOld /\ fill' = NoFill
    /\ moving' = NotMoving /\ failed' = TRUE
    /\ UNCHANGED <<disk, clustersDisk, sure>>

NextDirectory ==
    \/ SyncData \/ SyncFat \/ FillBlock
    \/ FileData \/ Sync \/ Close
    \/ RemoveFile \/ RemoveShort \/ RemoveLong \/ Copy
    \/ PowerFails
    \/ \E n \in Names : Open(n) \/ Rename(n)

-----------------------------------------------------------------------------
(* Properties.                                                             *)

Stored == Entries(disk, clustersDisk)

\* A name that has been synchronised leads to its file, in the cache and on the card,
\* whatever is created, renamed or removed afterwards and whenever the power fails:
\* unless a failure has left long entries of that name without their short one.
NamesLeadToFiles ==
    \A n \in Names : sure[n] # None =>
        /\ n \in Orphans(Present) \/ FileAt(Present, n) = sure[n]
        /\ n \in Orphans(Stored) \/ FileAt(Stored, n) = sure[n]

\* Without a power failure no long entry is left behind, no two files have the same
\* short name, and a listing comes to every file.
DirectoryIsInOrder ==
    Idle /\ (~failed \/ Orphans(Present) = {}) =>
        LET shorts == {i \in DOMAIN Present : Present[i].kind = "short"} IN
        /\ Orphans(Present) = {}
        /\ \A i, j \in shorts : Present[i].sfn = Present[j].sfn => i = j
        /\ Listing(Present) = {Present[i].file : i \in shorts}

\* While a file is renamed its old or its new name leads to it, on the card as well:
\* unless the new one is in a cluster the FAT on the card does not have yet, or
\* orphans were in the way of the one or the other before.
NothingRenamedIsLost ==
    moving # NotMoving /\ ~moving.hidden /\ clusters = clustersDisk =>
        \E n \in {moving.from, moving.to} : FileAt(Stored, n) = moving.file
=============================================================================
