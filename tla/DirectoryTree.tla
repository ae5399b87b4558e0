--------------------------- MODULE DirectoryTree ---------------------------
(***************************************************************************)
(* The directories of an SdFat volume: mkdir(), rmdir(), rmRfStar(),       *)
(* remove(), rename() and chdir() along paths, file by file and block by   *)
(* block.  A call is a list of steps; each one changes one block in the    *)
(* data cache, which has room for one, or the FAT in its own; what was in  *)
(* the cache goes to the card first.  The power may fail after any step:   *)
(* it leaves what is on the card.                                          *)
(*                                                                         *)
(* An object has one entry here (Directory tells of long names), a         *)
(* directory one cluster of one block, a file one cluster or none.         *)
(***************************************************************************)
EXTENDS Integers, Sequences, FiniteSets, SequencesExt

CONSTANTS
    EntryNames,     \* names of an entry
    Clusters,       \* the numbers of the data clusters
    Room,           \* bound: entries of a directory, which is not extended
    MaxPath,        \* bound: names of a path
    MaxCalls        \* bound

Root == 0           \* its place on the card and, as first cluster, in a ".." entry
NoCluster == -1
Dirs == {Root} \cup Clusters
Places == 1 .. Room

Unused == [kind |-> "free", name |-> "", cluster |-> NoCluster]
Entry(k, n, c) == [kind |-> k, name |-> n, cluster |-> c]
Absent == Entry("none", "", NoCluster)

\* What a block holds: entries and a "..", or the text of a file.
DirBlock(up, es) == [up |-> up, entries |-> es]
Zeroed == DirBlock(NoCluster, [i \in Places |-> Unused])
Text == DirBlock(NoCluster, <<>>)

VARIABLES
    blocks, disk,       \* the blocks, as the program sees them and on the card
    held,               \* the block in the cache that differs from the card's
    fat, fatDisk,       \* clusters in use, in the FAT's cache and on the card
    vwd,                \* the working directory
    todo,               \* steps of the call under way
    new, old,           \* the entries it makes and deletes: directory, place, entry
    made,               \* the cluster mkdir() has allocated
    rest,               \* names that mkdir() has still to make
    rm,                 \* directories rmRfStar() is in, each with its own entry
    \* observation only
    sure,               \* paths that no call is at work on, and where they lead
    shifted,            \* the two paths of rename() and what it moves
    calls               \* calls so far (bounded by MaxCalls)

NoEntry == [dir |-> Root, place |-> 0, entry |-> Absent]
NotShifted == [from |-> <<>>, to |-> <<>>, entry |-> Absent]
Nobody == NoCluster

mediaVars == <<blocks, disk, held, fat, fatDisk>>
workVars == <<todo, new, old, made, rest, rm>>
treeVars == <<mediaVars, vwd, workVars, sure, shifted, calls>>

InitTree ==
    /\ blocks = [c \in Dirs |-> Zeroed] /\ disk = blocks /\ held = Nobody
    /\ fat = {} /\ fatDisk = {}
    /\ vwd = Root
    /\ todo = <<>> /\ new = NoEntry /\ old = NoEntry
    /\ made = NoCluster /\ rest = <<>> /\ rm = <<>>
    /\ sure = {} /\ shifted = NotShifted /\ calls = 0

-----------------------------------------------------------------------------
(* Looking up.                                                             *)

Live(e) == e.kind \in {"file", "dir"}
LivePlaces(b) == {i \in DOMAIN b.entries : Live(b.entries[i])}
PlaceOf(b, n) ==
    LET is == {i \in LivePlaces(b) : b.entries[i].name = n}
    IN  IF is = {} THEN 0 ELSE CHOOSE i \in is : \A j \in is : i <= j
Find(b, n) == IF PlaceOf(b, n) = 0 THEN Absent ELSE b.entries[PlaceOf(b, n)]
FreePlace(b) ==
    LET is == DOMAIN b.entries \ LivePlaces(b)
    IN  IF is = {} THEN 0 ELSE CHOOSE i \in is : \A j \in is : i <= j

\* open() of a path, a directory at a time; a file has nothing below it.
At(d, start, path) ==
    FoldLeft(LAMBDA e, n : IF e.kind = "dir" THEN Find(d[e.cluster], n) ELSE Absent,
             Entry("dir", "", start), path)
Parent(path) == SubSeq(path, 1, Len(path) - 1)

\* The directories that are read on the way, as far as there are any.
Read(start, path) ==
    {At(blocks, start, SubSeq(path, 1, i)).cluster :
       i \in {j \in 0 .. Len(path) - 1 : At(blocks, start, SubSeq(path, 1, j)).kind = "dir"}}

\* What is below a directory: paths and their entries, a level at a time.
Levels == [k \in 1 .. Cardinality(Clusters) + 1 |-> k]
Named(b) == {i \in LivePlaces(b) : PlaceOf(b, b.entries[i].name) = i}
Children(d, t) ==
    IF t[2].kind # "dir" THEN {}
    ELSE LET b == d[t[2].cluster]
         IN  {<<Append(t[1], b.entries[i].name), b.entries[i]>> : i \in Named(b)}
Below(d, c) ==
    FoldLeft(LAMBDA ts, k : ts \cup UNION {Children(d, t) : t \in ts},
             {<<<<>>, Entry("dir", "", c)>>}, Levels)
TreeOf(d) == {t \in Below(d, Root) : t[1] # <<>>}
PathTo(d, c) == (CHOOSE t \in Below(d, Root) : t[2].kind = "dir" /\ t[2].cluster = c)[1]

DirsBelow(d, c) == {t[2].cluster : t \in {u \in Below(d, c) : u[2].kind = "dir"}}
DirsOf(d) == DirsBelow(d, Root)

\* Every entry has clusters of its own, which are in use.
Owners(d) ==
    UNION {{<<c, i>> : i \in {j \in LivePlaces(d[c]) : d[c].entries[j].cluster # NoCluster}} :
             c \in DirsOf(d)}
EntryAt(d, o) == d[o[1]].entries[o[2]]
Sound(d, f) ==
    /\ \A o \in Owners(d) : EntryAt(d, o).cluster \in f
    /\ \A o, p \in Owners(d) : EntryAt(d, o).cluster = EntryAt(d, p).cluster => o = p

-----------------------------------------------------------------------------
(* The caches.                                                             *)

Flushed == IF held = Nobody THEN disk ELSE [disk EXCEPT ![held] = blocks[held]]

\* A block is fetched and changed; one is only read.
Touch(c, b) ==
    /\ blocks' = [blocks EXCEPT ![c] = b]
    /\ disk' = IF held = c THEN disk ELSE Flushed
    /\ held' = c
ReadOnly(cs) ==
    /\ UNCHANGED blocks
    /\ IF cs \subseteq {held} THEN UNCHANGED <<disk, held>>
       ELSE disk' = Flushed /\ held' = Nobody

SetEntry(o, e) == Touch(o.dir, [blocks[o.dir] EXCEPT !.entries[o.place] = e])

-----------------------------------------------------------------------------
(* The calls.                                                              *)

Idle == todo = <<>> /\ rest = <<>> /\ rm = <<>>
Begin == Idle /\ calls < MaxCalls /\ calls' = calls + 1

Starts == {Root, vwd}
Paths == UNION {[1 .. k -> EntryNames] : k \in 1 .. MaxPath}

syncSteps == <<"data", "fat">>
createSteps == <<"entry", "text", "own">> \o syncSteps
mkdirSteps ==
    <<"entry", "cluster", "own">> \o syncSteps \o <<"attribute", "dots">> \o syncSteps
removeSteps == <<"free", "delete">> \o syncSteps

renameFileSteps == <<"entry", "copy", "delete">> \o syncSteps

\* Mutant: rename() leaves the ".." of a directory as it is.
renameDirStepsOldUp == mkdirSteps \o <<"copy", "freeMade", "delete">> \o syncSteps
renameDirSteps == mkdirSteps \o <<"copy", "freeMade", "dotdot", "delete">> \o syncSteps

Full(start, path) == PathTo(blocks, start) \o path
Prefixed(p, q) == Len(p) >= Len(q) /\ SubSeq(p, 1, Len(q)) = q
Forget(p) == {s \in sure : ~Prefixed(s[1], p)}

Target(start, path) ==
    LET up == At(blocks, start, Parent(path))
    IN  [dir |-> up.cluster, place |-> PlaceOf(blocks[up.cluster], Last(path)),
         entry |-> At(blocks, start, path)]
NewTarget(start, path, k) ==
    LET up == At(blocks, start, Parent(path))
    IN  [dir |-> up.cluster, place |-> FreePlace(blocks[up.cluster]),
         entry |-> Entry(k, Last(path), NoCluster)]

CanMake(start, path) ==
    /\ At(blocks, start, Parent(path)).kind = "dir"
    /\ At(blocks, start, path) = Absent
    /\ FreePlace(blocks[At(blocks, start, Parent(path)).cluster]) # 0

\* A new file is opened, a block of it is written, and it is closed.
CreateFile(start, path) ==
    /\ Begin /\ CanMake(start, path)
    /\ todo' = createSteps /\ new' = NewTarget(start, path, "file")
    /\ ReadOnly(Read(start, path))
    /\ UNCHANGED <<fat, fatDisk, vwd, old, made, rest, rm, sure, shifted>>

\* mkdir(path, pFlag): the first name that is missing, and then those that follow it.
Mkdir(start, path, pFlag) ==
    \E k \in 1 .. Len(path) :
      /\ Begin /\ CanMake(start, SubSeq(path, 1, k))
      /\ k = Len(path) \/ pFlag
      /\ todo' = mkdirSteps /\ new' = NewTarget(start, SubSeq(path, 1, k), "dir")
      /\ rest' = SubSeq(path, k + 1, Len(path))
      /\ ReadOnly(Read(start, path))
      /\ UNCHANGED <<fat, fatDisk, vwd, old, made, rm, sure, shifted>>

\* The directory just made is the parent of the next.
MkdirGoesOn ==
    /\ todo = <<>> /\ rest # <<>>
    /\ todo' = mkdirSteps
    /\ new' = NewTarget(made, <<Head(rest)>>, "dir")
    /\ rest' = Tail(rest)
    /\ UNCHANGED <<mediaVars, vwd, old, made, rm, sure, shifted, calls>>

InUse(c) == vwd \in DirsBelow(blocks, c)

\* remove() opens for writing, which a directory refuses; rmdir() wants an empty one.
RemovePath(start, path) ==
    /\ Begin /\ At(blocks, start, path).kind = "file"
    /\ todo' = removeSteps /\ old' = Target(start, path)
    /\ sure' = Forget(Full(start, path))
    /\ ReadOnly(Read(start, path))
    /\ UNCHANGED <<fat, fatDisk, vwd, new, made, rest, rm, shifted>>

IsEmpty(c) == LivePlaces(blocks[c]) = {}
Rmdir(start, path) ==
    LET e == At(blocks, start, path) IN
    /\ Begin /\ e.kind = "dir" /\ IsEmpty(e.cluster) /\ ~InUse(e.cluster)
    /\ todo' = removeSteps /\ old' = Target(start, path)
    /\ sure' = Forget(Full(start, path))
    /\ ReadOnly(Read(start, path) \cup {e.cluster})
    /\ UNCHANGED <<fat, fatDisk, vwd, new, made, rest, rm, shifted>>

\* rmRfStar() of a directory, which is not in use, or of the root.
RmRfStar(start, path) ==
    LET e == At(blocks, start, path) IN
    /\ Begin /\ e.kind = "dir" /\ ~InUse(e.cluster)
    /\ rm' = <<Target(start, path)>>
    /\ sure' = Forget(Full(start, path))
    /\ ReadOnly(Read(start, path))
    /\ UNCHANGED <<fat, fatDisk, vwd, todo, new, old, made, rest, shifted>>

RmRfStarRoot ==
    /\ Begin /\ vwd = Root
    /\ rm' = <<[NoEntry EXCEPT !.entry = Entry("dir", "", Root)]>>
    /\ sure' = {}
    /\ UNCHANGED <<mediaVars, vwd, todo, new, old, made, rest, shifted>>

\* Its next entry: a file is removed, a directory entered; one without entries is left
\* and, but for the root, removed.
RmGoesOn ==
    LET c == Last(rm).entry.cluster
        i == CHOOSE j \in LivePlaces(blocks[c]) : \A k \in LivePlaces(blocks[c]) : j <= k
        o == [dir |-> c, place |-> i, entry |-> blocks[c].entries[i]]
    IN
    /\ todo = <<>> /\ rm # <<>>
    /\ IF IsEmpty(c)
         THEN /\ rm' = Front(rm)
              /\ IF c = Root THEN UNCHANGED <<todo, old>>
                 ELSE todo' = removeSteps /\ old' = Last(rm)
         ELSE IF o.entry.kind = "dir" THEN rm' = Append(rm, o) /\ UNCHANGED <<todo, old>>
         ELSE todo' = removeSteps /\ old' = o /\ UNCHANGED rm
    /\ ReadOnly({c})
    /\ UNCHANGED <<fat, fatDisk, vwd, new, made, rest, sure, shifted, calls>>

\* rename(), of a directory not into itself.
Rename(start, path, newStart, newPath) ==
    LET e == At(blocks, start, path) IN
    /\ Begin /\ e # Absent /\ CanMake(newStart, newPath)
    /\ e.kind = "dir" => ~Prefixed(Full(newStart, newPath), Full(start, path))
    /\ todo' = IF e.kind = "dir" THEN renameDirSteps ELSE renameFileSteps
    /\ old' = Target(start, path) /\ new' = NewTarget(newStart, newPath, e.kind)
    /\ sure' = Forget(Full(start, path))
    /\ shifted' = [from |-> Full(start, path), to |-> Full(newStart, newPath), entry |-> e]
    /\ disk' = Flushed /\ held' = Nobody
    /\ UNCHANGED <<blocks, fat, fatDisk, vwd, made, rest, rm>>

Chdir(start, path) ==
    /\ Begin /\ At(blocks, start, path).kind = "dir"
    /\ vwd' = At(blocks, start, path).cluster
    /\ ReadOnly(Read(start, path))
    /\ UNCHANGED <<fat, fatDisk, workVars, sure, shifted>>

ChdirRoot ==
    /\ Begin /\ vwd # Root
    /\ vwd' = Root
    /\ UNCHANGED <<mediaVars, workVars, sure, shifted>>

-----------------------------------------------------------------------------
(* The steps.                                                              *)

Step(s) == todo # <<>> /\ Head(todo) = s /\ todo' = Tail(todo)
Kept == UNCHANGED <<vwd, rest, rm, calls>>

\* mkdir() makes a file of no length first.
MakeEntry ==
    /\ Step("entry")
    /\ SetEntry(new, Entry("file", new.entry.name, NoCluster))
    /\ made' = NoCluster
    /\ UNCHANGED <<fat, fatDisk, new, old, sure, shifted>> /\ Kept

\* allocateCluster(), and the first block of the new cluster in the cache.
Allocate ==
    /\ \/ Step("cluster") /\ Touch(made', Zeroed)
       \/ Step("text") /\ Touch(made', Text)
    /\ fat' = fat \cup {made'}
    /\ UNCHANGED <<fatDisk, new, old, sure, shifted>> /\ Kept

\* (Which of the free ones it is makes no difference here: FatVolume has the search.)
AllocateFirst ==
    /\ Clusters \ fat # {}
    /\ made' = CHOOSE c \in Clusters \ fat : \A b \in Clusters \ fat : c <= b
    /\ Allocate

\* No cluster is left: the call ends, and the file of no length stays.  Only a file is
\* closed.
NoRoom ==
    /\ Clusters \subseteq fat
    /\ todo # <<>> /\ Head(todo) \in {"cluster", "text"}
    /\ todo' = IF Head(todo) = "text" THEN syncSteps ELSE <<>>
    /\ rest' = <<>> /\ shifted' = NotShifted
    /\ new' = NoEntry /\ old' = NoEntry
    /\ UNCHANGED <<mediaVars, vwd, made, rm, sure, calls>>

ChangeEntry ==
    /\ \/ Step("own") /\ SetEntry(new, Entry("file", new.entry.name, made))
       \/ Step("attribute") /\ SetEntry(new, Entry("dir", new.entry.name, made))
       \/ Step("copy") /\ SetEntry(new, Entry(old.entry.kind, new.entry.name, old.entry.cluster))
       \/ Step("delete") /\ SetEntry(old, Unused)
    /\ UNCHANGED <<fat, fatDisk, new, old, made, sure, shifted>> /\ Kept

Dots ==
    /\ \/ Step("dots") /\ Touch(made, [blocks[made] EXCEPT !.up = new.dir])
       \/ Step("dotdot")
            /\ Touch(old.entry.cluster, [blocks[old.entry.cluster] EXCEPT !.up = new.dir])
    /\ UNCHANGED <<fat, fatDisk, new, old, made, sure, shifted>> /\ Kept

\* freeChain(); of the directory made by rename() the ".." is read first.
FreeClusters ==
    /\ \/ Step("free") /\ fat' = fat \ {old.entry.cluster} /\ UNCHANGED <<blocks, disk, held>>
       \/ Step("freeMade") /\ fat' = fat \ {made} /\ ReadOnly({made})
    /\ UNCHANGED <<fatDisk, new, old, made, sure, shifted>> /\ Kept

\* cacheSync(): the data, then the FAT; when a call has done its last step all paths are
\* sure.  (What a free cluster holds is then of no interest.)
Cleared == [c \in Dirs |-> IF c \in Clusters \ fat THEN Zeroed ELSE blocks[c]]
CacheSync ==
    /\ \/ Step("data") /\ disk' = Flushed /\ held' = Nobody /\ UNCHANGED <<blocks, fatDisk>>
       \/ /\ Step("fat") /\ fatDisk' = fat
          /\ IF todo' = <<>> THEN disk' = Cleared /\ blocks' = Cleared
             ELSE UNCHANGED <<blocks, disk>>
          /\ UNCHANGED held
    /\ IF todo' = <<>> /\ rm = <<>> /\ rest = <<>>
         THEN /\ sure' = TreeOf(blocks)
              /\ shifted' = NotShifted
         ELSE UNCHANGED <<sure, shifted>>
    /\ new' = IF todo' = <<>> THEN NoEntry ELSE new
    /\ old' = IF todo' = <<>> THEN NoEntry ELSE old
    /\ made' = IF todo' = <<>> /\ rest = <<>> THEN NoCluster ELSE made
    /\ UNCHANGED fat /\ Kept

NextTree ==
    \/ \E start \in Starts, path \in Paths :
         \/ CreateFile(start, path) \/ RemovePath(start, path)
         \/ \E pFlag \in BOOLEAN : Mkdir(start, path, pFlag)
         \/ Rmdir(start, path) \/ RmRfStar(start, path) \/ Chdir(start, path)
         \/ \E newStart \in Starts, newPath \in Paths : Rename(start, path, newStart, newPath)
    \/ RmRfStarRoot \/ ChdirRoot
    \/ MkdirGoesOn \/ RmGoesOn
    \/ MakeEntry \/ AllocateFirst \/ NoRoom \/ ChangeEntry \/ Dots \/ FreeClusters \/ CacheSync
    \/ Idle /\ UNCHANGED treeVars        \* the program does something else

-----------------------------------------------------------------------------
(* Properties.                                                             *)

\* Between two calls, the directories are a tree: no two
\* entries share a cluster, no cluster is in use without an entry, every ".." leads to the
\* directory it is in, names are unique, and the working directory is one of them.
TreeIsWhole ==
    Idle =>
      /\ Sound(blocks, fat)
      /\ fat = {EntryAt(blocks, o).cluster : o \in Owners(blocks)}
      /\ \A o \in Owners(blocks) :
            EntryAt(blocks, o).kind = "dir" => blocks[EntryAt(blocks, o).cluster].up = o[1]
      /\ \A c \in DirsOf(blocks) : \A i, j \in LivePlaces(blocks[c]) :
            blocks[c].entries[i].name = blocks[c].entries[j].name => i = j
      /\ vwd \in DirsOf(blocks)

\* On the card, at every moment: a path that no call is at work on leads where it led when
\* the last call ended, to a cluster in use; and what is renamed is found under its old
\* name or its new one.
PathsAreKept ==
    /\ \A s \in sure :
         /\ At(disk, Root, s[1]) = s[2]
         /\ s[2].cluster # NoCluster => s[2].cluster \in fatDisk
    /\ shifted # NotShifted =>
         \E p \in {shifted.from, shifted.to} :
            /\ At(disk, Root, p).cluster = shifted.entry.cluster
            /\ At(disk, Root, p).kind = shifted.entry.kind
=============================================================================
