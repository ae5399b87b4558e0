------------------------------ MODULE FatVolume ------------------------------
(***************************************************************************)
(* The cluster allocation of SdFat's FatVolume, as the logger's files use  *)
(* it: a temporary file created contiguous and cut to its length, a text   *)
(* file that grows by a cluster at a time, files removed.  The loops of    *)
(* allocContiguous(), allocateCluster() and freeChain() are taken one turn *)
(* at a time; card errors and the write-back of the FAT are left out.      *)
(***************************************************************************)
EXTENDS Integers, FiniteSets

CONSTANTS
    LastCluster,    \* m_lastCluster; the first cluster is 2
    Files,          \* names that files can have
    MaxCount        \* clusters in the longest file created contiguous

ASSUME ClustersAssumption == LastCluster \in Nat /\ LastCluster >= 2
ASSUME CountAssumption == MaxCount \in 1 .. LastCluster

Clusters == 2 .. LastCluster
Unused == 0         \* value of a free cluster's FAT entry
Eoc == -1           \* value of a chain's last
NoFile == [first |-> 0, clusters |-> 0]

VARIABLES
    fat,            \* the file allocation table
    searchStart,    \* m_allocSearchStart
    root,           \* the clusters of the root directory: none on FAT16
    entry,          \* first cluster and length of each file
    pc,
    file,           \* the file that is worked upon
    count, startCluster, bgnCluster, endCluster, setStart,
    current,        \* last cluster of the file that grows, and the one freed
    left            \* clusters that stay when a file is cut

searchVars == <<count, startCluster, bgnCluster, endCluster, setStart>>
localVars == <<file, searchVars, current, left>>
vars == <<fat, searchStart, root, entry, pc, localVars>>

\* No call is under way, and a call returns.
NoName == "none"
Idle ==
    /\ pc = "idle"
    /\ file = NoName
    /\ count = 0 /\ startCluster = 0 /\ bgnCluster = 0 /\ endCluster = 0
    /\ setStart = TRUE
    /\ current = 0 /\ left = 0

Return ==
    /\ pc' = "idle"
    /\ file' = NoName
    /\ count' = 0 /\ startCluster' = 0 /\ bgnCluster' = 0 /\ endCluster' = 0
    /\ setStart' = TRUE
    /\ current' = 0 /\ left' = 0

\* init(): with FAT32 the root directory has a cluster of its own.
Init ==
    /\ root \in {{}, {2}}
    /\ fat = [c \in Clusters |-> IF c \in root THEN Eoc ELSE Unused]
    /\ searchStart = 1
    /\ entry = [f \in Files |-> NoFile]
    /\ Idle

\* The card is mounted anew, at a boot.
Mount ==
    /\ pc = "idle"
    /\ searchStart' = 1
    /\ UNCHANGED <<fat, root, entry, pc, localVars>>

-----------------------------------------------------------------------------
(* allocContiguous() *)

CreateContiguous ==
    /\ pc = "idle"
    /\ \E f \in Files, n \in 1 .. MaxCount :
         /\ entry[f] = NoFile
         /\ file' = f /\ count' = n
    /\ startCluster' = searchStart
    /\ bgnCluster' = searchStart + 1 /\ endCluster' = searchStart + 1
    /\ setStart' = TRUE
    /\ pc' = "search"
    /\ UNCHANGED <<fat, searchStart, root, entry, current, left>>

\* The cluster of this turn and where its run begins: at the end of the FAT the
\* search goes on from the beginning.  Mutant: the run begun is not given up.
WrappedBgnKept == bgnCluster
WrappedBgn == IF endCluster > LastCluster THEN 2 ELSE bgnCluster
WrappedEnd == IF endCluster > LastCluster THEN 2 ELSE endCluster

IsFree(c) == fat[c] = Unused
RunIsLongEnough == WrappedEnd - WrappedBgn + 1 = count

SearchOn ==
    /\ pc = "search"
    /\ ~IsFree(WrappedEnd) \/ ~RunIsLongEnough
    /\ WrappedEnd # startCluster
    /\ bgnCluster' = IF IsFree(WrappedEnd) THEN WrappedBgn ELSE WrappedEnd + 1
    /\ setStart' = (setStart /\ IsFree(WrappedEnd))
    /\ endCluster' = WrappedEnd + 1
    /\ UNCHANGED <<fat, searchStart, root, entry, pc, file, count, startCluster,
                   current, left>>

\* All clusters have been checked: createContiguous() removes the entry.
NoRoom ==
    /\ pc = "search"
    /\ ~IsFree(WrappedEnd) \/ ~RunIsLongEnough
    /\ WrappedEnd = startCluster
    /\ Return
    /\ UNCHANGED <<fat, searchStart, root, entry>>

SearchStartAfter == IF setStart THEN WrappedEnd + 1 ELSE searchStart

RunFound ==
    /\ pc = "search"
    /\ IsFree(WrappedEnd) /\ RunIsLongEnough
    /\ searchStart' = SearchStartAfter
    /\ bgnCluster' = WrappedBgn /\ endCluster' = WrappedEnd
    /\ fat' = [fat EXCEPT ![WrappedEnd] = Eoc]
    /\ pc' = "link"
    /\ UNCHANGED <<root, entry, file, count, startCluster, setStart, current, left>>

NextInRun == endCluster

LinkOne ==
    /\ pc = "link" /\ endCluster > bgnCluster
    /\ fat' = [fat EXCEPT ![endCluster - 1] = NextInRun]
    /\ endCluster' = endCluster - 1
    /\ UNCHANGED <<searchStart, root, entry, pc, file, count, startCluster,
                   bgnCluster, setStart, current, left>>

Linked ==
    /\ pc = "link" /\ endCluster = bgnCluster
    /\ entry' = [entry EXCEPT ![file] = [first |-> bgnCluster, clusters |-> count]]
    /\ Return
    /\ UNCHANGED <<fat, searchStart, root>>

\* contiguousRange(): the clusters from the first on, as long as each leads to the next;
\* no range if the last of them does not end the chain.
contiguousRange(f) ==
    LET first == entry[f].first
        last == CHOOSE c \in first .. LastCluster :
                  fat[c] # c + 1 /\ \A d \in first .. c - 1 : fat[d] = d + 1
    IN  IF fat[last] = Eoc THEN first .. last ELSE {}

-----------------------------------------------------------------------------
(* allocateCluster(): a file grows by one cluster. *)

\* The i-th cluster of a file's chain.
ClusterAt(f, i) ==
    LET walk[k \in 1 .. i] == IF k = 1 THEN entry[f].first ELSE fat[walk[k - 1]]
    IN  walk[i]
LastOf(f) == ClusterAt(f, entry[f].clusters)

Grow ==
    /\ pc = "idle"
    /\ \E f \in Files :
         /\ entry[f].clusters < MaxCount
         /\ file' = f
         /\ current' = IF entry[f] = NoFile THEN 0 ELSE LastOf(f)
    /\ startCluster' = IF current' = 0 THEN searchStart ELSE current'
    /\ endCluster' = startCluster'
    /\ pc' = "find"
    /\ UNCHANGED <<fat, searchStart, root, entry, count, bgnCluster, setStart, left>>

NextToFind == IF endCluster + 1 > LastCluster THEN 2 ELSE endCluster + 1

FindOn ==
    /\ pc = "find"
    /\ ~IsFree(NextToFind)
    /\ NextToFind # startCluster
    /\ endCluster' = NextToFind
    /\ UNCHANGED <<fat, searchStart, root, entry, pc, file, count, startCluster,
                   bgnCluster, setStart, current, left>>

\* All clusters have been checked: the write fails.
FoundNone ==
    /\ pc = "find"
    /\ ~IsFree(NextToFind)
    /\ NextToFind = startCluster
    /\ Return
    /\ UNCHANGED <<fat, searchStart, root, entry>>

AppendCluster(c) ==
    fat' = [x \in Clusters |-> IF x = c THEN Eoc
                               ELSE IF x = current THEN c ELSE fat[x]]

FoundOne ==
    /\ pc = "find"
    /\ IsFree(NextToFind)
    /\ AppendCluster(NextToFind)
    /\ searchStart' = IF current = 0 THEN NextToFind ELSE searchStart
    /\ entry' = [entry EXCEPT ![file] =
                   [first |-> IF current = 0 THEN NextToFind ELSE @.first,
                    clusters |-> @.clusters + 1]]
    /\ Return
    /\ UNCHANGED root

-----------------------------------------------------------------------------
(* truncate() and remove(): freeChain() *)

\* The chain behind the last cluster that stays is freed, from its start.
Cut ==
    /\ pc = "idle"
    /\ \E f \in Files :
         /\ entry[f] # NoFile
         /\ file' = f
         /\ left' \in 0 .. entry[f].clusters - 1
         /\ current' = ClusterAt(f, left' + 1)
    /\ pc' = "free"
    /\ UNCHANGED <<fat, searchStart, root, entry, searchVars>>

\* Mutant: the last cluster of the chain is not freed.
NextFreedOrLast(next) == IF next = Eoc \/ fat[next] = Eoc THEN "end" ELSE "free"
AfterFreed(next) == IF next = Eoc THEN "end" ELSE "free"

FreeOne ==
    /\ pc = "free"
    /\ fat' = [fat EXCEPT ![current] = Unused]
    /\ searchStart' = IF current < searchStart THEN current ELSE searchStart
    /\ current' = fat[current]
    /\ pc' = AfterFreed(fat[current])
    /\ UNCHANGED <<root, entry, file, searchVars, left>>

\* The last cluster that stays becomes the end of the chain.
EndChain ==
    /\ pc = "end"
    /\ IF left = 0
         THEN entry' = [entry EXCEPT ![file] = NoFile] /\ UNCHANGED fat
         ELSE /\ entry' = [entry EXCEPT ![file].clusters = left]
              /\ fat' = [fat EXCEPT ![ClusterAt(file, left)] = Eoc]
    /\ Return
    /\ UNCHANGED <<searchStart, root>>

Loops ==
    \/ SearchOn \/ NoRoom \/ RunFound \/ LinkOne \/ Linked
    \/ FindOn \/ FoundNone \/ FoundOne
    \/ FreeOne \/ EndChain

Next == Mount \/ CreateContiguous \/ Grow \/ Cut \/ Loops

Spec == Init /\ [][Next]_vars
FairSpec == Spec /\ WF_vars(Loops)

-----------------------------------------------------------------------------
TypeOK ==
    /\ fat \in [Clusters -> {Unused, Eoc} \cup Clusters]
    /\ searchStart \in 1 .. LastCluster + 1
    /\ root \in SUBSET Clusters
    /\ entry \in [Files -> [first : {0} \cup Clusters, clusters : 0 .. LastCluster]]
    /\ pc \in {"idle", "search", "link", "find", "free", "end"}
    /\ file \in Files \cup {NoName}
    /\ count \in 0 .. MaxCount
    /\ startCluster \in 0 .. LastCluster + 1
    /\ bgnCluster \in 0 .. LastCluster + 2
    /\ endCluster \in 0 .. LastCluster + 2
    /\ setStart \in BOOLEAN
    /\ current \in {0, Eoc} \cup Clusters
    /\ left \in 0 .. LastCluster

\* The clusters of a file by its length, and the files not worked upon.
ClustersOf(f) == {ClusterAt(f, i) : i \in 1 .. entry[f].clusters}
AtRest == IF pc \in {"free", "end"} THEN Files \ {file} ELSE Files

\* Every file has a chain of its own: it reaches the length in its entry, ends
\* there, and shares no cluster with another file or with the root directory.
ChainsAreDisjoint ==
    \A f \in AtRest :
        entry[f] # NoFile =>
            /\ ClustersOf(f) \subseteq Clusters \ root
            /\ Cardinality(ClustersOf(f)) = entry[f].clusters
            /\ fat[LastOf(f)] = Eoc
            /\ \A g \in AtRest \ {f} : ClustersOf(f) \cap ClustersOf(g) = {}

\* No cluster is lost: between two calls each one is free, or in a file, or in
\* the root directory.
NoClusterLost ==
    pc = "idle" =>
        {c \in Clusters : ~IsFree(c)} = root \cup UNION {ClustersOf(f) : f \in Files}

\* contiguousRange() finds a range where the clusters of a file are one, and only there.
RangeIsTheFile ==
    \A f \in AtRest :
        entry[f] # NoFile =>
            contiguousRange(f) =
                LET first == entry[f].first
                    last == first + entry[f].clusters - 1
                IN  IF \A i \in 1 .. entry[f].clusters : ClusterAt(f, i) = first + i - 1
                    THEN first .. last ELSE {}

\* The volume is in order: chains end where their entries say and stay apart, what is in
\* no chain is free, and a file in one piece, and no other, is seen to be contiguous.
VolumeIsInOrder == TypeOK /\ ChainsAreDisjoint /\ NoClusterLost /\ RangeIsTheFile

\* Places where a file of count clusters would fit.
Runs(n) == {b \in Clusters : b + n - 1 <= LastCluster
                               /\ \A c \in b .. b + n - 1 : IsFree(c)}

\* allocContiguous() finds room: when it gives up there is none, but perhaps
\* around the cluster at which the search began and ended; that one run it sees
\* only in two parts.
RoomMissedOnlyAtStart ==
    [][NoRoom => \A b \in Runs(count) :
                   b <= startCluster /\ startCluster < b + count - 1]_vars

\* A search for which there is room ends, wherever it begins.
RoomEndsSearch ==
    \A f \in Files :
        pc = "search" /\ file = f /\ Runs(count) # {} ~> pc # "search"

\* The range that is erased and written block by block is the room found, and the file's.
RangeIsTheRoom ==
    [][\A f \in Files :
         Linked /\ file = f =>
             contiguousRange(f)' = bgnCluster .. bgnCluster + count - 1]_vars

\* allocContiguous() finds the room there is, in the end, and contiguousRange() is that
\* room, whatever became of the volume before.
RoomIsFound == RoomMissedOnlyAtStart /\ RoomEndsSearch /\ RangeIsTheRoom
=============================================================================
