----------------------------- MODULE MCRecovery -----------------------------
(***************************************************************************)
(* What is on the card whenever the power fails, for TLC: a behaviour is   *)
(* one of the temporary file and its recovery, one of a directory and the  *)
(* long names in it, or one of a tree of directories, with the others at   *)
(* rest.                                                                   *)
(***************************************************************************)
EXTENDS TempFileRecovery, TLC

CONSTANTS ShortNames, LongNames, BlockEntries, MaxClusters, MaxSeq,
          EntryNames, Clusters, Room, MaxPath, MaxCalls
VARIABLES dir, disk, dirty, clusters, clustersDisk, dirPc, after, handle, name, old, fill,
          sure, moving, failed,
          blocks, treeDisk, held, fat, fatDisk, vwd, todo, new, treeOld, made, rest, rm,
          treeSure, shifted, calls,
          part        \* what the behaviour is about

ASSUME NameAssumption ==
    /\ ShortNames \subseteq Nat \ {0} /\ LongNames \subseteq Nat \ {0, 1}
    /\ ShortNames \cap LongNames = {}
ASSUME DirectoryAssumption ==
    BlockEntries \in Nat \ {0} /\ MaxClusters \in Nat \ {0} /\ MaxSeq \in Nat

ASSUME TreeAssumption ==
    /\ Clusters \subseteq Nat \ {0} /\ Room \in Nat \ {0} /\ MaxPath \in Nat \ {0}
    /\ MaxCalls \in Nat /\ EntryNames # {}

Directory == INSTANCE Directory WITH pc <- dirPc
Tree == INSTANCE DirectoryTree WITH disk <- treeDisk, old <- treeOld, sure <- treeSure
NameSymmetry == Permutations(EntryNames)

dirVars == <<dir, disk, dirty, clusters, clustersDisk, dirPc, after, handle, name, old, fill,
             sure, moving, failed>>
treeVars == <<blocks, treeDisk, held, fat, fatDisk, vwd, todo, new, treeOld, made, rest, rm,
              treeSure, shifted, calls>>

InitParts ==
    /\ InitRecovery /\ Directory!InitDirectory /\ Tree!InitTree
    /\ \/ part = "file"
       \/ /\ part \in {"names", "tree"}
          /\ ones /\ cause = "creating" /\ size = 0 /\ blank = {}

OfFile(A) == part = "file" /\ A /\ UNCHANGED <<dirVars, treeVars, part>>
OfNames(A) == part = "names" /\ A /\ UNCHANGED <<recoveryVars, treeVars, part>>
OfTree(A) == part = "tree" /\ A /\ UNCHANGED <<recoveryVars, dirVars, part>>

NextParts == OfFile(NextRecovery) \/ OfNames(Directory!NextDirectory) \/ OfTree(Tree!NextTree)
SpecParts == InitParts /\ [][NextParts]_<<recoveryVars, dirVars, treeVars, part>>

\* The directory: what is synchronised is found under its name, without orphans
\* everything is found, by its name and in a listing; and whenever the power fails in
\* rename() a name leads to the file.
NamesAreKept ==
    part = "names" =>
        /\ Directory!NamesLeadToFiles /\ Directory!DirectoryIsInOrder
        /\ Directory!NothingRenamedIsLost

\* Between two calls the directories are a tree, with a ".." to the directory above, and
\* the clusters in use are those of its entries.  Whenever the power fails in mkdir(),
\* rmdir(), rmRfStar(), remove() or rename() the card holds every file and directory that
\* the call is not about, and what it renames.
TreeIsKept == part = "tree" => Tree!TreeIsWhole /\ Tree!PathsAreKept
=============================================================================
