------------------------------- MODULE MCVolume -------------------------------
(***************************************************************************)
(* The volume, for TLC: a behaviour is one of a card that is formatted,    *)
(* mounted and wiped, one of the clusters of a volume that is mounted, one *)
(* of the bytes of its file allocation table, one of the name of a file,   *)
(* or one of the stamps of two.                                            *)
(***************************************************************************)
EXTENDS FatVolume, SdFormatter

CONSTANTS
    BlockSize, LastEntry, Links, MaxPuts,
    Letters, MaxLength, BaseLength, ExtLength, PerEntry, Sizes,
    StampFiles, MaxStamps

ASSUME TableAssumption ==
    /\ BlockSize \in Nat /\ BlockSize % 4 = 0 /\ BlockSize > 0 /\ LastEntry > 2
    /\ Links \subseteq 2 .. LastEntry
ASSUME NamesAssumption == BaseLength > 1 /\ ExtLength > 0 /\ PerEntry > 0

VARIABLES
    fatType, table, given, puts,
    path, size, nameEntry, name, shown, stage,
    dateTime, entries, dirty, meant, calls,
    part        \* what the behaviour is about

\* The second the volume knows first and last, and one of a clock that was not set.
Time(y, mo, d, h, mi, s) ==
    [year |-> y, month |-> mo, day |-> d, hour |-> h, minute |-> mi, second |-> s]
SomeTimes == {Time(1970, 1, 1, 0, 0, 0), Time(1980, 1, 1, 0, 0, 29),
              Time(2107, 12, 31, 23, 59, 59)}

Table == INSTANCE FatTable WITH LastCluster <- LastEntry
Names == INSTANCE LongName WITH entry <- nameEntry
Stamps == INSTANCE FileStamp WITH Times <- SomeTimes

tableVars == <<fatType, table, given, puts>>
nameVars == <<path, size, nameEntry, name, shown, stage>>
stampVars == <<dateTime, entries, dirty, meant, calls>>
allVars == <<vars, formatVars, tableVars, nameVars, stampVars, part>>
SmallestCard == CHOOSE n \in StandardCards : \A m \in StandardCards : n <= m
SmallestSize == CHOOSE n \in Sizes : \A m \in Sizes : n <= m

InitParts ==
    /\ part \in {"card", "clusters", "table", "names", "stamps"}
    /\ Init
    /\ part # "clusters" => root = {}
    /\ InitFormat
    /\ part # "card" => type = "SD" /\ cardSizeBlocks = SmallestCard
    /\ Table!InitTable
    /\ part # "table" => fatType = 16
    /\ Names!InitName
    /\ part # "names" => path = <<>> /\ size = SmallestSize
    /\ Stamps!InitStamps
    /\ part # "stamps" => ~dateTime

OfCard(A) ==
    part = "card" /\ A /\ UNCHANGED <<vars, tableVars, nameVars, stampVars, part>>
OfClusters(A) ==
    part = "clusters" /\ A /\ UNCHANGED <<formatVars, tableVars, nameVars, stampVars, part>>
OfTable(A) ==
    part = "table" /\ A /\ UNCHANGED <<vars, formatVars, nameVars, stampVars, part>>
OfName(A) ==
    part = "names" /\ A /\ UNCHANGED <<vars, formatVars, tableVars, stampVars, part>>
OfStamps(A) ==
    part = "stamps" /\ A /\ UNCHANGED <<vars, formatVars, tableVars, nameVars, part>>

NextPart ==
    \/ OfCard(NextFormat) \/ OfClusters(Next)
    \/ OfTable(Table!NextTable) \/ OfName(Names!NextName) \/ OfStamps(Stamps!NextStamps)
\* A program that has used up its calls, and a name that was read, rest.
PartRests ==
    /\ \/ part = "table" /\ puts = MaxPuts
       \/ part = "names" /\ stage = "end"
       \/ part = "stamps" /\ calls = MaxStamps
    /\ UNCHANGED allVars

SpecParts ==
    /\ InitParts
    /\ [][NextPart \/ PartRests]_allVars
    /\ WF_allVars(OfClusters(Loops))

\* What the volume keeps of a file beside its blocks is read as it was written: the links
\* of its clusters, whatever was put beside them, the letters of its name, and its dates
\* and times (fatPut() and fatGet(), open() and getName(), sync() and timestamp()).
EntriesAreReadBack ==
    /\ part = "table" => Table!EntriesAreKept
    /\ part = "names" => Names!NameIsReadBack
    /\ part = "stamps" => Stamps!StampsAreMeant
=============================================================================
