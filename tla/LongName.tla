------------------------------ MODULE LongName ------------------------------
(***************************************************************************)
(* The letters of a file's name, from the path that open() is given to the *)
(* entries of the directory and back: parsePathName(), the part of open()  *)
(* that fills the entries, getName() and printName().  Where the entries   *)
(* are is in module Directory; names in Unicode, which only other systems  *)
(* write, are left out.                                                    *)
(***************************************************************************)
EXTENDS Integers, Sequences, FiniteSets, SequencesExt

CONSTANTS
    Letters,        \* characters of a path
    MaxLength,      \* of a path
    BaseLength, ExtLength,      \* 8 and 3
    PerEntry,       \* characters in an entry of a long name: 13
    Sizes           \* of the caller's buffer

VARIABLES
    path,           \* what open() is given, one component
    size,           \* what getName() is given
    entry,          \* the file's entries in the directory
    name, shown,    \* what getName() leaves in the buffer, and printName() prints
    stage

nameVars == <<path, size, entry, name, shown, stage>>

Lower == [a |-> "A", b |-> "B"]
Upper == [A |-> "a", B |-> "b"]
Capital(c) == IF c \in DOMAIN Lower THEN Lower[c] ELSE c
Small(c) == IF c \in DOMAIN Upper THEN Upper[c] ELSE c
Code == [a |-> 97, b |-> 98, A |-> 65, B |-> 66] @@ ("_" :> 95) @@ ("~" :> 126)
          @@ ("1" :> 49) @@ (" " :> 32) @@ ("." :> 46) @@ ("+" :> 43) @@ ("?" :> 63)
lfnLegalChar(c) == c # "?"
legal83Char(c) == c \notin {"+", ".", " ", "?"}
End == "end"
Fill == "fill"
Nothing == "nothing"

-----------------------------------------------------------------------------
(* parsePathName() *)

LeadingSpaces == LET s == SelectInSeq(path, LAMBDA c : c # " ")
                 IN  IF s = 0 THEN Len(path) ELSE s - 1
\* The long name: the path without spaces in front, and spaces and dots behind.
LongPart ==
    LET rest == SubSeq(path, LeadingSpaces + 1, Len(path))
    IN  SubSeq(rest, 1, SelectLastInSeq(rest, LAMBDA c : c \notin {".", " "}))
Dot == SelectLastInSeq(LongPart, LAMBDA c : c = ".")

LastBase == BaseLength - 1
LastExt == BaseLength + ExtLength - 1
Start ==
    LET plain == SelectInSeq(LongPart, LAMBDA c : c \notin {".", " "})
    IN  [sfn |-> [i \in 0 .. LastExt |-> " "], i |-> 0, in |-> LastBase, bit |-> "base",
         lc |-> {}, uc |-> {}, seqPos |-> 0, is83 |-> plain <= 1, next |-> plain,
         done |-> FALSE]

\* The next letter goes to the short name.
Put(s, c) ==
    [s EXCEPT !.sfn[s.i] = Capital(c), !.i = @ + 1,
              !.lc = IF c \in DOMAIN Lower THEN @ \cup {s.bit} ELSE @,
              !.uc = IF c \in DOMAIN Upper THEN @ \cup {s.bit} ELSE @,
              !.seqPos = IF s.i + 1 < LastBase THEN s.i + 1 ELSE @]

\* The base has ended: at the last dot, or by being too long, when the letters up to the
\* last dot are left out.
ToExtension(s, si) ==
    IF s.in = LastExt \/ si > Dot
    THEN [s EXCEPT !.is83 = FALSE, !.done = TRUE]
    ELSE [s EXCEPT !.is83 = @ /\ si = Dot, !.next = Dot + 1, !.in = LastExt,
                   !.i = BaseLength, !.bit = "ext"]

TakeLetter(s, si) ==
    LET c == LongPart[si]
        legal == legal83Char(c) \/ si = Dot
        t == IF legal THEN s ELSE [s EXCEPT !.is83 = FALSE]
    IN  IF s.done \/ si < s.next THEN s
        ELSE IF c = " " \/ (c = "." /\ si # Dot) THEN [s EXCEPT !.is83 = FALSE]
        ELSE IF si = Dot \/ s.i > s.in THEN ToExtension(t, si)
        ELSE Put(t, IF legal THEN c ELSE "_")

ShortPart == FoldLeft(TakeLetter, Start, [i \in 1 .. Len(LongPart) |-> i])
Accepted == (\A i \in DOMAIN path : lfnLegalChar(path[i])) /\ LongPart # <<>>

Flags(s) == IF ~s.is83 THEN {"lost"}
            ELSE IF s.lc \cap s.uc # {} THEN {"mixed"} ELSE s.lc
Sfn(s) == IF s.is83 THEN s.sfn
          ELSE [s.sfn EXCEPT ![s.seqPos] = "~", ![s.seqPos + 1] = "1"]

-----------------------------------------------------------------------------
(* open(): the entries are filled. *)

\* A byte at a time, turned to the right by a bit before each.
lfnChecksum(sfn) ==
    LET sum[k \in -1 .. LastExt] ==
          IF k = -1 THEN 0
          ELSE ((sum[k - 1] % 2) * 128 + (sum[k - 1] \div 2) + Code[sfn[k]]) % 256
    IN  sum[LastExt]

\* lfnPutName(): behind the name its end, if there is room, and filling.
lfnPutName(ord) ==
    [i \in 0 .. PerEntry - 1 |->
        LET k == PerEntry * (ord - 1) + i
        IN  IF k < Len(LongPart) THEN LongPart[k + 1]
            ELSE IF k = Len(LongPart) THEN End ELSE Fill]

LongEntries(flags) ==
    IF flags \cap {"lost", "mixed"} = {} THEN 0
    ELSE (Len(LongPart) + PerEntry - 1) \div PerEntry

Create ==
    /\ stage = "path"
    /\ IF ~Accepted THEN stage' = "end" /\ UNCHANGED entry
       ELSE LET flags == Flags(ShortPart) IN
            /\ entry' = [sfn |-> Sfn(ShortPart), reservedNT |-> flags \cap {"base", "ext"},
                         long |-> [ord \in 1 .. LongEntries(flags) |->
                                     [last |-> ord = LongEntries(flags),
                                      chars |-> lfnPutName(ord),
                                      chksum |-> lfnChecksum(Sfn(ShortPart))]]]
            /\ stage' = "entry"
    /\ UNCHANGED <<path, size, name, shown>>

-----------------------------------------------------------------------------
(* getName() and printName() *)

\* dirName(): the short name, its letters as the entry says.
dirName ==
    LET Shown(from, to, bit) ==
          LET all == [k \in 1 .. to - from + 1 |->
                        IF bit \in entry.reservedNT THEN Small(entry.sfn[from + k - 1])
                                                    ELSE entry.sfn[from + k - 1]]
          IN  SelectSeq(all, LAMBDA c : c # " ")
        ext == Shown(BaseLength, LastExt, "ext")
    IN  Shown(0, LastBase, "base") \o (IF ext = <<>> THEN <<>> ELSE <<".">> \o ext)

\* lfnGetName(): the characters of one entry, as far as the buffer goes.
lfnGetName(buf, ord) ==
    LET e == entry.long[ord]
        k == PerEntry * (ord - 1)
        n == Cardinality({i \in 0 .. PerEntry - 1 :
                            k + i < size /\ \A j \in 0 .. i : e.chars[j] # End})
        taken == [i \in 0 .. size - 1 |->
                    IF i \in k .. k + n - 1 THEN e.chars[i - k]
                    ELSE IF i = k + n /\ e.last THEN End ELSE buf[i]]
    IN  [taken EXCEPT ![size - 1] = End]

\* What the buffer holds: what is in front of its first end.
Text(buf) ==
    LET end == CHOOSE i \in 0 .. size - 1 :
                 buf[i] = End /\ \A j \in 0 .. i - 1 : buf[j] # End
    IN  [i \in 1 .. end |-> buf[i - 1]]

getName ==
    IF entry.long = <<>> THEN dirName
    ELSE Text(FoldLeft(lfnGetName, [i \in 0 .. size - 1 |-> Nothing],
                       [ord \in DOMAIN entry.long |-> ord]))

printName ==
    IF entry.long = <<>> THEN dirName
    ELSE FlattenSeq([ord \in DOMAIN entry.long |->
            SelectSeq([i \in 1 .. PerEntry |-> entry.long[ord].chars[i - 1]],
                      LAMBDA c : c \notin {End, Fill})])

Read ==
    /\ stage = "entry"
    /\ name' = getName /\ shown' = printName
    /\ stage' = "end"
    /\ UNCHANGED <<path, size, entry>>

InitName ==
    /\ path \in SeqOf(Letters, MaxLength) /\ size \in Sizes
    /\ entry = [sfn |-> [i \in 0 .. LastExt |-> " "], reservedNT |-> {}, long |-> <<>>]
    /\ name = <<>> /\ shown = <<>> /\ stage = "path"

NextName == Create \/ Read

-----------------------------------------------------------------------------
\* A path is refused only for a character that is not allowed, or for want of a name, and
\* the file's name is what the path says, in its capitals and small letters, however it is
\* kept: whole where it is printed, and as much of it as fits into the caller's buffer.
\* The checksum in the long entries tells their short name from every one that differs
\* from it in one place.
NameIsReadBack ==
    stage = "end" =>
        IF ~Accepted THEN (\E i \in DOMAIN path : path[i] = "?")
                            \/ \A i \in DOMAIN path : path[i] \in {".", " "}
        ELSE /\ shown = LongPart
             /\ name = SubSeq(LongPart, 1, IF entry.long = <<>> \/ Len(LongPart) < size
                                             THEN Len(LongPart) ELSE size - 1)
             /\ \A k \in DOMAIN entry.sfn, c \in DOMAIN Code :
                  c # entry.sfn[k] =>
                    lfnChecksum([entry.sfn EXCEPT ![k] = c]) # lfnChecksum(entry.sfn)
=============================================================================
