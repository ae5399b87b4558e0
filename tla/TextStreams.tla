---------------------------- MODULE TextStreams ----------------------------
(***************************************************************************)
(* What one program writes with an ostream and another reads back with an  *)
(* istream: numbers, truth values and words put into fields of a file that *)
(* was opened in one of the modes, or of a buffer in memory; and what >>   *)
(* makes of them, for numbers of its own type and base.                    *)
(***************************************************************************)
EXTENDS Integers, Sequences, FiniteSets, SequencesExt

CONSTANTS
    Numbers,        \* that are written
    Widths,         \* of their fields
    MaxItems,       \* bound: items that are written
    BufferSize      \* of a buffer in memory

\* Characters: digits and the letters of hexadecimal ones are numbers below 16.
Blank == 16
NL == 17
CR == 18
X == 19
Minus == 20
Plus == 21
\* 22 to 26 are r, u, t, l and s.
TRUE_ == <<24, 22, 23, 14>>
FALSE_ == <<15, 10, 25, 26, 14>>
Space == {Blank, NL, CR}

VARIABLES
    flags,          \* of both streams, with the fill character and width of its fields
    type,           \* of the numbers that are read, once they are: "short" or "unsigned short"
    mode,           \* of the output stream
    had,            \* items in the file before it was opened
    file,           \* the characters, or those of the buffer in memory
    at,             \* the position
    iostate,        \* a set of "eof", "fail" and "bad"
    items,          \* what has been written
    phase,          \* "open", "write", "read" or "end"
    got,            \* what has been read
    \* observation only
    dropped         \* characters that the buffer in memory had no room for

fixed == <<flags, mode, had>>
streamVars == <<fixed, type, file, at, iostate, items, phase, got, dropped>>

\* The fields that can be read back: zeros go between the sign or prefix and the digits,
\* blanks before or behind both.  "behind" is put between items; "show" is showpos in
\* base 10 and showbase in the others.
Flags ==
    {f \in [base : {8, 10, 16}, adjust : {"left", "right", "internal"}, fill : {0, Blank},
            width : Widths, show : BOOLEAN, boolalpha : BOOLEAN, binary : BOOLEAN,
            behind : {Blank, NL}] :
        f.adjust = "internal" <=> f.fill = 0}

StartFlags ==
    [base |-> 10, adjust |-> "right", fill |-> Blank, width |-> 0, show |-> FALSE,
     boolalpha |-> FALSE, binary |-> FALSE, behind |-> NL]

\* Every mode that is not for reading only; a buffer in memory has none.
Modes ==
    [flags : SUBSET {"in", "out", "app", "trunc"} \ {{"in"}}, ate : BOOLEAN, memory : {FALSE}]
    \cup {[flags |-> {}, ate |-> FALSE, memory |-> TRUE]}
Plain(m) == m.memory \/ (m.flags = {"out"} /\ ~m.ate)

NoFile == <<[is |-> "no file"]>>
AWord == [is |-> "word", value |-> 24]
Item == [is : {"number"}, value : Numbers] \cup [is : {"bool"}, value : {0, 1}] \cup {AWord}

-----------------------------------------------------------------------------
(* ostream.                                                                *)

Digits[m \in Nat] ==
    IF m < flags.base THEN <<m>> ELSE Append(Digits[m \div flags.base], m % flags.base)

\* Of a negative number the 32 bits are written, unless the base is ten.
Figures(v) ==
    IF v >= 0 THEN Digits[v]
    ELSE IF flags.base = 10 THEN Digits[-v]
    ELSE IF flags.base = 16 THEN <<15>> \o Digits[2 ^ 28 + v] ELSE <<3>> \o Digits[2 ^ 30 + v]
Prefix(v) ==
    IF flags.base = 10 /\ v < 0 THEN <<Minus>>
    ELSE IF ~flags.show THEN <<>>
    ELSE IF flags.base = 10 THEN <<Plus>> ELSE IF flags.base = 16 THEN <<0, X>> ELSE <<0>>

Field(prefix, s, width) ==
    LET len == Len(prefix) + Len(s)
        fill == IF len >= width THEN <<>> ELSE [i \in 1 .. width - len |-> flags.fill]
    IN  CASE flags.adjust = "internal" -> prefix \o fill \o s
          [] flags.adjust = "right" -> fill \o prefix \o s
          [] flags.adjust = "left" -> prefix \o s \o fill

\* putNum(), putBool() and putStr(); of a field filled with zeros only numbers are read.
Characters(item) ==
    LET width == IF flags.fill = 0 THEN 0 ELSE flags.width IN
    CASE item.is = "number" -> Field(Prefix(item.value), Figures(item.value), flags.width)
      [] item.is = "bool" ->
           Field(<<>>, IF ~flags.boolalpha THEN <<item.value>>
                       ELSE IF item.value = 1 THEN TRUE_ ELSE FALSE_, width)
      [] item.is = "word" -> Field(<<>>, <<item.value, item.value>>, width)

\* putch() and putstr(): a line end in a text file is two characters.
LineEnd == IF flags.binary \/ mode.memory THEN <<NL>> ELSE <<CR, NL>>
Behind == IF flags.behind = NL THEN LineEnd ELSE <<Blank>>

-----------------------------------------------------------------------------
(* FatStreamBase::open() for writing.                                      *)

Appends == "app" \in mode.flags
Truncates == "trunc" \in mode.flags \/ mode.flags = {"out"}
Creates == Appends \/ Truncates
IsMode == mode.flags \in
    {{"app", "in"}, {"app", "in", "out"}, {"app"}, {"app", "out"}, {"in", "out"},
     {"in", "out", "trunc"}, {"out"}, {"out", "trunc"}}

InitStreams ==
    /\ flags \in Flags /\ mode \in Modes
    /\ flags = StartFlags \/ Plain(mode)
    /\ had \in {NoFile, <<>>, <<AWord>>}
    /\ mode.memory => had = NoFile
    /\ file = <<>> /\ at = 0 /\ iostate = {} /\ items = <<>> /\ phase = "open" /\ got = <<>>
    /\ type = "none" /\ dropped = 0

Before == IF had \in {NoFile, <<>>} THEN <<>> ELSE <<24, 24>> \o LineEnd

Overwrites == ~Appends /\ ~mode.ate
Open ==
    /\ phase = "open" /\ ~mode.memory
    /\ IF IsMode /\ (had # NoFile \/ Creates)
         THEN /\ file' = (IF Truncates THEN <<>> ELSE Before)
              /\ at' = (IF mode.ate THEN Len(file') ELSE 0)
              /\ items' = (IF Truncates \/ Overwrites \/ had = NoFile THEN <<>> ELSE had)
              /\ iostate' = {} /\ phase' = "write"
         ELSE /\ iostate' = {"fail"} /\ phase' = "end"
              /\ UNCHANGED <<file, at, items>>
    /\ UNCHANGED <<fixed, type, got, dropped>>

InitBuffer ==
    /\ phase = "open" /\ mode.memory
    /\ phase' = "write"
    /\ UNCHANGED <<fixed, type, file, at, iostate, items, got, dropped>>

-----------------------------------------------------------------------------
(* << of an item, with a line end or a blank behind it.                    *)

Written(s) ==
    LET p == IF Appends THEN Len(file) ELSE at IN
    /\ file' = SubSeq(file, 1, p) \o s \o SubSeq(file, p + Len(s) + 1, Len(file))
    /\ at' = p + Len(s) /\ UNCHANGED <<iostate, dropped>>

\* A buffer in memory keeps a zero behind what is in it.
Kept(s) ==
    LET room == BufferSize - 1 - at IN
    /\ file' = file \o (IF Len(s) > room THEN SubSeq(s, 1, room) ELSE s)
    /\ at' = Len(file')
    /\ iostate' = IF Len(s) > room THEN iostate \cup {"bad"} ELSE iostate
    /\ dropped' = dropped + Len(s) - (Len(file') - Len(file))

Put ==
    /\ phase = "write" /\ Len(items) < MaxItems
    /\ \E item \in Item :
         /\ LET s == Characters(item) \o Behind IN
            IF mode.memory THEN Kept(s) ELSE Written(s)
         /\ items' = Append(items, item)
    /\ UNCHANGED <<fixed, type, phase, got>>

\* The text is read from its start: by an ifstream, or an ibufstream.
Reopen ==
    /\ phase = "write"
    /\ phase' = "read" /\ at' = 0 /\ iostate' = {}
    /\ type' \in {"short", "unsigned short"}
    /\ UNCHANGED <<fixed, file, items, got, dropped>>

-----------------------------------------------------------------------------
(* istream.  What it sees of the file, from the position on.               *)

\* (Every CR is in front of a NL.)
Seen == IF flags.binary THEN file ELSE SelectSeq(file, LAMBDA c : c # CR)

Past(s, i, set) ==
    CHOOSE j \in i .. Len(s) + 1 :
        /\ j > Len(s) \/ s[j] \notin set
        /\ \A k \in i .. j - 1 : s[k] \in set
readSkip(s, i) == Past(s, i, Space)
IsAt(s, i, set) == i <= Len(s) /\ s[i] \in set

Failed(end) == [ok |-> FALSE, value |-> 0, end |-> end]
Success(v, end) == [ok |-> TRUE, value |-> v, end |-> end]

\* The value of the digits from i up to j.
Value(s, i, j) == FoldLeft(LAMBDA v, d : flags.base * v + d, 0, SubSeq(s, i, j - 1))

\* The first digit with which the number would be greater than its type allows, or j.
FirstTooLarge(s, i, j, limit) ==
    CHOOSE k \in i .. j :
        /\ k = j \/ Value(s, i, k + 1) > limit
        /\ \A m \in i .. k - 1 : Value(s, i, m + 1) <= limit

\* In base 16 a 0x is passed over, and if no digit follows it is the number 0.
getNumber(s, i, posMax, negMax) ==
    LET a == readSkip(s, i)
        b == IF IsAt(s, a, {Minus, Plus}) THEN a + 1 ELSE a
        zero == flags.base = 16 /\ IsAt(s, b, {0})
        first == IF ~zero THEN b ELSE IF IsAt(s, b + 1, {X}) THEN b + 2 ELSE b + 1
        last == Past(s, first, 0 .. flags.base - 1)
        limit == IF IsAt(s, a, {Minus}) THEN negMax ELSE posMax
        bad == FirstTooLarge(s, first, last, limit)
        v == Value(s, first, last)
        start == IF zero THEN b + 1 ELSE i
    IN  IF bad < last THEN Failed(IF bad > first THEN bad ELSE start)
        ELSE IF last = first /\ ~zero THEN Failed(start)
        ELSE Success(IF IsAt(s, a, {Minus}) THEN -v ELSE v, IF last > first THEN last ELSE start)

Common(s, i, t) ==
    CHOOSE k \in 0 .. Len(t) :
        /\ \A m \in 1 .. k : IsAt(s, i + m - 1, {t[m]})
        /\ k = Len(t) \/ ~IsAt(s, i + k, {t[k + 1]})

getBool(s, i) ==
    LET a == readSkip(s, i)
        t == Common(s, a, TRUE_)
        f == Common(s, a, FALSE_)
    IN  IF ~flags.boolalpha THEN getNumber(s, i, 1, 1)
        ELSE IF t = Len(TRUE_) THEN Success(1, a + t)
        ELSE IF f = Len(FALSE_) THEN Success(0, a + f)
        ELSE Failed(a + (IF t > f THEN t ELSE f) + 1)

getStr(s, i) ==
    LET a == readSkip(s, i)
        b == CHOOSE j \in a .. Len(s) + 1 : (j > Len(s) \/ s[j] \in Space)
                                            /\ \A k \in a .. j - 1 : s[k] \notin Space
    IN  IF b = a THEN Failed(b) ELSE Success(s[a], b)

PosMax(t) == IF t = "short" THEN 32767 ELSE 65535
NegMax(t) == IF t = "short" THEN 32768 ELSE 65535
As(t, v) == IF t # "short" /\ v < 0 THEN v + 65536 ELSE v

\* >> of the next item; the program stops at the first that fails.
Read ==
    /\ phase = "read" /\ Len(got) < Len(items)
    /\ LET item == items[Len(got) + 1]
           r == CASE item.is = "number" -> getNumber(Seen, at + 1, PosMax(type), NegMax(type))
                  [] item.is = "bool" -> getBool(Seen, at + 1)
                  [] item.is = "word" -> getStr(Seen, at + 1)
       IN  /\ at' = r.end - 1
           /\ iostate' = IF r.ok THEN iostate ELSE iostate \cup {"fail"}
           /\ phase' = IF r.ok THEN phase ELSE "end"
           /\ got' = IF ~r.ok THEN got
                     ELSE Append(got, IF item.is = "number" THEN As(type, r.value) ELSE r.value)
    /\ UNCHANGED <<fixed, type, file, items, dropped>>

NextStreams == Open \/ InitBuffer \/ Put \/ Reopen \/ Read

-----------------------------------------------------------------------------
(* Properties.                                                             *)

\* A number fits the reader's type; the minus sign is only there in base ten.
Fits(item) ==
    item.is = "number" =>
        IF item.value < 0 THEN flags.base = 10 ELSE item.value <= PosMax(type)
AsRead(item) == IF item.is = "number" THEN As(type, item.value) ELSE item.value

\* What was written is read back, item by item, behind what the file held before where
\* the mode keeps that; only a number that does not fit is refused, and no other is put
\* in its place.  A buffer that had to drop a character says so.
ItemsAreReadBack ==
    /\ phase = "write" => (dropped > 0 <=> "bad" \in iostate)
    /\ items # <<>> /\ dropped = 0 /\ phase \in {"read", "end"} =>
         /\ \A i \in DOMAIN got : got[i] = AsRead(items[i]) /\ Fits(items[i])
         /\ "fail" \in iostate => ~Fits(items[Len(got) + 1])
=============================================================================
