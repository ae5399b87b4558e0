----------------------------- MODULE TextInput -----------------------------
(***************************************************************************)
(* SdFat's istream over a file or over a text in memory: get(), getline(), *)
(* ignore(), peek(), ws and >> of words and characters, a character at a   *)
(* time.  Unless the file is binary a CR LF is one character; what has     *)
(* been read too far is put back by restoring a position saved before it.  *)
(***************************************************************************)
EXTENDS Integers, Sequences, FiniteSets, SequencesExt

CONSTANTS
    Alphabet,       \* the characters of a text
    TextLength,     \* bound: characters of a text
    Limits,         \* sizes of the program's buffers
    MaxReads        \* bound: calls

\* Characters: digits and the letters of hexadecimal ones are numbers below 16.
Blank == 16
NL == 17
CR == 18
Letter == 23
None == -1          \* at the end
Space == {Blank, NL, CR}

VARIABLES
    text,           \* of the file
    source,         \* a file opened as text or as binary, or a text in memory
    at,             \* the position
    iostate,        \* a set of "eof" and "fail"
    call,           \* the call under way, or "none", and its arguments
    str,            \* what it has stored
    pos,            \* the position saved before the last character
    reads,          \* calls so far (bounded by MaxReads)
    \* observation only
    taken,          \* characters the program was given or asked to pass over,
    base            \* since this position

readerVars == <<text, source, at, iostate, call, str, pos, reads, taken, base>>
NoCall == [op |-> "none", n |-> 0, delim |-> None]

InitReader ==
    /\ text \in UNION {[1 .. k -> Alphabet] : k \in 0 .. TextLength}
    /\ source \in {"text", "binary", "memory"}
    /\ at = 0 /\ iostate = {} /\ call = NoCall /\ str = <<>> /\ pos = 0
    /\ reads = 0 /\ taken = <<>> /\ base = 0

-----------------------------------------------------------------------------
(* FatStreamBase::getch().                                                 *)

CharAt(t, p) == IF p < Len(t) THEN t[p + 1] ELSE None
IsLineEnd(t, p, bin) == ~bin /\ CharAt(t, p) = CR /\ CharAt(t, p + 1) = NL
getch(t, p, bin) == IF IsLineEnd(t, p, bin) THEN NL ELSE CharAt(t, p)
\* Mutant: what was read behind a CR is not put back.
PastCharFar(t, p, bin) ==
    IF ~bin /\ CharAt(t, p) = CR THEN p + 2 ELSE IF p < Len(t) THEN p + 1 ELSE p

PastChar(t, p, bin) ==
    IF IsLineEnd(t, p, bin) THEN p + 2 ELSE IF p < Len(t) THEN p + 1 ELSE p

binary == source # "text"
c == getch(text, at, binary)
Eof == IF c = None THEN {"eof"} ELSE {}

-----------------------------------------------------------------------------
(* The calls: one begins, reads characters one by one, and ends.           *)

Calls ==
    [op : {"get", "peek", "ws", "char"}, n : {0}, delim : {None}] \cup
    [op : {"getstr", "getline"}, n : Limits, delim : {NL}] \cup
    [op : {"ignore"}, n : Limits, delim : {NL, None}] \cup
    [op : {"word"}, n : Limits \cup {0}, delim : {None}] \cup
    [op : {"seek"}, n : 0 .. TextLength + 1, delim : {None}]

Begin ==
    /\ call = NoCall /\ reads < MaxReads
    /\ \E k \in Calls : call' = k
    /\ str' = <<>> /\ pos' = at /\ reads' = reads + 1
    /\ UNCHANGED <<text, source, at, iostate, taken, base>>

During(op) == call.op = op /\ UNCHANGED <<text, source, reads, base>>

\* A character is read, kept or passed over, and the call goes on or ends.
Advance == at' = PastChar(text, at, binary) /\ pos' = at
Keep == str' = Append(str, c) /\ taken' = Append(taken, c)
Pass == str' = str /\ taken' = (IF c = None THEN taken ELSE Append(taken, c))
GoOn == UNCHANGED <<call, iostate>>
End(bits) == call' = NoCall /\ iostate' = iostate \cup bits
FailIf(b) == IF b THEN {"fail"} ELSE {}

\* setpos() of the position before the character just read: it is not taken.
PutBack == at' = at /\ UNCHANGED <<str, pos, taken>>

Get ==
    /\ During("get")
    /\ Advance /\ Pass
    /\ End(Eof \cup FailIf(c = None))

\* >> of a character passes over space in front of it.
GetChar ==
    /\ During("char")
    /\ Advance /\ Pass
    /\ IF c \in Space THEN GoOn ELSE End(Eof \cup FailIf(c = None))

Peek ==
    /\ During("peek")
    /\ PutBack
    /\ End(Eof)

SkipWhite ==
    /\ During("ws")
    /\ IF c \in Space THEN Advance /\ Pass /\ GoOn ELSE PutBack /\ End(Eof)

\* get(str, n, delim) leaves the delimiter.
GetDelimited ==
    /\ During("getstr")
    /\ IF Len(str) + 1 >= call.n THEN PutBack /\ End(FailIf(str = <<>>))
       ELSE IF c \in {None, call.delim} THEN PutBack /\ End(Eof \cup FailIf(str = <<>>))
       ELSE Advance /\ Keep /\ GoOn

\* getline() takes it; a line that is too long is cut, and read on by the next call.
TooLong == Len(str) + 1 >= call.n
GetLine ==
    /\ During("getline")
    /\ IF c = None THEN PutBack /\ End(Eof \cup FailIf(str = <<>>))
       ELSE IF c = call.delim THEN Advance /\ Pass /\ End({})
       ELSE IF TooLong THEN PutBack /\ End({"fail"})
       ELSE Advance /\ Keep /\ GoOn

Ignored == Len(str)
Ignore ==
    /\ During("ignore")
    /\ IF Ignored >= call.n THEN PutBack /\ End({})
       ELSE IF c = None THEN PutBack /\ End(Eof)
       ELSE Advance /\ Keep /\ (IF c = call.delim THEN End({}) ELSE GoOn)

\* >> of a word: of width - 1 characters, if a width is set; the character behind a word
\* that is cut is read, but not put back.
WordRoom == IF call.n = 0 THEN TextLength + 1 ELSE call.n - 1
IsCut == WordRoom > 0 /\ Len(str) = WordRoom
Word ==
    /\ During("word")
    /\ IF WordRoom = 0 THEN PutBack /\ End({"fail"})
       ELSE IF IsCut THEN Advance /\ Pass /\ End(Eof)
       ELSE IF str = <<>> /\ c \in Space THEN Advance /\ Pass /\ GoOn
       ELSE IF c \in {None} \cup Space THEN PutBack /\ End(Eof \cup FailIf(str = <<>>))
       ELSE Advance /\ Keep /\ GoOn

\* seekg(): a file may be put to its end, a text in memory may not.
CanSeek(p) == IF source = "memory" THEN p < Len(text) ELSE p <= Len(text)
Seek ==
    /\ call.op = "seek"
    /\ IF CanSeek(call.n) THEN at' = call.n /\ base' = call.n /\ taken' = <<>> /\ End({})
       ELSE UNCHANGED <<at, base, taken>> /\ End({"fail"})
    /\ UNCHANGED <<text, source, str, pos, reads>>

NextReader ==
    \/ Begin
    \/ Get \/ GetChar \/ Peek \/ SkipWhite \/ GetDelimited \/ GetLine \/ Ignore \/ Word \/ Seek

-----------------------------------------------------------------------------
(* Properties.                                                             *)

\* What a reader should see from a position on: in a text file, CR LF as one character.
Visible(p) ==
    FoldLeft(LAMBDA s, i : IF i <= p \/ IsLineEnd(text, i - 1, binary) THEN s
                           ELSE Append(s, text[i]),
             <<>>, [i \in DOMAIN text |-> i])

\* Between calls, whatever they were and however they ended, what was taken and what the
\* next call will find are the text: no character is seen twice, and none is skipped that
\* no call has passed over (as >> does with the one behind a word that is cut).
TextIsTakenInOrder == call = NoCall => taken \o Visible(at) = Visible(base)
=============================================================================
