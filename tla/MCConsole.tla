----------------------------- MODULE MCConsole -----------------------------
(***************************************************************************)
(* What a host reaches over the serial port, what dates the records, and   *)
(* the text that programs print and read, for TLC: a behaviour is about    *)
(* one of them, with the variables of the others at rest.                  *)
(***************************************************************************)
EXTENDS SerialConsole, RecordClock, FmtNumber

CONSTANTS Places, Precisions, MaxDigits, FracLimit,
          TextLength, Limits, MaxReads,
          Widths, MaxItems, BufferSize
VARIABLES value, neg, prec, printer, scanner, printed, scanned,
          text, source, at, iostate, call, str, pos, reads, taken, base,
          flags, type, mode, had, file, place, bits, items, stage, got, dropped,
          part        \* what the behaviour is about

ASSUME BoundAssumption ==
    /\ Places \in Nat /\ Precisions \subseteq 0 .. Places - 1
    /\ {MaxDigits, FracLimit, BufferSize} \subseteq Nat \ {0}
    /\ {TextLength, MaxReads, MaxItems} \cup Limits \cup Widths \subseteq Nat

\* Every number of up to three digits and those around the powers of ten and of two.
Sample ==
    (0 .. 700) \cup (65400 .. 65700) \cup {12345678, 99999998}
    \cup UNION {{10 ^ k - 1, 10 ^ k, 10 ^ k + 1} : k \in 3 .. 8}
    \cup UNION {{2 ^ k - 1, 2 ^ k, 2 ^ k + 1} : k \in 8 .. 26}

\* Floats with two decimal places around the values at which a digit carries.
Cents ==
    {k * 10 ^ (Places - 2) :
        k \in (0 .. 250) \cup (990 .. 1010) \cup (9940 .. 10060) \cup
              {12345, 99940, 99949, 99950, 99994, 99995, 99999, 100000, 100001, 199994, 199999}}

Float == INSTANCE FmtFloat WITH Values <- Cents, text <- printed
Reader == INSTANCE TextInput WITH Alphabet <- {16, 17, 18, 23}
Streams == INSTANCE TextStreams WITH
               Numbers <- {255, 40000, -1}, at <- place, iostate <- bits, phase <- stage

floatVars == <<value, neg, prec, printer, scanner, printed, scanned>>
readerVars == <<text, source, at, iostate, call, str, pos, reads, taken, base>>
streamVars == <<flags, type, mode, had, file, place, bits, items, stage, got, dropped>>
textVars == <<formatVars, floatVars, readerVars, streamVars>>
AllVars == <<vars, clockVars, textVars, part>>

-----------------------------------------------------------------------------
FormatAtRest ==
    /\ number = 0 /\ how = "dec" /\ n = 0 /\ written = <<>> /\ formatted = TRUE
    /\ low = 0 /\ scale = 1
FloatAtRest ==
    /\ value = 0 /\ neg = FALSE /\ prec = 0 /\ printer = "fixed" /\ scanner = "scan"
    /\ printed = <<>> /\ scanned = Float!NotScanned
ReaderAtRest ==
    /\ text = <<>> /\ source = "text" /\ at = 0 /\ iostate = {} /\ call = Reader!NoCall
    /\ str = <<>> /\ pos = 0 /\ reads = 0 /\ taken = <<>> /\ base = 0
StreamsAtRest ==
    /\ flags = Streams!StartFlags /\ type = "none" /\ had = Streams!NoFile
    /\ mode = [flags |-> {}, ate |-> FALSE, memory |-> FALSE]
    /\ file = <<>> /\ place = 0 /\ bits = {} /\ items = <<>> /\ stage = "end" /\ got = <<>>
    /\ dropped = 0
BoardAtRest == Init /\ InitClock /\ rtcAhead = 0 /\ busRate = 0

InitParts ==
    \/ /\ part = "console" /\ Init /\ InitClock /\ rtcAhead = 0
       /\ FormatAtRest /\ FloatAtRest /\ ReaderAtRest /\ StreamsAtRest
    \/ /\ part = "clock" /\ Init /\ InitClock /\ busRate = 0
       /\ FormatAtRest /\ FloatAtRest /\ ReaderAtRest /\ StreamsAtRest
    \/ /\ part = "format" /\ InitFormat
       /\ BoardAtRest /\ FloatAtRest /\ ReaderAtRest /\ StreamsAtRest
    \/ /\ part = "float" /\ Float!InitFloat
       /\ BoardAtRest /\ FormatAtRest /\ ReaderAtRest /\ StreamsAtRest
    \/ /\ part = "reader" /\ Reader!InitReader
       /\ BoardAtRest /\ FormatAtRest /\ FloatAtRest /\ StreamsAtRest
    \/ /\ part = "streams" /\ Streams!InitStreams
       /\ BoardAtRest /\ FormatAtRest /\ FloatAtRest /\ ReaderAtRest

OfConsole(A) == part = "console" /\ A /\ UNCHANGED <<clockVars, textVars, part>>
NextParts ==
    \/ OfConsole(Next)
    \/ part = "clock" /\ NextClock /\ UNCHANGED <<vars, textVars, part>>
    \/ /\ part = "format" /\ NextFormat
       /\ UNCHANGED <<vars, clockVars, floatVars, readerVars, streamVars, part>>
    \/ /\ part = "float" /\ Float!NextFloat
       /\ UNCHANGED <<vars, clockVars, formatVars, readerVars, streamVars, part>>
    \/ /\ part = "reader" /\ Reader!NextReader
       /\ UNCHANGED <<vars, clockVars, formatVars, floatVars, streamVars, part>>
    \/ /\ part = "streams" /\ Streams!NextStreams
       /\ UNCHANGED <<vars, clockVars, formatVars, floatVars, readerVars, part>>

SpecParts == InitParts /\ [][NextParts]_AllVars
FairParts == SpecParts /\ WF_AllVars(OfConsole(Console)) /\ SF_AllVars(OfConsole(Confirmed))

-----------------------------------------------------------------------------
\* A float that is printed and read again is the value, to the digits printed and used.
FloatsAreReadBack == part = "float" => Float!FloatsAreReadBack

\* Whatever istream calls a program makes, and however they end, no character of the
\* text is skipped or seen twice.  What was put into a file or buffer is read back item by
\* item, or refused if it does not fit the reader's type; a buffer that is too short says
\* so.
TextIsReadBack ==
    /\ part = "reader" => Reader!TextIsTakenInOrder
    /\ part = "streams" => Streams!ItemsAreReadBack
=============================================================================
