---------------------------- MODULE StdioStream ----------------------------
(***************************************************************************)
(* The buffered streams of SdFat: one small buffer that is filled from the *)
(* file for reading, collects what is written, and changes from the one    *)
(* use to the other in a stream that is open for both.  Calls that go over *)
(* the buffer more than once are taken a turn of their loop at a time.     *)
(*                                                                         *)
(* The file underneath is what FatFile promises: read(), write() and       *)
(* seekSet() at once, or a write refused.  Characters are the numbers of   *)
(* the calls that wrote them.                                              *)
(***************************************************************************)
EXTENDS Integers, Sequences, SequencesExt

CONSTANTS
    BufSize,            \* STREAM_BUF_SIZE
    UngetSize,          \* UNGETC_BUF_SIZE
    Byte,               \* m_r and m_w are bytes: 256
    Modes,              \* modes given to fopen()
    Counts,             \* numbers of characters given to fwrite(), fread() and fgets()
    Offsets,            \* ... and of positions, to fseek()
    MaxCalls            \* bound: calls

NewLine == 1            \* the character of the first call
Pushed == 0             \* what ungetc() is given
F_SRD == "SRD"
F_SWR == "SWR"
F_SRW == "SRW"
F_EOF == "EOF"
F_ERR == "ERR"

VARIABLES
    stream,             \* the members of StdioStream, and of the FatFile it is
    call,               \* the call under way, with what is left to do
    \* observation only
    text,               \* the file, as the calls make it
    at,                 \* the position in it
    pushed,             \* characters ungetc() has put in front of it
    right,              \* every character read was the next one
    told,               \* the program has been told of an error
    calls

ghostVars == <<text, at, pushed, right, told>>
streamVars == <<stream, call, ghostVars, calls>>

NoCall == [name |-> "none", todo |-> <<>>, need |-> 0]
Blank == [i \in 1 .. BufSize |-> Pushed]

InitStream ==
    /\ stream = [m_flags |-> {}, m_p |-> 0, m_r |-> 0, m_w |-> 0, m_buf |-> Blank,
                 data |-> <<>>, m_curPosition |-> 0, append |-> FALSE, ok |-> TRUE]
    /\ call = NoCall
    /\ text = <<>> /\ at = 0 /\ pushed = <<>> /\ right = TRUE /\ told = FALSE
    /\ calls = 0

-----------------------------------------------------------------------------
(* FatFile, as FatFileData has it.                                         *)

Overlay(seq, pos, chars) ==
    [i \in 1 .. Max({Len(seq), pos + Len(chars)}) |->
        IF i \in pos + 1 .. pos + Len(chars) THEN chars[i - pos] ELSE seq[i]]

\* A write may be refused, once until the error is cleared.
FileWrite(s, chars) ==
    LET pos == IF s.append THEN Len(s.data) ELSE s.m_curPosition IN
    {[s EXCEPT !.data = Overlay(@, pos, chars), !.m_curPosition = pos + Len(chars),
               !.ok = TRUE]}
    \cup IF F_ERR \in s.m_flags THEN {} ELSE {[s EXCEPT !.m_curPosition = pos, !.ok = FALSE]}

FileRead(s, n) == SubSeq(s.data, s.m_curPosition + 1, Min({s.m_curPosition + n, Len(s.data)}))

-----------------------------------------------------------------------------
(* The buffer.                                                             *)
Has(s, flag) == flag \in s.m_flags
Buffered(s, n) == SubSeq(s.m_buf, s.m_p + 1, s.m_p + n)
Less(n) == (n - 1) % Byte

Failed(s) == [s EXCEPT !.m_flags = @ \cup {F_ERR}, !.ok = FALSE]

\* What is not read yet of the buffer is dropped when the stream begins to write.
flushBuf(s) ==
    IF ~Has(s, F_SWR) /\ ~Has(s, F_SRW) THEN {Failed(s)}
    ELSE IF ~Has(s, F_SWR)
      THEN {[s EXCEPT !.m_flags = (@ \ {F_SRD}) \cup {F_SWR},
                      !.m_r = 0, !.m_w = BufSize, !.m_p = 0, !.ok = TRUE]}
    ELSE {IF t.ok THEN t ELSE Failed(t) :
            t \in FileWrite([s EXCEPT !.m_p = 0, !.m_w = BufSize], SubSeq(s.m_buf, 1, s.m_p))}

Fill(s) ==
    LET chars == FileRead(s, BufSize - UngetSize)
        n == Len(chars)
    IN  IF n = 0
          THEN [s EXCEPT !.m_p = UngetSize, !.m_flags = @ \cup {F_EOF}, !.m_r = 0, !.ok = FALSE]
          ELSE [s EXCEPT !.m_p = UngetSize, !.m_buf = Overlay(@, UngetSize, chars),
                         !.m_r = n, !.m_curPosition = @ + n, !.ok = TRUE]

fillBufUnflushed(s) ==
    IF ~Has(s, F_SRD) /\ ~Has(s, F_SRW) THEN {Failed(s)}
    ELSE {Fill([s EXCEPT !.m_flags = (@ \ {F_SWR}) \cup {F_SRD}, !.m_w = 0])}

\* What was written goes to the file before the stream begins to read.
fillBuf(s) ==
    IF Has(s, F_SRD) THEN {Fill(s)}
    ELSE IF ~Has(s, F_SRW) THEN {Failed(s)}
    ELSE {IF ~t.ok THEN t
          ELSE Fill([t EXCEPT !.m_flags = (@ \ {F_SWR}) \cup {F_SRD}, !.m_w = 0]) :
            t \in flushBuf(s)}

Put(s, chars) ==
    [s EXCEPT !.m_buf = Overlay(@, s.m_p, chars), !.m_p = @ + Len(chars),
              !.m_w = (@ - Len(chars)) % Byte]
Take(s, n) == [s EXCEPT !.m_p = @ + n, !.m_r = (@ - n) % Byte]

-----------------------------------------------------------------------------
(* Steps of a call.                                                        *)
IsOpen == stream.m_flags # {}

\* A call in the wrong direction leaves m_r or m_w at 255: the program closes the
\* stream when it has been told so.
Sane == stream.m_r <= BufSize /\ stream.m_w <= BufSize
Begin ==
    /\ call = NoCall /\ calls < MaxCalls
    /\ calls' = calls + 1
BeginOpen == Begin /\ IsOpen /\ Sane

\* The position the program may expect after flushBuf(): a stream open for appending
\* is at its end, and one that was read behind what it had in the buffer.
FlushedAt ==
    IF Has(stream, F_SWR) THEN IF stream.append THEN Len(text) ELSE at
    ELSE IF Has(stream, F_SRW) THEN stream.m_curPosition ELSE at
FlushedPushed == IF Has(stream, F_SRD) /\ Has(stream, F_SRW) THEN <<>> ELSE pushed

\* Characters are added at the position, in front of them perhaps the buffer flushed.
Wrote(chars, from) ==
    LET pos == IF stream.append THEN Len(text) ELSE from IN
    /\ text' = Overlay(text, pos, chars)
    /\ at' = pos + Len(chars)

\* Characters are handed to the program, after what was written has been flushed.
Reported == told \/ Has(stream, F_ERR)
Handed(chars) ==
    LET from == IF Has(stream, F_SWR) THEN FlushedAt ELSE at
        due == pushed \o SubSeq(text, from + 1, Len(text))
    IN  /\ right' = (right /\ (Reported \/ chars = SubSeq(due, 1, Len(chars))))
        /\ pushed' = SubSeq(pushed, Len(chars) + 1, Len(pushed))
        /\ at' = from + Max({0, Len(chars) - Len(pushed)})

-----------------------------------------------------------------------------
fopen(mode) ==
    LET flags == (IF mode \in {"r", "r+"} THEN {F_SRD} ELSE {F_SWR})
                 \cup (IF mode \in {"r+", "w+", "a+"} THEN {F_SRW} ELSE {})
        data == IF mode \in {"w", "w+"} THEN <<>> ELSE stream.data
        append == mode \in {"a", "a+"}
    IN  /\ Begin /\ ~IsOpen
        /\ stream' = [stream EXCEPT !.m_flags = flags, !.m_r = 0, !.m_w = 0, !.m_p = 0,
                                    !.data = data, !.append = append, !.ok = TRUE,
                                    !.m_curPosition = IF append THEN Len(data) ELSE 0]
        /\ text' = IF mode \in {"w", "w+"} THEN <<>> ELSE text
        /\ at' = IF append THEN Len(text) ELSE 0
        /\ pushed' = <<>>
        /\ UNCHANGED <<call, right, told>>

fclose ==
    /\ Begin /\ IsOpen
    /\ \E t \in IF Has(stream, F_SWR) THEN flushBuf(stream) ELSE {stream} :
         /\ stream' = [t EXCEPT !.m_r = 0, !.m_w = 0, !.m_flags = {}]
         /\ told' = (Reported \/ Has(t, F_ERR))
    /\ UNCHANGED <<call, text, at, pushed, right>>

fflush ==
    /\ BeginOpen
    /\ IF Has(stream, F_SRD) THEN UNCHANGED <<stream, at>>
       ELSE stream' \in flushBuf(stream) /\ at' = FlushedAt
    /\ UNCHANGED <<call, text, pushed, right, told>>

clearerr ==
    /\ BeginOpen
    /\ stream' = [stream EXCEPT !.m_flags = @ \ {F_ERR, F_EOF}]
    /\ told' = Reported
    /\ UNCHANGED <<call, text, at, pushed, right>>

-----------------------------------------------------------------------------
(* Writing.                                                                *)

PutBehind(room, chars) ==
    /\ BeginOpen
    /\ IF room
         THEN stream' = Put(stream, chars) /\ Wrote(chars, at) /\ UNCHANGED pushed
         ELSE \E t \in flushBuf([stream EXCEPT !.m_w = IF Len(chars) = 1 THEN Less(@) ELSE @]) :
                /\ stream' = IF t.ok THEN Put(t, chars) ELSE t
                /\ IF t.ok THEN Wrote(chars, FlushedAt) /\ pushed' = FlushedPushed
                   ELSE UNCHANGED <<text, at, pushed>>
    /\ UNCHANGED <<call, right, told>>

\* fputc(), putc()
fputc == PutBehind(stream.m_w # 0, <<calls'>>)
putCRLF == PutBehind(stream.m_w >= 2, <<calls', NewLine>>)

\* fwrite(), fputs() and the printing of numbers: write().
fwrite ==
    /\ BeginOpen
    /\ \E n \in Counts :
         call' = [name |-> "write", todo |-> [i \in 1 .. n |-> calls'], need |-> 0]
    /\ UNCHANGED <<stream, ghostVars>>

WriteTurn ==
    LET w == stream.m_w
        now == SubSeq(call.todo, 1, w)
    IN
    /\ call.name = "write"
    /\ IF Len(call.todo) <= w
         THEN /\ stream' = Put(stream, call.todo) /\ Wrote(call.todo, at)
              /\ call' = NoCall /\ UNCHANGED pushed
         ELSE /\ stream' \in flushBuf([Put(stream, now) EXCEPT !.m_w = w])
              /\ call' = IF stream'.ok THEN [call EXCEPT !.todo = SubSeq(@, w + 1, Len(@))]
                         ELSE NoCall
              /\ IF w = 0 THEN UNCHANGED text /\ at' = FlushedAt ELSE Wrote(now, at)
              /\ pushed' = FlushedPushed
    /\ UNCHANGED <<right, told, calls>>

-----------------------------------------------------------------------------
(* Reading.                                                                *)

\* fgetc(), getc(), fillGet()
fgetc ==
    /\ BeginOpen
    /\ IF stream.m_r # 0
         THEN stream' = Take(stream, 1) /\ Handed(Buffered(stream, 1))
         ELSE \E t \in fillBuf([stream EXCEPT !.m_r = Less(@)]) :
                /\ stream' = IF t.ok THEN Take(t, 1) ELSE t
                /\ Handed(IF t.ok THEN Buffered(t, 1) ELSE <<>>)
    /\ UNCHANGED <<call, text, told>>

fread ==
    /\ BeginOpen
    /\ \E n \in Counts : call' = [name |-> "read", todo |-> <<>>, need |-> n]
    /\ UNCHANGED <<stream, ghostVars>>

ReadTurn ==
    LET r == stream.m_r IN
    /\ call.name = "read"
    /\ IF call.need > r
         THEN /\ stream' \in fillBuf([stream EXCEPT !.m_p = @ + r])
              /\ Handed(Buffered(stream, r))
              /\ call' = IF stream'.ok THEN [call EXCEPT !.need = @ - r] ELSE NoCall
         ELSE /\ stream' = Take(stream, call.need)
              /\ Handed(Buffered(stream, call.need))
              /\ call' = NoCall
    /\ UNCHANGED <<text, told, calls>>

\* A line, or as much of it as there is room for.
fgets ==
    /\ BeginOpen
    /\ \E n \in Counts : call' = [name |-> "line", todo |-> <<>>, need |-> n]
    /\ UNCHANGED <<stream, ghostVars>>

LineTurn ==
    /\ call.name = "line"
    /\ IF stream.m_r = 0
         THEN /\ stream' \in fillBuf(stream)
              /\ Handed(<<>>)
              /\ call' = IF stream'.ok THEN call ELSE NoCall
         ELSE LET n == Min({stream.m_r, call.need})
                  ends == {i \in 1 .. n : Buffered(stream, n)[i] = NewLine}
                  len == IF ends = {} THEN n ELSE Min(ends)
              IN  /\ stream' = Take(stream, len)
                  /\ Handed(Buffered(stream, len))
                  /\ call' = IF ends # {} \/ n = call.need THEN NoCall
                             ELSE [call EXCEPT !.need = @ - n]
    /\ UNCHANGED <<text, told, calls>>

ungetc ==
    /\ BeginOpen
    /\ Has(stream, F_SRD) /\ stream.m_p # 0
    /\ stream' = [stream EXCEPT !.m_r = @ + 1, !.m_p = @ - 1, !.m_flags = @ \ {F_EOF},
                                !.m_buf[stream.m_p] = Pushed]
    /\ pushed' = <<Pushed>> \o pushed
    /\ UNCHANGED <<call, text, at, right, told>>

-----------------------------------------------------------------------------
(* Positioning.                                                            *)

ftell(s) ==
    IF Has(s, F_SRD)
      THEN IF s.m_r > s.m_curPosition THEN -1 ELSE s.m_curPosition - s.m_r
      ELSE s.m_curPosition + s.m_p

\* seekCur() adds the position of the file to one that has it already.
Target(s, origin, offset) ==
    CASE origin = "set" -> offset
      [] origin = "end" -> Len(s.data) + offset
      [] origin = "cur" -> IF ftell(s) < 0 THEN -1 ELSE s.m_curPosition + ftell(s) + offset

fseek ==
    /\ BeginOpen
    /\ \E origin \in {"set", "end", "cur"}, offset \in Offsets,
          t \in IF Has(stream, F_SWR) THEN flushBuf(stream) ELSE {stream} :
         LET pos == Target(t, origin, offset) IN
         IF t.ok /\ pos \in 0 .. Len(t.data)
           THEN /\ stream' = [t EXCEPT !.m_curPosition = pos, !.m_r = 0, !.m_p = 0]
                /\ at' = pos /\ pushed' = <<>>
           ELSE /\ stream' = t
                /\ at' = (IF Has(stream, F_SWR) THEN FlushedAt ELSE at) /\ UNCHANGED pushed
    /\ UNCHANGED <<call, text, right, told>>

\* m_p is left where it is.
rewind ==
    /\ BeginOpen
    /\ \E t \in IF Has(stream, F_SWR) THEN flushBuf(stream) ELSE {stream} :
         IF t.ok
           THEN /\ stream' = [t EXCEPT !.m_curPosition = 0, !.m_r = 0]
                /\ at' = 0 /\ pushed' = <<>>
           ELSE stream' = t /\ UNCHANGED <<at, pushed>>
    /\ UNCHANGED <<call, text, right, told>>

NextStream ==
    \/ \E mode \in Modes : fopen(mode)
    \/ fclose \/ fflush \/ clearerr \/ fputc \/ putCRLF \/ fwrite \/ WriteTurn
    \/ fgetc \/ fread \/ ReadTurn \/ fgets \/ LineTurn \/ ungetc \/ fseek \/ rewind

-----------------------------------------------------------------------------
(* Properties.                                                             *)
Visible ==
    IF Has(stream, F_SWR)
      THEN Overlay(stream.data, IF stream.append THEN Len(stream.data) ELSE stream.m_curPosition,
                   SubSeq(stream.m_buf, 1, stream.m_p))
      ELSE stream.data

\* The file with what the buffer has for it is what the calls make of it, and what the
\* buffer has of the file is what comes next in it, however reading, writing, seeking
\* and ungetc() follow each other and wherever the buffer begins and ends; after
\* fclose() the file alone is: unless the program has been told of an error.
StreamIsAsWritten ==
    ~Reported =>
        /\ Visible = text
        /\ Has(stream, F_SRD) =>
              Buffered(stream, stream.m_r) = pushed \o SubSeq(text, at + 1, stream.m_curPosition)

\* Every character read is the one that is due.
ReadsInOrder == right

\* ftell() tells the position, but in what is not yet appended, and after ungetc() at
\* the start of the file.
TellsThePosition ==
    IsOpen /\ ~Reported /\ ~(stream.append /\ Has(stream, F_SWR)) =>
        ftell(stream) = IF Len(pushed) > at THEN -1 ELSE at - Len(pushed)

\* The buffer has room for what is said to be in it, and to go into it.
BufferHoldsWhatItSays ==
    ~Reported /\ IsOpen =>
        /\ Has(stream, F_SRD) => stream.m_p + stream.m_r <= BufSize /\ stream.m_w = 0
        /\ Has(stream, F_SWR) => stream.m_p + stream.m_w <= BufSize /\ stream.m_r = 0

\* A stream is its file, read and written in order, whichever way its buffer is used.
StreamIsInOrder ==
    StreamIsAsWritten /\ ReadsInOrder /\ TellsThePosition /\ BufferHoldsWhatItSays
=============================================================================
