------------------------------ MODULE MCFiles ------------------------------
(***************************************************************************)
(* A file of SdFat, for TLC: a behaviour is one of a file and its caches   *)
(* with the stream at rest, or one of a stream, to which the file is what  *)
(* FatFileData promises, with the caches at rest.                          *)
(***************************************************************************)
EXTENDS FatFileData

CONSTANTS BufSize, UngetSize, Byte, Modes, Counts, Offsets, MaxStreamCalls
VARIABLES stream, call, text, at, pushed, right, told, streamCalls,
          part        \* what the behaviour is about

ASSUME BufferAssumption ==
    /\ UngetSize \in Nat /\ BufSize \in Nat /\ BufSize > UngetSize /\ BufSize >= 2
    /\ Byte \in Nat /\ Byte > BufSize
ASSUME CallAssumption ==
    /\ Modes \subseteq {"r", "w", "a", "r+", "w+", "a+"}
    /\ Counts \subseteq Nat \ {0} /\ Offsets \subseteq Int /\ MaxStreamCalls \in Nat

Stdio == INSTANCE StdioStream WITH calls <- streamCalls, MaxCalls <- MaxStreamCalls

streamVars == <<stream, call, text, at, pushed, right, told, streamCalls>>

InitParts ==
    /\ Init /\ Stdio!InitStream
    /\ \/ part = "file"
       \/ part = "stream" /\ others = {}

OfFile(A) == part = "file" /\ A /\ UNCHANGED <<streamVars, part>>
OfStream(A) == part = "stream" /\ A /\ UNCHANGED <<vars, part>>

SpecParts ==
    InitParts /\ [][OfFile(Next) \/ OfStream(Stdio!NextStream)]_<<vars, streamVars, part>>

\* A stream is its file, read and written in order, whichever way its buffer is used:
\* until the program has been told of an error.
StreamIsInOrder == part = "stream" => Stdio!StreamIsInOrder
=============================================================================
