--------------------------- MODULE SerialConsole ---------------------------
(***************************************************************************)
(* The serial port of the logger: what the host types is read by three     *)
(* readers that know nothing of each other.  While the logger looks for    *)
(* the rate of the bus or waits for its first message it expects a message *)
(* that sets the clock; while it logs, any character closes the log, be it *)
(* the line end of such a message, and the last one read may be a command; *)
(* while a log is dumped or converted, any character ends that.            *)
(***************************************************************************)
EXTENDS Integers, Sequences

CONSTANTS
    MaxTyped,       \* bound: lines and characters typed by the host
    MaxLogs,        \* bound: logs
    MaxBlocks,      \* bound: blocks of a log
    NumBaudRates,   \* numBaudRates
    High, Low,      \* the first and the last digits of a time, as numbers
    HighTens, LowTens,  \* ... and 10 to the power of how many they are
    DefaultTime     \* DEFAULT_TIME

ASSUME BoundsAssumption == MaxTyped \in Nat /\ MaxLogs \in Nat /\ MaxBlocks \in Nat
ASSUME RatesAssumption == NumBaudRates \in Nat \ {0}

\* A time is ten digits, as is DEFAULT_TIME, and two packets may bring it, cut anywhere.
Time == High * LowTens + Low
ASSUME TimeAssumption ==
    /\ High \in Nat /\ Low \in Nat /\ HighTens \in Nat /\ LowTens \in Nat
    /\ DefaultTime \in Nat \ {0}
    /\ High < DefaultTime /\ Low < DefaultTime /\ DefaultTime <= Time
Digits == {"hi", "lo"}
ValueOf == [c \in Digits |-> IF c = "hi" THEN High ELSE Low]
TensOf == [c \in Digits |-> IF c = "hi" THEN HighTens ELSE LowTens]
Characters == Digits \cup {"T", "nl", "d", "c"}
\* What the host sends at a time: PythonTimeSetter.py the header twice and a line
\* end, a terminal a character or a line.
FirstHalf == <<"T", "T", "hi">>
SecondHalf == <<"lo", "nl">>
TimePackets == {<<"T", "T", "hi", "lo", "nl">>, FirstHalf}
Typed == {<<"d">>, <<"c">>, <<"d", "nl">>}

VARIABLES
    phase,          \* where the sketch is
    back,           \* where processSetTimeUtility() was called from
    rate,           \* getBaudRate(): rate tried, an index of baudRateList
    parsed,         \* parseInt(): number read, NoDigit before its first digit
    rtc,            \* time the host has set the clock to, NotSet before
    closeFile, serialInput,
    queued,         \* blocks in the full queue, once the log is closed
    curBlock,       \* one more is still being filled
    block,          \* blocks of the log still to read, in dumpData or binaryToCsv
    port,           \* characters received and not read
    rest,           \* second packet of a time under way
    busRate,        \* rate of the bus, 0 if it is not in the list
    count,          \* messages typed, a counter of the bound
    logs            \* logs closed, a counter of the bound

VARIABLES           \* observation only
    since,          \* characters typed since the last log was done with
    stopper         \* what closed the log

NoDigit == -1
NotSet == 0

parseVars == <<back, parsed, rtc>>
logVars == <<closeFile, serialInput, queued, curBlock, stopper>>
hostVars == <<rest, count, busRate>>
vars == <<phase, parseVars, rate, logVars, block, port, hostVars, logs, since>>

Init ==
    /\ phase = "autobaud" /\ back = "autobaud" /\ rate = 0
    /\ parsed = NoDigit /\ rtc = NotSet
    /\ closeFile = FALSE /\ serialInput = "none" /\ queued = 0 /\ curBlock = FALSE
    /\ block = 0
    /\ port = <<>> /\ rest = <<>> /\ busRate \in 0 .. NumBaudRates
    /\ count = 0 /\ logs = 0
    /\ since = {} /\ stopper = "none"

-----------------------------------------------------------------------------
(* processSetTimeUtility() *)

SetTimeUtility(p, next) ==
    /\ phase = p
    /\ IF port # <<>> THEN phase' = "find" /\ back' = next ELSE phase' = next /\ UNCHANGED back
    /\ UNCHANGED <<parsed, rtc>>

\* Serial.find(TIME_HEADER) reads up to the header, or until nothing has come for
\* a second.
Find ==
    /\ phase = "find"
    /\ IF port = <<>>
         THEN phase' = back /\ UNCHANGED port
         ELSE port' = Tail(port) /\ phase' = IF Head(port) = "T" THEN "parse" ELSE "find"
    /\ UNCHANGED <<parseVars, rate, logVars, block, hostVars, logs, since>>

\* The number read so far with the digits that come next.
WithDigits(c) ==
    IF parsed = NoDigit THEN ValueOf[c] ELSE parsed * TensOf[c] + ValueOf[c]

\* Serial.parseInt() skips what comes before the digits and leaves what comes
\* after them; it, too, ends when nothing has come for a second.
ParseInt ==
    /\ phase = "parse" /\ port # <<>>
    /\ parsed = NoDigit \/ Head(port) \in Digits
    /\ port' = Tail(port)
    /\ parsed' = IF Head(port) \in Digits THEN WithDigits(Head(port)) ELSE parsed
    /\ UNCHANGED <<phase, back, rtc, rate, logVars, block, hostVars, logs, since>>

\* processSyncMessage() takes a time before DEFAULT_TIME for none, and parseInt()
\* returns 0 if there was no digit.
ValidTime == parsed >= DefaultTime
SetTime ==
    /\ phase = "parse"
    /\ port # <<>> => parsed # NoDigit /\ Head(port) \notin Digits
    /\ rtc' = IF ValidTime THEN parsed ELSE rtc
    /\ phase' = back /\ parsed' = NoDigit
    /\ UNCHANGED <<back, rate, logVars, block, port, hostVars, logs, since>>

-----------------------------------------------------------------------------
(* getBaudRate() *)

\* Each round begins with processSetTimeUtility() and tries every rate.
BeginRound ==
    /\ SetTimeUtility("autobaud", "try")
    /\ rate' = 1
    /\ UNCHANGED <<logVars, block, port, hostVars, logs, since>>

\* No message is received at a rate that is not that of the bus, and none in the
\* time allowed if the bus is silent.
OneRateLess == NumBaudRates - 1
LastRate == NumBaudRates
NotConfirmed ==
    /\ phase = "try"
    /\ IF rate < LastRate
         THEN rate' = rate + 1 /\ UNCHANGED phase
         ELSE phase' = "autobaud" /\ UNCHANGED rate
    /\ UNCHANGED <<parseVars, logVars, block, port, hostVars, logs, since>>

Confirmed ==
    /\ phase = "try" /\ rate = busRate
    /\ phase' = "waiting"
    /\ UNCHANGED <<parseVars, rate, logVars, block, port, hostVars, logs, since>>

-----------------------------------------------------------------------------
(* logData() *)

WaitForMessage ==
    /\ port # <<>>
    /\ SetTimeUtility("waiting", "waiting")
    /\ UNCHANGED <<rate, logVars, block, port, hostVars, logs, since>>

\* What the port holds when the first message is found is left in it.
MessageFound ==
    /\ phase = "waiting"
    /\ phase' = "logging"
    /\ closeFile' = FALSE /\ stopper' = "none"
    /\ UNCHANGED <<parseVars, rate, serialInput, queued, curBlock, block, port, hostVars,
                   logs, since>>

\* The end of a pass of the loop once closeFile is set, with n blocks in the full queue:
\* it is left if there is none, and if the block written is the last of the file; no
\* block is written while the card is busy.
EndPass(n) ==
    IF n = 0 THEN queued' = 0 /\ phase' = "ending"
    ELSE \/ queued' = n /\ UNCHANGED phase
         \/ queued' = n - 1 /\ phase' \in {phase, "ending"}

\* What the full queue holds after the current block has been put into it.
Flushed == IF curBlock THEN queued + 1 ELSE queued

\* A pass reads one character at its beginning; the current block is queued if there is
\* one.
ReadSerial ==
    /\ phase = "logging" /\ port # <<>>
    /\ closeFile' = TRUE /\ serialInput' = Head(port) /\ port' = Tail(port)
    /\ stopper' = IF closeFile THEN stopper ELSE "character"
    /\ \E n \in IF closeFile THEN {Flushed} ELSE 0 .. MaxBlocks : EndPass(n)
    /\ curBlock' = FALSE
    /\ UNCHANGED <<parseVars, rate, block, hostVars, logs, since>>

\* The silence is noticed after that, and the pass ends the log there and then if the
\* full queue is empty; the block being filled is queued by the next pass, if there is
\* one.
Silence ==
    /\ phase = "logging" /\ ~closeFile /\ port = <<>>
    /\ closeFile' = TRUE /\ stopper' = "silence"
    /\ curBlock' \in BOOLEAN
    /\ \E n \in 0 .. MaxBlocks : EndPass(n)
    /\ UNCHANGED <<parseVars, rate, serialInput, block, port, hostVars, logs, since>>

\* The block written is the last the file has room for.
FileFull ==
    /\ phase = "logging" /\ ~closeFile /\ port = <<>>
    /\ closeFile' = TRUE /\ stopper' = "full"
    /\ phase' = "ending"
    /\ UNCHANGED <<parseVars, rate, serialInput, queued, curBlock, block, port, hostVars,
                   logs, since>>

\* A pass after that, with nothing to read.
WriteOut ==
    /\ phase = "logging" /\ closeFile /\ port = <<>>
    /\ EndPass(Flushed) /\ curBlock' = FALSE
    /\ UNCHANGED <<parseVars, rate, closeFile, serialInput, stopper, block, port,
                   hostVars, logs, since>>

\* After the file has been renamed and the summary printed.
ObeyCommand ==
    /\ phase = "ending"
    /\ phase' = CASE serialInput = "d" -> "dumping"
                  [] serialInput = "c" -> "converting"
                  [] OTHER -> "flushing"
    /\ block' \in IF phase' = "flushing" THEN {0} ELSE 0 .. MaxBlocks
    /\ UNCHANGED <<parseVars, rate, logVars, port, hostVars, logs, since>>

\* dumpData() and binaryToCsv() read a block at a time until a character comes.
Interrupted == port # <<>>
ReadBlock(p) ==
    /\ phase = p
    /\ IF Interrupted \/ block = 0
         THEN phase' = "flushing" /\ UNCHANGED block
         ELSE /\ block' = block - 1 /\ UNCHANGED phase
    /\ UNCHANGED <<parseVars, rate, logVars, port, hostVars, logs, since>>
DumpData == ReadBlock("dumping")
BinaryToCsv == ReadBlock("converting")

\* The end of logData(), which loop() calls again.
KeepPort == UNCHANGED port /\ serialInput' = "none"
Flush == port' = <<>> /\ serialInput' = "none"
NextLog ==
    /\ phase = "flushing" /\ logs < MaxLogs
    /\ Flush
    /\ logs' = logs + 1 /\ phase' = "waiting"
    /\ block' = 0 /\ since' = {} /\ stopper' = "none" /\ closeFile' = FALSE
    /\ queued' = 0 /\ curBlock' = FALSE
    /\ UNCHANGED <<parseVars, rate, hostVars>>

-----------------------------------------------------------------------------
(* The host *)

Type ==
    /\ count < MaxTyped /\ rest = <<>>
    /\ count' = count + 1
    /\ \E s \in TimePackets \cup Typed :
         /\ port' = port \o s
         /\ rest' = IF s = FirstHalf THEN SecondHalf ELSE <<>>
         /\ since' = since \cup {s[k] : k \in DOMAIN s}
    /\ UNCHANGED <<phase, parseVars, rate, logVars, block, busRate, logs>>

SecondPacket ==
    /\ rest # <<>>
    /\ port' = port \o rest /\ rest' = <<>>
    /\ since' = since \cup {"lo", "nl"}
    /\ UNCHANGED <<phase, parseVars, rate, logVars, block, count, busRate, logs>>

Console ==
    \/ Find \/ ParseInt \/ SetTime \/ BeginRound \/ NotConfirmed \/ WaitForMessage
    \/ ReadSerial \/ WriteOut \/ ObeyCommand \/ DumpData \/ BinaryToCsv \/ NextLog

Next ==
    \/ Console \/ Confirmed \/ MessageFound \/ Silence \/ FileFull \/ Type \/ SecondPacket

Spec == Init /\ [][Next]_vars
\* The sketch does not stop; a message comes at a rate that is tried again and again.
FairSpec == Spec /\ WF_vars(Console) /\ SF_vars(Confirmed)

-----------------------------------------------------------------------------
(* Properties *)

TypeOK ==
    /\ phase \in {"autobaud", "try", "waiting", "find", "parse", "logging", "ending",
                  "dumping", "converting", "flushing"}
    /\ back \in {"autobaud", "try", "waiting"}
    /\ rate \in 0 .. NumBaudRates /\ busRate \in 0 .. NumBaudRates
    /\ parsed \in Nat \cup {NoDigit} /\ rtc \in Nat
    /\ closeFile \in BOOLEAN /\ curBlock \in BOOLEAN /\ serialInput \in Characters \cup {"none"}
    /\ queued \in Nat /\ Flushed \in 0 .. MaxBlocks + 1 /\ block \in 0 .. MaxBlocks
    /\ port \in Seq(Characters) /\ rest \in {<<>>, SecondHalf}
    /\ count \in 0 .. MaxTyped /\ logs \in 0 .. MaxLogs
    /\ since \subseteq Characters /\ stopper \in {"none", "character", "silence", "full"}

\* A log is dumped or converted only because the command was typed after the log
\* before it was done with: none is left over in serialInput or in the port
\* (logData empties both last of all).
NoStaleCommand ==
    /\ phase = "dumping" => "d" \in since
    /\ phase = "converting" => "c" \in since

\* What closes a log was typed after the log before it was done with: a character
\* that came while a log was closed or dumped does not close the next one.
NoStaleStop == stopper = "character" => since # {}

\* A time that comes in two packets more than a second apart does not set the clock
\* to a part of it, nor do the digits of two times run into one number.
ClockIsWhole == rtc \in {NotSet, Time}

\* Nothing typed before a log was done with stops the next one or makes it be dumped or
\* converted, and the clock is set to a time the host sent.  No more is so: the line end
\* of a time message sent just before a log stops it at its first pass, and the
\* character typed after a command, be it its line end, replaces it.
TypedIsNotStale == TypeOK /\ NoStaleCommand /\ NoStaleStop /\ ClockIsWhole

\* The rate of a bus that has one of the rates of the list, and messages, is found.
BaudRateIsFound == [](busRate # 0 => <>(phase \notin {"autobaud", "try", "find", "parse"}))
=============================================================================
