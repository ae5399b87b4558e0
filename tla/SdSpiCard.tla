----------------------------- MODULE SdSpiCard -----------------------------
(***************************************************************************)
(* SdFat's SdSpiCard: the SD card protocol over SPI, without CRC, against  *)
(* a card that refuses commands, stays busy longer than the driver waits,  *)
(* is pulled out, or loses its power.  A call of the driver is a list of   *)
(* steps, each one a command with its response, a block of data, or a      *)
(* wait; the card acts between any two of them.                            *)
(***************************************************************************)
EXTENDS Integers, Sequences

CONSTANTS
    LastBlock,      \* the card has the blocks 0 .. LastBlock
    EraseUnits,     \* sizes, in blocks, that a card can erase
    Data,           \* what a block can be written with
    MaxRefusals,    \* bound: commands or blocks that the card refuses
    MaxBoots        \* bound: resets and power failures

ASSUME SizesAssumption == LastBlock \in Nat /\ EraseUnits \subseteq Nat \ {0}
ASSUME DataAssumption == Data \subseteq Nat \ {0}
ASSUME BoundsAssumption == MaxRefusals \in Nat /\ MaxBoots \in Nat

Blocks == 0 .. LastBlock

\* What a block holds besides data.
Erased == 0
Damaged == -1
Contents == {Damaged, Erased} \cup Data
Unknown == -2       \* no call has vouched for what a block holds

\* Responses: R1 of a ready card, of an idle one, of one that does not know
\* the command, any other, and 0xFF.
Responses == {"ready", "idle", "illegal", "refused", "none"}

VARIABLES
    call, steps,    \* the call under way and what it has still to do
    block, last,    \* its arguments: the block, the last of a range, the data
    src,
    session,        \* what the caller may do next
    next,           \* place of a multiple-block transfer, as the caller counts
    got,            \* the block read last
    m_selected, m_type,
    initLate, late  \* begin(), or the step under way, has used up its time

VARIABLES           \* the card, behind the SPI bus
    kind,           \* "SD1", "SD2", "SDHC", or "gone"
    mode, app,      \* its state; whether the last command was CMD55
    at,             \* block of its transfer
    eraseFrom, eraseTo,
    busy,           \* it holds MISO low: 0x00 is read
    programming,    \* blocks that a power failure would damage
    store           \* what its blocks hold

VARIABLES           \* observation only
    acked,          \* what a call that succeeded says of each block
    unsafe,         \* blocks of the last such call, perhaps not programmed yet
    misled,         \* writeStart() has succeeded, but the card is in an older transfer
    strays,         \* blocks that were written then, and those that were meant
    refused, boots  \* counters of the bounds

callVars == <<call, steps, block, last, src, session, next, got>>
driverVars == <<m_selected, m_type, initLate>>
placeVars == <<mode, app, at, eraseFrom, eraseTo>>
flashVars == <<busy, programming, store>>
ghostVars == <<acked, unsafe, misled, strays>>
boundVars == <<refused, boots>>
vars == <<callVars, driverVars, late, kind, placeVars, flashVars,
          ghostVars, boundVars>>

NoCall == "none"

Init ==
    /\ call = NoCall /\ steps = <<>> /\ block = 0 /\ last = 0 /\ src = Erased
    /\ session = "closed" /\ next = 0 /\ got = Unknown
    /\ m_selected = FALSE /\ m_type = "unknown"
    /\ initLate = FALSE /\ late = FALSE
    /\ kind \in {"SD1", "SD2", "SDHC"}
    /\ mode = "off" /\ app = FALSE /\ at = 0 /\ eraseFrom = 0 /\ eraseTo = 0
    /\ busy = FALSE /\ programming = {}
    /\ store = [b \in Blocks |-> Damaged]
    /\ acked = [b \in Blocks |-> Unknown] /\ unsafe = {}
    /\ misled = FALSE /\ strays = {}
    /\ refused = 0 /\ boots = 0

-----------------------------------------------------------------------------
(* The calls, step by step. *)

beginSteps == <<"CMD0", "CMD8", "CMD55", "ACMD41">>
eraseSteps == <<"CMD9", "csd", "CMD32", "CMD33", "CMD38", "wait">>
readRegisterSteps == <<"CMD9", "csd">>
readOCRSteps == <<"CMD58">>
readBlockSteps == <<"CMD17", "data">>
readStartSteps == <<"CMD18">>
readDataSteps == <<"data">>
readStopSteps == <<"CMD12">>
writeBlockSteps == <<"CMD24", "oneToken">>
writeStartSteps == <<"CMD55", "ACMD23", "CMD25">>

writeDataSteps == <<"wait", "nextToken">>
writeStopSteps == <<"wait", "stopToken", "wait">>

\* What the driver was asked to write is known no more until the call succeeds.
Doubt(bs) ==
    /\ acked' = [b \in Blocks |-> IF b \in bs THEN Unknown ELSE acked[b]]
    /\ strays' = strays \ bs

Start(c, s, b, e, d) ==
    /\ call = NoCall
    /\ call' = c /\ steps' = s /\ block' = b /\ last' = e /\ src' = d
    /\ late' = FALSE
    /\ UNCHANGED <<session, next, kind, placeVars, flashVars, refused, boots>>

\* Chip select is made low and high again before the first command.
Begin ==
    /\ session = "closed"
    /\ Start("begin", beginSteps, 0, 0, Erased)
    /\ m_type' = "unknown" /\ m_selected' = FALSE /\ initLate' = FALSE
    /\ UNCHANGED <<got, ghostVars>>

Erase ==
    /\ session = "none"
    /\ \E b \in Blocks : \E e \in b .. LastBlock :
         Start("erase", eraseSteps, b, e, Erased) /\ Doubt(b .. e)
    /\ unsafe' = unsafe \ block' .. last'
    /\ UNCHANGED <<got, driverVars, misled>>

StartRead(c, s, b) ==
    /\ Start(c, s, b, b, Erased)
    /\ got' = Unknown
    /\ UNCHANGED <<driverVars, ghostVars>>

Reads == {"readRegister", "readOCR", "readBlock", "readStart", "readData", "readStop"}

Read ==
    \/ session = "none" /\ StartRead("readRegister", readRegisterSteps, 0)
    \/ session = "none" /\ StartRead("readOCR", readOCRSteps, 0)
    \/ session = "none" /\ \E b \in Blocks : StartRead("readBlock", readBlockSteps, b)
    \/ session = "none" /\ \E b \in Blocks : StartRead("readStart", readStartSteps, b)
    \/ session = "reading" /\ next \in Blocks /\ StartRead("readData", readDataSteps, next)
    \/ session = "reading" /\ StartRead("readStop", readStopSteps, next)

StartWrite(c, s, b) ==
    /\ \E d \in Data : Start(c, s, b, b, d)
    /\ Doubt({b})
    /\ unsafe' = unsafe \ {b}
    /\ UNCHANGED <<got, driverVars, misled>>

StartControl(c, s, b) ==
    /\ Start(c, s, b, b, Erased)
    /\ UNCHANGED <<got, driverVars, ghostVars>>

Write ==
    \/ session = "none" /\ \E b \in Blocks : StartWrite("writeBlock", writeBlockSteps, b)
    \/ session = "none" /\ \E b \in Blocks : StartControl("writeStart", writeStartSteps, b)
    \/ session = "writing" /\ next \in Blocks /\ StartWrite("writeData", writeDataSteps, next)
    \/ session = "writing" /\ StartControl("writeStop", writeStopSteps, next)

\* isBusy(): chip select is left as it was.  A card found ready has finished.
IsBusy ==
    /\ call = NoCall /\ session # "closed"
    /\ ~busy
    /\ unsafe # {} /\ unsafe' = {}
    /\ UNCHANGED <<callVars, driverVars, late, kind, placeVars, flashVars,
                   acked, misled, strays, boundVars>>

-----------------------------------------------------------------------------
(* How a step of a call ends. *)

ChipSelectHigh == m_selected' = FALSE

GoOn(s) ==
    /\ steps' = s
    /\ late' = FALSE
    /\ UNCHANGED <<call, block, last, src, session, next, initLate>>

\* A caller goes on after any failure: setup() does not look at the results of baudFile,
\* and FatFile::write() only returns -1.  It gives up the transfer of several blocks in
\* which a call failed, as writeBlocks() and readBlocks() do, but the card does not learn
\* of it; and only after begin() has failed there is no card to go on with.
Fail ==
    /\ ChipSelectHigh
    /\ session' = IF call = "begin" THEN "closed" ELSE "none"
    /\ initLate' = FALSE
    /\ call' = NoCall /\ steps' = <<>> /\ block' = 0 /\ last' = 0 /\ src' = Erased /\ next' = 0
    /\ late' = FALSE

\* In a multiple-block transfer the card stays selected.
Succeed ==
    /\ session' = CASE call \in {"writeStart", "writeData"} -> "writing"
                    [] call \in {"readStart", "readData"} -> "reading"
                    [] OTHER -> "none"
    /\ next' = CASE call \in {"writeStart", "readStart"} -> block
                 [] call \in {"writeData", "readData"} -> block + 1
                 [] OTHER -> 0
    /\ initLate' = FALSE
    /\ IF session' \in {"writing", "reading"} THEN UNCHANGED m_selected
                                              ELSE ChipSelectHigh
    /\ call' = NoCall /\ steps' = <<>> /\ block' = 0 /\ last' = 0 /\ src' = Erased
    /\ late' = FALSE

\* What a call vouches for when it succeeds: the blocks it wrote or erased, and
\* that those before it are programmed.  What was under way when the card was
\* pulled out is in doubt, as after a power failure.
Vouched == CASE call \in {"writeBlock", "writeData"} /\ kind # "gone" -> {block}
             [] call = "erase" /\ kind # "gone" -> block .. last
             [] OTHER -> {}
Vouch ==
    /\ acked' = [b \in Blocks |-> IF b \in Vouched THEN src ELSE acked[b]]
    /\ unsafe' = CASE call \in {"writeBlock", "writeData"} -> {block}
                   [] call \in {"erase", "writeStop", "readBlock", "readData"} -> {}
                   [] OTHER -> unsafe
    /\ UNCHANGED <<misled, strays>>

Return ==
    /\ call # NoCall /\ steps = <<>>
    /\ Succeed /\ Vouch
    /\ got' = Unknown
    /\ UNCHANGED <<m_type, kind, placeVars, flashVars, boundVars>>

-----------------------------------------------------------------------------
(* cardCommand(): the card is selected and waited for, and the command sent     *)
(* even if it is still busy; then its zeros are read as a response.  First what *)
(* the card does with a command, then what the driver makes of the response.    *)

IsCommand(s) == s \in {"CMD0", "CMD8", "CMD9", "CMD12", "CMD17", "CMD18", "CMD24",
                       "CMD25", "CMD32", "CMD33", "CMD38", "CMD55", "CMD58",
                       "ACMD23", "ACMD41"}

\* Mutant: a card of bytes is given block numbers.
AddressUnscaled == block
\* The block that the card takes the argument for: bytes, unless it is SDHC.
Address == IF m_type = "SDHC" THEN block ELSE block * 512
BlockAt(arg) == IF kind = "SDHC" THEN arg ELSE arg \div 512
\* last is scaled in the same way.
LastAddress == IF m_type = "SDHC" THEN last ELSE last * 512

Listens(cmd) ==
    /\ kind # "gone" /\ ~busy
    /\ \/ cmd = "CMD0"
       \/ mode \in {"idle", "ready"}
       \/ mode = "sendMany" /\ cmd = "CMD12"

Enter(m, b) == mode' = m /\ at' = b /\ UNCHANGED <<eraseFrom, eraseTo>>
Stay == UNCHANGED <<mode, at, eraseFrom, eraseTo>>
R1 == IF mode = "idle" THEN "idle" ELSE "ready"

Transfers == [CMD9 |-> "sendRegister", CMD17 |-> "sendOne", CMD18 |-> "sendMany",
              CMD24 |-> "takeOne", CMD25 |-> "takeMany"]

\* Whether the card can do as it is told.
Knows(cmd) ==
    CASE cmd \in {"CMD0", "CMD8", "CMD55", "CMD58"} -> TRUE
      [] cmd = "ACMD41" -> app
      [] cmd = "ACMD23" -> app /\ mode = "ready"
      [] cmd = "CMD12" -> mode = "sendMany"
      [] cmd \in {"CMD17", "CMD18", "CMD24", "CMD25", "CMD32"} ->
           mode = "ready" /\ BlockAt(Address) \in Blocks
      [] cmd = "CMD33" -> mode = "ready" /\ BlockAt(LastAddress) \in Blocks
      [] OTHER -> mode = "ready"

Obeys(cmd, r) ==
    CASE cmd = "CMD0" -> r = "idle" /\ Enter("idle", 0)
      [] cmd = "CMD8" -> r = (IF kind = "SD1" THEN "illegal" ELSE R1) /\ Stay
      [] cmd = "ACMD41" -> \/ r = "idle" /\ mode = "idle" /\ Stay
                           \/ r = "ready" /\ Enter("ready", 0)
      [] cmd = "CMD12" -> r = "ready" /\ Enter("ready", 0)
      [] cmd \in DOMAIN Transfers ->
           r = "ready" /\ Enter(Transfers[cmd], BlockAt(Address))
      [] cmd = "CMD32" ->
           r = "ready" /\ eraseFrom' = BlockAt(Address) /\ UNCHANGED <<mode, at, eraseTo>>
      [] cmd = "CMD33" ->
           r = "ready" /\ eraseTo' = BlockAt(LastAddress) /\ UNCHANGED <<mode, at, eraseFrom>>
      [] cmd = "CMD38" ->
           r = "ready" /\ eraseFrom' = 0 /\ eraseTo' = 0 /\ UNCHANGED <<mode, at>>
      [] OTHER -> r = R1 /\ Stay

\* The blocks of an erasure are erased when the card has obeyed it.
Erases(cmd) ==
    IF cmd = "CMD38"
      THEN /\ programming' = eraseFrom .. eraseTo /\ busy' = TRUE
           /\ store' = [b \in Blocks |-> IF b \in eraseFrom .. eraseTo THEN Erased
                                                                   ELSE store[b]]
      ELSE UNCHANGED flashVars

CardTakes(cmd, r) ==
    \/ /\ ~Listens(cmd)
       /\ r = IF busy THEN "ready" ELSE "none"
       /\ UNCHANGED <<placeVars, flashVars, refused>>
    \/ /\ Listens(cmd) /\ Knows(cmd)
       /\ Obeys(cmd, r) /\ app' = (cmd = "CMD55")
       /\ Erases(cmd)
       /\ UNCHANGED refused
    \/ /\ Listens(cmd) /\ ~Knows(cmd)
       /\ r = "refused"
       /\ UNCHANGED <<placeVars, flashVars, refused>>
    \/ /\ Listens(cmd) /\ refused < MaxRefusals
       /\ refused' = refused + 1
       /\ r \in {"refused", "none"} /\ app' = FALSE
       /\ (IF cmd = "CMD12" THEN Enter("ready", 0) ELSE Stay)
       /\ UNCHANGED flashVars

\* Mutant: any response to CMD8 but one of an old card is one of a new card.
FoundOld(r) == r = "illegal" \/ r = "none"
FoundSD1(r) == r = "illegal"

\* begin() repeats a command until its time is up.  Mutant: the time is not looked at.
Again == IF Head(steps) = "ACMD41" THEN <<"CMD55">> \o steps ELSE steps
RetryForever == GoOn(Again) /\ m_selected' = TRUE
Retry == IF initLate THEN Fail ELSE GoOn(Again) /\ m_selected' = TRUE

Identify(r) ==
    \/ FoundSD1(r) /\ m_type' = "SD1" /\ GoOn(Tail(steps)) /\ m_selected' = TRUE
    \/ ~FoundSD1(r) /\ r = "idle" /\ m_type' = "SD2" /\ m_selected' = TRUE
         /\ GoOn(Append(Tail(steps), "CMD58"))
    \/ ~FoundSD1(r) /\ r # "idle" /\ UNCHANGED m_type /\ Retry

\* The OCR register tells a card of blocks from one of bytes.
ReadOcr == m_type' = IF call = "begin" /\ kind = "SDHC" THEN "SDHC" ELSE m_type

\* CMD25 to a card that is still busy with a block of another transfer, which the driver
\* has given up: the card does not see it, and its zeros say that it obeys.
Misleads == Head(steps) = "CMD25" /\ busy

Wanted(cmd) == IF cmd = "CMD0" THEN "idle" ELSE "ready"

Command ==
    /\ steps # <<>> /\ IsCommand(Head(steps))
    /\ ~busy \/ late
    /\ \E r \in Responses :
         /\ CardTakes(Head(steps), r)
         /\ CASE Head(steps) = "CMD8" -> Identify(r)
              [] Head(steps) = "CMD55" ->
                   GoOn(Tail(steps)) /\ m_selected' = TRUE /\ UNCHANGED m_type
              [] Head(steps) = "CMD58" /\ r = "ready" ->
                   GoOn(Tail(steps)) /\ m_selected' = TRUE /\ ReadOcr
              [] Head(steps) \notin {"CMD8", "CMD55", "CMD58"} /\ r = Wanted(Head(steps)) ->
                   GoOn(Tail(steps)) /\ m_selected' = TRUE /\ UNCHANGED m_type
              [] Head(steps) \in {"CMD0", "ACMD41"} /\ r # Wanted(Head(steps)) ->
                   Retry /\ UNCHANGED m_type
              [] OTHER -> Fail /\ UNCHANGED m_type
    /\ misled' = (mode' = "takeMany" /\ (misled \/ Misleads))
    /\ UNCHANGED <<got, kind, acked, unsafe, strays, boots>>

-----------------------------------------------------------------------------
(* Data and waits. *)

Sending == mode \in {"sendRegister", "sendOne", "sendMany"} /\ kind # "gone" /\ ~busy

\* readData(): the card's data, or a start token that is none, or no token in time.
DataComes ==
    /\ steps # <<>> /\ Head(steps) = "data"
    /\ Sending
    /\ got' = store[at]
    /\ IF mode = "sendMany" THEN Enter(mode, at + 1) ELSE Enter("ready", 0)
    /\ GoOn(Tail(steps))
    /\ UNCHANGED <<m_selected, m_type, kind, app, flashVars, ghostVars, boundVars>>

NoData ==
    /\ steps # <<>> /\ Head(steps) \in {"data", "csd"}
    /\ \/ busy /\ kind # "gone"
       \/ ~Sending /\ late
    /\ Fail
    /\ UNCHANGED <<got, m_type, kind, placeVars, flashVars,
                   ghostVars, boundVars>>

\* erase() reads the CSD register: how many blocks the card erases together.
ReadCsd ==
    /\ steps # <<>> /\ Head(steps) = "csd"
    /\ Sending
    /\ Enter("ready", 0)
    /\ \E unit \in EraseUnits :
         IF call = "erase" => block % unit = 0 /\ (last + 1) % unit = 0
           THEN GoOn(Tail(steps)) /\ ChipSelectHigh
           ELSE Fail
    /\ UNCHANGED <<got, m_type, kind, app, flashVars, ghostVars,
                   boundVars>>

\* waitNotBusy(): a card that is gone reads 0xFF, as a ready one does.
Ready == ~busy \/ kind = "gone"
WaitEnds ==
    /\ steps # <<>> /\ Head(steps) = "wait"
    /\ Ready
    /\ GoOn(Tail(steps))
    /\ UNCHANGED <<got, m_selected, m_type, kind, placeVars, flashVars, ghostVars,
                   boundVars>>

WaitTimesOut ==
    /\ steps # <<>> /\ Head(steps) = "wait"
    /\ ~Ready /\ late
    /\ Fail
    /\ UNCHANGED <<got, m_type, kind, placeVars, flashVars,
                   ghostVars, boundVars>>

Accepted(taken) == taken

\* The card takes a block after the token it waits for, or refuses it.
TokenFits == mode = IF Head(steps) = "oneToken" THEN "takeOne" ELSE "takeMany"
CanTake == TokenFits /\ ~busy /\ kind # "gone" /\ at \in Blocks
AfterBlock == IF mode = "takeOne" THEN Enter("ready", 0) ELSE Enter(mode, at + 1)

TakeBlock ==
    /\ CanTake
    /\ store' = [store EXCEPT ![at] = src]
    /\ programming' = {at} /\ busy' = TRUE
    /\ AfterBlock
    /\ UNCHANGED refused

RefuseBlock ==
    \/ ~CanTake /\ Stay /\ UNCHANGED <<flashVars, refused>>
    \/ CanTake /\ refused < MaxRefusals /\ refused' = refused + 1
         /\ (IF mode = "takeOne" THEN Enter("ready", 0) ELSE Stay)
         /\ UNCHANGED flashVars

\* writeData(token, src): the token, the block, and the card's data response.
SendData ==
    /\ steps # <<>> /\ Head(steps) \in {"oneToken", "nextToken"}
    /\ \E taken \in BOOLEAN :
         /\ IF taken THEN TakeBlock ELSE RefuseBlock
         /\ IF Accepted(taken) THEN GoOn(Tail(steps)) /\ UNCHANGED m_selected ELSE Fail
         /\ strays' = IF taken /\ misled THEN strays \cup {at, block} ELSE strays
    /\ UNCHANGED <<got, m_type, kind, app, acked, unsafe, misled, boots>>

\* writeStop(): the stop token; the card may take a moment before it is busy.
SendStop ==
    /\ steps # <<>> /\ Head(steps) = "stopToken"
    /\ IF mode = "takeMany" /\ ~busy /\ kind # "gone"
         THEN Enter("ready", 0) /\ busy' \in BOOLEAN
         ELSE Stay /\ UNCHANGED busy
    /\ misled' = (misled /\ mode' = "takeMany")
    /\ GoOn(Tail(steps))
    /\ UNCHANGED <<got, m_selected, m_type, kind, app, programming, store, acked, unsafe,
                   strays, boundVars>>

-----------------------------------------------------------------------------
(* The card, the clock, and what goes wrong. *)

CardReady ==
    /\ busy
    /\ busy' = FALSE /\ programming' = {}
    /\ UNCHANGED <<callVars, driverVars, late, kind, placeVars, store,
                   ghostVars, boundVars>>

\* A step's time is looked at while the card keeps the driver waiting.
Waiting ==
    /\ steps # <<>>
    /\ IF Head(steps) \in {"data", "csd"} THEN ~Sending ELSE busy

StepIsLate ==
    /\ Waiting /\ ~late
    /\ late' = TRUE
    /\ UNCHANGED <<callVars, driverVars, kind, placeVars, flashVars,
                   ghostVars, boundVars>>

InitIsLate ==
    /\ call = "begin" /\ ~initLate
    /\ initLate' = TRUE
    /\ UNCHANGED <<callVars, m_selected, m_type, late, kind, placeVars,
                   flashVars, ghostVars, boundVars>>

\* The driver starts anew, with or without the card; what is not programmed is lost
\* with the card's power.
Reset ==
    /\ boots < MaxBoots
    /\ boots' = boots + 1
    /\ call' = NoCall /\ steps' = <<>> /\ block' = 0 /\ last' = 0 /\ src' = Erased
    /\ session' = "closed" /\ next' = 0 /\ got' = Unknown
    /\ m_selected' = FALSE /\ m_type' = "unknown"
    /\ initLate' = FALSE /\ late' = FALSE
    /\ UNCHANGED <<kind, refused>>

DriverResets ==
    /\ Reset
    /\ UNCHANGED <<placeVars, flashVars, ghostVars>>

\* What a card without power loses.
CardLosesPower ==
    /\ mode' = "off" /\ app' = FALSE /\ at' = 0 /\ eraseFrom' = 0 /\ eraseTo' = 0
    /\ busy' = FALSE /\ programming' = {}
    /\ store' = [b \in Blocks |-> IF b \in programming THEN Damaged ELSE store[b]]
    /\ Doubt(unsafe) /\ unsafe' = {} /\ misled' = FALSE

PowerFails == Reset /\ CardLosesPower

\* The card is pulled out.
CardIsPulled ==
    /\ boots < MaxBoots
    /\ boots' = boots + 1
    /\ kind # "gone" /\ kind' = "gone"
    /\ CardLosesPower
    /\ UNCHANGED <<callVars, driverVars, late, refused>>

Driver ==
    \/ Return \/ Command
    \/ DataComes \/ NoData \/ ReadCsd
    \/ WaitEnds \/ WaitTimesOut
    \/ SendData \/ SendStop

Time == StepIsLate \/ InitIsLate

Next ==
    \/ Begin \/ Erase \/ Read \/ Write \/ IsBusy
    \/ Driver \/ Time
    \/ CardReady
    \/ DriverResets \/ PowerFails \/ CardIsPulled

Spec == Init /\ [][Next]_vars
FairSpec == Spec /\ WF_vars(Driver) /\ WF_vars(StepIsLate) /\ WF_vars(InitIsLate)
-----------------------------------------------------------------------------
Calls == Reads \cup {"begin", "erase", "writeBlock", "writeStart", "writeData",
                     "writeStop"}
Steps == {"csd", "data", "wait", "oneToken", "nextToken", "stopToken"}

TypeOK ==
    /\ call \in Calls \cup {NoCall}
    /\ \A i \in DOMAIN steps : IsCommand(steps[i]) \/ steps[i] \in Steps
    /\ block \in 0 .. LastBlock + 1 /\ last \in 0 .. LastBlock + 1
    /\ src \in {Erased} \cup Data
    /\ session \in {"closed", "none", "reading", "writing"}
    /\ next \in 0 .. LastBlock + 1
    /\ got \in Contents \cup {Unknown}
    /\ m_selected \in BOOLEAN
    /\ m_type \in {"unknown", "SD1", "SD2", "SDHC"}
    /\ initLate \in BOOLEAN /\ late \in BOOLEAN
    /\ kind \in {"SD1", "SD2", "SDHC", "gone"}
    /\ mode \in {"off", "idle", "ready", "sendRegister", "sendOne", "sendMany",
                 "takeOne", "takeMany"}
    /\ app \in BOOLEAN
    /\ at \in 0 .. LastBlock + 1
    /\ eraseFrom \in Blocks /\ eraseTo \in Blocks
    /\ busy \in BOOLEAN /\ programming \subseteq Blocks
    /\ store \in [Blocks -> Contents]
    /\ acked \in [Blocks -> Contents \cup {Unknown}]
    /\ unsafe \subseteq Blocks
    /\ misled \in BOOLEAN /\ strays \subseteq Blocks
    /\ refused \in 0 .. MaxRefusals
    /\ boots \in 0 .. MaxBoots

\* What a call has reported written or erased is on the card, at its place, until
\* a call is asked to change it: through refused commands, through commands sent
\* to a busy card whose zeros look like success, through timeouts and calls that go on after
\* them, resets and a card pulled out.  A power failure takes with it at most the block that
\* the last successful call wrote.  The exception is a writeStart() to a card that is still
\* busy with a transfer given up before: the card goes on with that one, so that the blocks
\* land where it was, and not where they were meant to.
AcknowledgedIsStored ==
    \A b \in Blocks \ strays : acked[b] # Unknown => store[b] = acked[b]

\* A block reported read is the one asked for, in a sequence of blocks too.
ReadsAreRight ==
    call \in {"readBlock", "readData"} /\ steps = <<>> => got = store[block]

\* What a call reports is so: what it says it has written or erased, and has read, but for
\* the blocks written in a transfer that the card did not start.
ReportsAreTrue == AcknowledgedIsStored /\ ReadsAreRight

\* begin() succeeds only with the type that the card has, on which its addresses
\* depend, whatever responses it missed.
TypeIsRight == session # "closed" /\ kind # "gone" => m_type = kind

\* The bus is given back at the end of every call, failed ones too, but for those
\* inside a transfer of several blocks; those need the card selected.
BusIsReleased == call = NoCall => m_selected = (session \in {"reading", "writing"})

\* Between two calls the driver's idea of the card is right, and the bus is in the
\* state that the next call takes for granted.
DriverMatchesCard == TypeOK /\ TypeIsRight /\ BusIsReleased

\* Every call returns, from a card that never becomes ready, never sends a token,
\* never leaves the idle state, or is not there.
CallsReturn == call # NoCall ~> call = NoCall
=============================================================================
