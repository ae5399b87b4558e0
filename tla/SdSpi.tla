------------------------------- MODULE SdSpi -------------------------------
(***************************************************************************)
(* SdFat's SPI drivers, under the card driver: how bytes are exchanged     *)
(* with the card through the registers, FIFOs and DMA channels of the      *)
(* processor.  A call of the driver is a program of steps, each one an     *)
(* access to a register or a wait for a flag; the hardware moves frames    *)
(* between any two of them, as often as an interrupt lets it.              *)
(*                                                                         *)
(*   frames16   Teensy 3.x, two bytes in a frame (the default)             *)
(*   frames8    Teensy 3.x, SPI_USE_8BIT_FRAME                             *)
(*   avr        the pipelined loops of SdSpi.h                             *)
(*   library    SPI.transfer() byte by byte (SdSpiLib, Teensy LC)          *)
(*   dma        SAM3X with its DMA controller                              *)
(*   particle   a DMA transfer that ends with a callback                   *)
(*   stm32      whole buffers handed to the DMA functions of the library   *)
(*   esp8266    ... and to transferBytes(), which reads 32-bit words       *)
(***************************************************************************)
EXTENDS Integers, Sequences

CONSTANTS
    SendLengths,      \* bytes that the card driver sends at once
    ReceiveLengths,   \* bytes that it receives at once
    Numbers             \* bound: calls are numbered 0 .. Numbers - 1, again and again

Ports == {"frames16", "frames8", "avr", "library", "dma", "particle", "stm32", "esp8266"}

VARIABLES
    port,
    selected,         \* between beginTransaction() and endTransaction()
    op, length,       \* the call under way and how many bytes it is about
    number,           \* its number: the tag of its bytes
    address,          \* of its buffer, modulo 4
    place,            \* the next step of its program
    fed, buf,         \* bytes given to the transmitter, bytes stored
    result            \* what receive() has returned in this transaction

VARIABLES             \* the hardware
    tx, rx,           \* frames to send, the one in the shift register first; received ones
    flag, overrun,    \* transfer complete (TCF, SPIF); data lost (OVRES)
    dmaTx, dmaRx,     \* bytes that the channels have still to move
    wire              \* what the card has got since the call began

driverVars == <<port, selected, op, length, number, address, place, fed, buf, result>>
hardwareVars == <<tx, rx, flag, overrun, dmaTx, dmaRx, wire>>
spiVars == <<driverVars, hardwareVars>>

NoOp == "none"
Dummy == "ff"         \* 0XFF, sent to receive

-----------------------------------------------------------------------------
(* The programs. *)

\* Mutant: as many frames as the FIFO has room for.
SPI_FIFO_DEPTH == 4
SPI_INITIAL_FIFO_DEPTH == 3
Least(a, b) == IF a < b THEN a ELSE b
Times(k, s) == [i \in 1 .. k * Len(s) |-> s[((i - 1) % Len(s)) + 1]]

\* Some frames are pushed ahead; each one received makes room for the next.
Pipelined(push, n) ==
    LET nf == Least(n, SPI_INITIAL_FIFO_DEPTH) IN
    Times(nf, <<push>>) \o Times(n - nf, <<"full", push, "pop">>)
      \o Times(nf, <<"full", "pop">>)

TeensySendByte == <<"clear", "unflag", "push", "flagged">>
TeensyReceiveByte == TeensySendByte \o <<"pop">>

\* A byte of its own makes the rest even.
TeensyWords(byte, n) ==
    <<"clear">> \o (IF n % 2 = 1 THEN byte ELSE <<>>) \o Pipelined("push16", n \div 2)
TeensyBytes(n) == <<"clear">> \o Pipelined("push", n)

AvrByte == <<"push", "flagged">>
AvrReceive(n) ==
    IF n = 0 THEN <<>>
    ELSE <<"push">> \o Times(n - 1, <<"flagged", "pop", "push">>) \o <<"flagged", "pop">>
AvrSend(n) ==
    IF n = 0 THEN <<>>
    ELSE <<"push">> \o Times(n - 1, <<"flagged", "push">>) \o <<"flagged">>

LibraryTransfer(n) == Times(n, <<"push", "flagged", "pop">>)

DmaByte == <<"push", "full", "pop">>
DmaReceive == <<"status", "startRx", "startTx", "received", "check">>
DmaSend == <<"startTx", "fed", "empty", "pop">>

\* Both directions of the transfer are started; the callback raises the flag.
CallbackTransfer == <<"unflag", "startRx", "startTx", "flagged">>

\* Bytes up to the next 32-bit word are sent one by one.
Unaligned(n) == Least(n, (4 - address) % 4)
AlignedSend(n) == LibraryTransfer(Unaligned(n)) \o <<"bulk">>
WholeBuffer == <<"bulk">>

ReceiveProgram(p, n) ==
    CASE p = "frames16" -> TeensyWords(TeensyReceiveByte, n)
      [] p = "frames8"  -> TeensyBytes(n)
      [] p = "avr"      -> AvrReceive(n)
      [] p = "library"  -> LibraryTransfer(n)
      [] p = "dma"      -> DmaReceive
      [] p = "particle" -> CallbackTransfer
      [] p \in {"stm32", "esp8266"} -> WholeBuffer

SendProgram(p, n) ==
    CASE p = "frames16" -> TeensyWords(TeensySendByte, n)
      [] p = "frames8"  -> TeensyBytes(n)
      [] p = "avr"      -> AvrSend(n)
      [] p = "library"  -> LibraryTransfer(n)
      [] p = "dma"      -> DmaSend
      [] p = "particle" -> CallbackTransfer
      [] p = "stm32"    -> WholeBuffer
      [] p = "esp8266"  -> AlignedSend(n)

ReceiveByteProgram(p) ==
    CASE p \in {"frames16", "frames8"} -> TeensyReceiveByte
      [] p = "avr" -> AvrByte \o <<"pop">>
      [] p \in {"library", "stm32", "esp8266"} -> LibraryTransfer(1)
      [] p \in {"dma", "particle"} -> DmaByte

SendByteProgram(p) ==
    CASE p \in {"frames16", "frames8"} -> TeensySendByte
      [] p = "avr" -> AvrByte
      [] p \in {"library", "stm32", "esp8266"} -> LibraryTransfer(1)
      [] p \in {"dma", "particle"} -> DmaByte

Program ==
    CASE op = "receive" -> ReceiveProgram(port, length)
      [] op = "send" -> SendProgram(port, length)
      [] op = "receiveByte" -> ReceiveByteProgram(port)
      [] op \in {"sendByte", "release"} -> SendByteProgram(port)
      [] op = NoOp -> <<>>

Receiving == op \in {"receive", "receiveByte"}
Returned == op # NoOp /\ place > Len(Program)
At(step) == op # NoOp /\ place <= Len(Program) /\ Program[place] = step

-----------------------------------------------------------------------------
(* The calls of the card driver. *)

InitSpi ==
    /\ port \in Ports /\ selected = FALSE
    /\ op = NoOp /\ length = 0 /\ number = 0 /\ address = 0 /\ place = 1
    /\ fed = 0 /\ buf = <<>> /\ result = 0
    /\ tx = <<>> /\ rx = <<>> /\ flag = FALSE /\ overrun = FALSE
    /\ dmaTx = 0 /\ dmaRx = 0 /\ wire = <<>>

\* beginTransaction(): the SAM3X driver resets its hardware.
BeginTransaction ==
    /\ op = NoOp /\ ~selected
    /\ selected' = TRUE /\ result' = 0
    /\ IF port = "dma"
         THEN tx' = <<>> /\ rx' = <<>> /\ flag' = FALSE /\ overrun' = FALSE
         ELSE UNCHANGED <<tx, rx, flag, overrun>>
    /\ UNCHANGED <<port, op, length, number, address, place, fed, buf, dmaTx, dmaRx, wire>>

StartCall(o, n) ==
    /\ op = NoOp /\ selected
    /\ op' = o /\ length' = n /\ place' = 1
    /\ number' = (number + 1) % Numbers
    /\ address' \in IF port = "esp8266" /\ o = "send" THEN 0 .. 3 ELSE {0}
    /\ fed' = 0 /\ buf' = <<>> /\ wire' = <<>>
    /\ UNCHANGED <<port, selected, result, tx, rx, flag, overrun, dmaTx, dmaRx>>

\* After an error the card driver only makes chip select high, which sends a byte.
CallSpi ==
    \/ result = 0 /\ \E n \in ReceiveLengths : StartCall("receive", n)
    \/ result = 0 /\ \E n \in SendLengths : StartCall("send", n)
    \/ result = 0 /\ StartCall("receiveByte", 1)
    \/ result = 0 /\ StartCall("sendByte", 1)
    \/ StartCall("release", 1)

ReturnSpi ==
    /\ Returned
    /\ op' = NoOp /\ length' = 0 /\ address' = 0 /\ place' = 1 /\ fed' = 0
    /\ buf' = <<>> /\ wire' = <<>>
    /\ selected' = (op # "release")
    /\ UNCHANGED <<port, number, result, tx, rx, flag, overrun, dmaTx, dmaRx>>

-----------------------------------------------------------------------------
(* The steps of a call. *)

TxRoom == CASE port \in {"frames16", "frames8"} -> 5 [] port = "dma" -> 2 [] OTHER -> 1
RxRoom == IF port \in {"frames16", "frames8"} THEN 4 ELSE 1

Bytes(first, n) ==
    [i \in 1 .. n |-> IF Receiving THEN Dummy ELSE <<number, first + i - 1>>]

\* A frame that finds no room is lost.
Feed(n) ==
    /\ fed' = fed + n
    /\ tx' = IF Len(tx) < TxRoom THEN Append(tx, Bytes(fed + 1, n)) ELSE tx

\* An access to the AVR's data register ends what its flag tells.
Access == flag' = (flag /\ port \notin {"avr", "library", "stm32", "esp8266"})

Step(s) == At(s) /\ place' = place + 1

Register ==
    \/ /\ Step("clear")
       /\ rx' = <<>>
       /\ UNCHANGED <<fed, buf, result, tx, flag, overrun, dmaTx, dmaRx>>
    \/ /\ Step("unflag")
       /\ flag' = FALSE
       /\ UNCHANGED <<fed, buf, result, tx, rx, overrun, dmaTx, dmaRx>>
    \/ /\ Step("status")
       /\ overrun' = FALSE
       /\ UNCHANGED <<fed, buf, result, tx, rx, flag, dmaTx, dmaRx>>
    \/ /\ Step("push")
       /\ Feed(1) /\ Access
       /\ UNCHANGED <<buf, result, rx, overrun, dmaTx, dmaRx>>
    \/ /\ Step("push16")
       /\ Feed(2)
       /\ UNCHANGED <<buf, result, rx, flag, overrun, dmaTx, dmaRx>>
    \/ /\ Step("pop")
       /\ Access
       /\ rx' = IF rx = <<>> THEN rx ELSE Tail(rx)
       /\ buf' = IF Receiving /\ rx # <<>> THEN buf \o Head(rx) ELSE buf
       /\ UNCHANGED <<fed, result, tx, overrun, dmaTx, dmaRx>>
    \/ /\ Step("check")
       /\ overrun' = FALSE
       /\ result' = result + (IF overrun THEN 1 ELSE 0)
       /\ UNCHANGED <<fed, buf, tx, rx, flag, dmaTx, dmaRx>>

DmaStart ==
    /\ \/ Step("startRx") /\ dmaRx' = length /\ UNCHANGED dmaTx
       \/ Step("startTx") /\ dmaTx' = length /\ UNCHANGED dmaRx
    /\ UNCHANGED <<fed, buf, result, tx, rx, flag, overrun>>

Wait ==
    /\ \/ Step("full") /\ rx # <<>>
       \/ Step("flagged") /\ flag
       \/ Step("received") /\ dmaRx = 0
       \/ Step("fed") /\ dmaTx = 0
       \/ Step("empty") /\ tx = <<>>
    /\ UNCHANGED <<fed, buf, result, tx, rx, flag, overrun, dmaTx, dmaRx>>

\* SAM3X_DMA_TIMEOUT: the DMA has not ended after 100 ms, or was seen too late to have.
DmaTimesOut ==
    /\ Step("received")
    /\ dmaRx' = 0 /\ dmaTx' = 0 /\ result' = 2
    /\ UNCHANGED <<fed, buf, tx, rx, flag, overrun>>

Processor ==
    /\ Register \/ DmaStart \/ Wait \/ DmaTimesOut
    /\ UNCHANGED <<port, selected, op, length, number, address, wire>>

-----------------------------------------------------------------------------
(* The hardware: the card answers the bytes of a call with bytes of its own. *)

Answer(n) == [i \in 1 .. n |-> <<number, Len(wire) + i>>]

\* The FIFO of the Teensy drops a frame that finds it full; the others keep the newest.
Shift ==
    /\ tx # <<>>
    /\ tx' = Tail(tx)
    /\ wire' = wire \o Head(tx)
    /\ flag' = (flag \/ port # "particle")
    /\ LET answer == Answer(Len(Head(tx))) IN
       IF Len(rx) < RxRoom THEN rx' = Append(rx, answer) /\ UNCHANGED overrun
       ELSE /\ overrun' = TRUE
            /\ rx' = IF RxRoom = 1 THEN <<answer>> ELSE rx
    /\ UNCHANGED <<driverVars, dmaTx, dmaRx>>

\* The library's transfer with a callback takes a byte in before it sends the next.
DmaFeeds ==
    /\ dmaTx > 0 /\ Len(tx) < TxRoom
    /\ port = "particle" => dmaTx = dmaRx
    /\ dmaTx' = dmaTx - 1
    /\ Feed(1)
    /\ UNCHANGED <<port, selected, op, length, number, address, place, buf, result,
                   rx, flag, overrun, dmaRx, wire>>

DmaStores ==
    /\ dmaRx > 0 /\ rx # <<>>
    /\ dmaRx' = dmaRx - 1
    /\ buf' = IF Receiving THEN buf \o Head(rx) ELSE buf
    /\ rx' = Tail(rx)
    /\ UNCHANGED <<port, selected, op, length, number, address, place, fed, result,
                   tx, flag, overrun, dmaTx, wire>>

\* SD_SPI_DMA_TransferComplete_Callback().
DmaCallsBack ==
    /\ port = "particle" /\ At("flagged") /\ ~flag
    /\ dmaTx = 0 /\ dmaRx = 0
    /\ flag' = TRUE
    /\ UNCHANGED <<driverVars, tx, rx, overrun, dmaTx, dmaRx, wire>>

\* A function of the library exchanges the rest of the buffer; only dmaTransfer() of the
\* STM32 can tell that it did not.
LibraryExchanges ==
    /\ Step("bulk")
    /\ \/ /\ fed' = length
          /\ wire' = wire \o Bytes(fed + 1, length - fed)
          /\ buf' = IF Receiving THEN Answer(length) ELSE buf
          /\ UNCHANGED result
       \/ /\ port = "stm32" /\ Receiving
          /\ result' = 2
          /\ UNCHANGED <<fed, wire, buf>>
    /\ UNCHANGED <<port, selected, op, length, number, address, tx, rx, flag, overrun,
                   dmaTx, dmaRx>>

NextSpi ==
    \/ BeginTransaction \/ CallSpi \/ ReturnSpi
    \/ Processor
    \/ Shift \/ DmaFeeds \/ DmaStores
    \/ DmaCallsBack \/ LibraryExchanges

-----------------------------------------------------------------------------
(* The clock. *)

\* The first of the steps <<up to which divisor, the divisor it gives>> that fits.
FirstFit(table, d) ==
    LET fit == {i \in DOMAIN table : d <= table[i][1] \/ i = Len(table)} IN
    table[CHOOSE i \in fit : \A j \in fit : i <= j][2]

TeensyTable ==
    <<<<2, 2>>, <<4, 4>>, <<8, 8>>, <<12, 12>>, <<16, 16>>, <<32, 48>>, <<64, 96>>, <<0, 192>>>>
LibraryTable ==
    <<<<2, 2>>, <<4, 4>>, <<8, 8>>, <<16, 16>>, <<32, 32>>, <<64, 64>>, <<0, 128>>>>
ParticleTable == LibraryTable
Stm32Table ==
    <<<<2, 2>>, <<4, 4>>, <<8, 8>>, <<16, 16>>, <<32, 32>>, <<64, 64>>, <<128, 128>>, <<0, 256>>>>

\* The library is asked for a frequency.
EspDivisor(d) == IF d = 0 THEN 1 ELSE d

\* b doubles until it reaches the divisor; SPI2X and the clock select bits follow r.
AvrDivisor(d) ==
    LET steps == <<0, 1, 2, 3, 4, 5, 7>>
        fit == {i \in 1 .. 7 : d <= 2 ^ i \/ i = 7}
        r == steps[CHOOSE i \in fit : \A j \in fit : i <= j]
        select == <<4, 16, 64, 128>>[r \div 2 + 1]
    IN IF r % 2 = 1 THEN select ELSE select \div 2

Divisor(p, d) ==
    CASE p \in {"frames16", "frames8"} -> FirstFit(TeensyTable, d)
      [] p = "avr" -> AvrDivisor(d)
      [] p = "library" -> FirstFit(LibraryTable, d)
      [] p = "particle" -> FirstFit(ParticleTable, d)
      [] p = "stm32" -> FirstFit(Stm32Table, d)
      [] p = "esp8266" -> EspDivisor(d)
      [] p = "dma" -> d
-----------------------------------------------------------------------------
TypeOK ==
    /\ port \in Ports /\ selected \in BOOLEAN
    /\ op \in {NoOp, "receive", "send", "receiveByte", "sendByte", "release"}
    /\ length \in Nat /\ number \in 0 .. Numbers - 1 /\ address \in 0 .. 3 /\ place \in Nat \ {0}
    /\ fed \in Nat /\ result \in 0 .. 3
    /\ Len(tx) <= TxRoom /\ Len(rx) <= RxRoom
    /\ flag \in BOOLEAN /\ overrun \in BOOLEAN
    /\ dmaTx \in 0 .. length /\ dmaRx \in 0 .. length

\* A call that reports no error has exchanged exactly its bytes, in order: the card got
\* what was to be sent, the buffer holds what the card answered, and the bus is at rest,
\* so that chip select may go high; nothing a former call left behind is taken for data.
CallsAreExact ==
    Returned /\ result = 0 =>
      /\ wire = [i \in 1 .. length |-> IF Receiving THEN Dummy ELSE <<number, i>>]
      /\ Receiving => buf = [i \in 1 .. length |-> <<number, i>>]
      /\ tx = <<>>

\* No loop waits for a frame that is not on its way: the processor may be held up for as
\* long as an interrupt takes, and the FIFO still has room for what comes in.
WaitsEnd ==
    /\ At("full") => tx # <<>> \/ rx # <<>>
    /\ At("flagged") =>
         \/ flag \/ tx # <<>>
         \/ port = "particle" /\ (dmaTx > 0 \/ rx # <<>> \/ dmaRx = 0)
    /\ At("empty") \/ At("fed") => dmaTx = 0 \/ tx # <<>> \/ Len(tx) < TxRoom

\* The card is never clocked faster than was asked for.
ClockIsKept == \A p \in Ports : \A d \in 2 .. 128 : Divisor(p, d) >= d

SpiIsExact == CallsAreExact /\ WaitsEnd /\ ClockIsKept
=============================================================================
