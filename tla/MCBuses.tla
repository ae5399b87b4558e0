------------------------------- MODULE MCBuses -------------------------------
(***************************************************************************)
(* What goes over the SPI buses, for TLC: a behaviour is one of the driver *)
(* of the second CAN controller and the controller, one of what that       *)
(* driver makes of the bits of the controller's registers, one of a driver *)
(* of SdFat and its hardware, one of SoftSPI and its pins, or one of what  *)
(* SdFat computes from the bits of a card's register or of a command.      *)
(***************************************************************************)
EXTENDS Mcp2515

CONSTANTS StdIds, ExtIds, Lengths, BusyRates, MaxCalls,
          SendLengths, ReceiveLengths, Numbers, BytesOut, BytesIn,
          Sizes, Arguments, MaxData
VARIABLES rate, cnf, mask, filt, msg, buffer, frame, onBus, asked, calls,
          port, selected, op, length, number, address, place, fed, buf, result,
          spiTx, spiRx, flag, overrun, dmaTx, dmaRx, wire,
          setup, call, rxData, next, safe, enabled, levels, miso, got, wanted,
          what, csd, data, answer,
          part        \* what the behaviour is about

ASSUME IdentifiersAssumption ==
    /\ StdIds \subseteq 0 .. 2047 /\ ExtIds \subseteq 0 .. 536870911
    /\ Lengths \subseteq 0 .. 8 /\ MaxCalls \in Nat /\ 0 \notin BusyRates
ASSUME LengthsAssumption ==
    /\ SendLengths \subseteq Nat /\ ReceiveLengths \subseteq Nat
    /\ \A n \in SendLengths : n % 2 = 0
    /\ Numbers \in Nat \ {0, 1}
\* Cards of less than 2^31 blocks.
ASSUME CodesAssumption ==
    /\ \A n \in Sizes : n \in Nat /\ n < 2097151
    /\ Arguments \cup BytesOut \cup BytesIn \subseteq 0 .. 255

\* The bits of a byte, the highest first.
Bits(b) == [i \in 1 .. 8 |-> (b \div 2 ^ (8 - i)) % 2]

Registers == INSTANCE CanRegisters
Spi == INSTANCE SdSpi WITH tx <- spiTx, rx <- spiRx
Pin == INSTANCE SoftSpi WITH
    Sent <- {Bits(b) : b \in BytesOut}, Answered <- {Bits(b) : b \in BytesIn}
Codes == INSTANCE CardCodes

regVars == <<rate, cnf, mask, filt, msg, buffer, frame, onBus, asked, calls>>
spiVars == <<port, selected, op, length, number, address, place, fed, buf, result,
             spiTx, spiRx, flag, overrun, dmaTx, dmaRx, wire>>
pinVars == <<setup, call, rxData, next, safe, enabled, levels, miso, got, wanted>>
codeVars == <<what, csd, data, answer>>
sdVars == <<spiVars, pinVars, codeVars>>
allVars == <<vars, regVars, sdVars, part>>

InitParts ==
    /\ part \in {"calls", "registers", "transfers", "pins", "codes"}
    /\ Init /\ Registers!InitRegisters
    /\ Spi!InitSpi
    /\ part # "transfers" => port = "avr"
    /\ Pin!InitPins
    /\ part # "pins" => setup.mode = 0 /\ ~setup.high /\ ~enabled
    /\ Codes!InitCodes
    /\ part # "codes" => what = "crc" /\ data = <<>>

OfCalls(A) == part = "calls" /\ A /\ UNCHANGED <<regVars, sdVars, part>>
OfRegisters(A) == part = "registers" /\ A /\ UNCHANGED <<vars, sdVars, part>>
OfTransfers(A) ==
    part = "transfers" /\ A /\ UNCHANGED <<vars, regVars, pinVars, codeVars, part>>
OfPins(A) == part = "pins" /\ A /\ UNCHANGED <<vars, regVars, spiVars, codeVars, part>>
OfCodes(A) == part = "codes" /\ A /\ UNCHANGED <<vars, regVars, spiVars, pinVars, part>>

SpecParts ==
    /\ InitParts
    /\ [][\/ OfCalls(Next) \/ OfRegisters(Registers!NextRegisters)
          \/ OfTransfers(Spi!NextSpi) \/ OfPins(Pin!NextPins)
          \/ OfCodes(Codes!NextCodes)]_allVars
    /\ WF_allVars(OfCalls(Driver)) /\ WF_allVars(OfCalls(ReadStatus))
    /\ WF_allVars(OfCalls(Transmit)) /\ WF_allVars(OfCalls(ChangeMode))

\* The registers of the controller carry identifiers, lengths, masks, filters and rates
\* exactly (readMsg(), sendMsg(), init_Mask(), init_Filt()).  A transfer that reports no
\* error has exchanged exactly its bytes, in order, whenever the processor was held up,
\* and no loop waits for what is not on its way; a byte sent over pins is whole in each
\* SPI mode, and no write to a pin undoes that of an interrupt.  The driver takes the
\* right size of the card out of its register, and the codes it sends with the commands
\* are those the card checks (cardSize(), cardCommand()).
BytesAreExact ==
    /\ part = "registers" => Registers!RegistersAreExact
    /\ part = "transfers" => Spi!SpiIsExact
    /\ part = "pins" => Pin!PinsAreExact
    /\ part = "codes" => Codes!CodesAreRight
=============================================================================
