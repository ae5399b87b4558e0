------------------------------- MODULE SoftSpi -------------------------------
(***************************************************************************)
(* SoftSPI.h over DigitalPin.h: a byte is exchanged with the card bit by   *)
(* bit, by writing two pins and reading a third, in any of the four SPI    *)
(* modes.  A pin is a bit of an AVR port register that other pins share,   *)
(* one of which an interrupt writes.  Registers above 0X3F are written by  *)
(* reading, changing and storing them, with interrupts disabled; a lower   *)
(* one by a single instruction.                                            *)
(***************************************************************************)
EXTENDS Integers, Sequences

CONSTANTS Sent, Answered    \* bytes, as sequences of eight bits

Pins == {"sck", "mosi", "other"}

VARIABLES
    setup,            \* the SPI mode, and whether the port register is above 0X3F
    call,             \* the call under way, what it sends, and what it found
    rxData,           \* the bits it has read
    next,             \* the next step of its program
    safe,             \* where fastBitWriteSafe() is: its SREG and the port as it was read
    enabled           \* interrupts

VARIABLES
    levels,           \* of the pins
    miso,             \* bits the card puts on MISO, the present one first
    got,              \* bits the card has taken from MOSI
    wanted            \* level the interrupt last gave its pin

pinVars == <<setup, call, rxData, next, safe, enabled, levels, miso, got, wanted>>

MODE_CPHA == setup.mode % 2 = 1
MODE_CPOL == setup.mode \div 2 = 1

-----------------------------------------------------------------------------
\* The steps of one bit: the levels SCK and MOSI are given, and the reading of MISO.
Bit(op) ==
    LET If(b, s) == IF b THEN s ELSE <<>> IN
    If(MODE_CPHA, <<"away">>) \o If(op # "receive", <<"mosi">>)
      \o <<IF MODE_CPHA THEN "back" ELSE "away">> \o If(op # "send", <<"read">>)
      \o If(~MODE_CPHA, <<"back">>)

BitNow == ((next - 1) \div Len(Bit(call.op))) + 1
StepNow == Bit(call.op)[((next - 1) % Len(Bit(call.op))) + 1]
Done == call.op # "none" /\ next > 8 * Len(Bit(call.op))
At(steps) == call.op # "none" /\ ~Done /\ StepNow \in steps

PinNow == IF StepNow = "mosi" THEN "mosi" ELSE "sck"
LevelNow == CASE StepNow = "mosi" -> call.txData[BitNow] = 1
              [] StepNow = "away" -> ~MODE_CPOL
              [] StepNow = "back" -> MODE_CPOL

NoCall == [op |-> "none"]

\* begin().
InitPins ==
    /\ setup \in [mode : 0 .. 3, high : BOOLEAN]
    /\ call = NoCall /\ rxData = <<>> /\ next = 1
    /\ enabled \in BOOLEAN
    /\ levels = [p \in Pins |-> CASE p = "sck" -> MODE_CPOL
                                  [] p = "mosi" -> ~MODE_CPHA
                                  [] p = "other" -> FALSE]
    /\ safe = [stage |-> "start", sreg |-> FALSE, port |-> levels]
    /\ miso = <<>> /\ got = <<>> /\ wanted = FALSE

\* With CPHA the card puts its first bit on MISO at the first edge, otherwise before it.
CallPins ==
    /\ call = NoCall
    /\ \E op \in {"receive", "send", "transfer"},
          out \in Sent, byte \in Answered :
         /\ call' = [op |-> op, txData |-> out, answer |-> byte,
                     enabled |-> enabled, mosi |-> levels["mosi"]]
         /\ miso' = IF MODE_CPHA THEN <<0>> \o byte ELSE byte
    /\ UNCHANGED <<setup, rxData, next, safe, enabled, levels, got, wanted>>

ReturnPins ==
    /\ Done
    /\ call' = NoCall
    /\ rxData' = <<>> /\ got' = <<>> /\ miso' = <<>> /\ next' = 1
    /\ UNCHANGED <<setup, safe, enabled, levels, wanted>>

\* fastDigitalRead().
ReadPin ==
    /\ At({"read"})
    /\ rxData' = Append(rxData, Head(miso))
    /\ next' = next + 1
    /\ UNCHANGED <<setup, call, safe, enabled, levels, miso, got, wanted>>

-----------------------------------------------------------------------------
(* fastBitWriteSafe(). *)

SaveSreg ==
    /\ setup.high /\ safe.stage = "start" /\ At({"away", "back", "mosi"})
    /\ enabled' = FALSE
    /\ safe' = [safe EXCEPT !.stage = "load", !.sreg = enabled]
    /\ UNCHANGED <<setup, call, rxData, next, levels, miso, got, wanted>>

LoadPort ==
    /\ safe.stage = "load"
    /\ safe' = [safe EXCEPT !.stage = "store", !.port = levels]
    /\ UNCHANGED <<setup, call, rxData, next, enabled, levels, miso, got, wanted>>

\* The card samples MOSI at one edge of SCK, and puts its next bit on MISO at the other.
Clocked(old, new) ==
    LET away == old["sck"] # new["sck"] /\ new["sck"] # MODE_CPOL
        back == old["sck"] # new["sck"] /\ new["sck"] = MODE_CPOL
        sample == IF MODE_CPHA THEN back ELSE away
        shift == IF MODE_CPHA THEN away ELSE back
    IN  /\ got' = IF sample THEN Append(got, IF new["mosi"] THEN 1 ELSE 0) ELSE got
        /\ miso' = IF shift THEN Tail(miso) ELSE miso

StorePort ==
    /\ At({"away", "back", "mosi"})
    /\ safe.stage = (IF setup.high THEN "store" ELSE "start")
    /\ levels' = [(IF setup.high THEN safe.port ELSE levels) EXCEPT ![PinNow] = LevelNow]
    /\ Clocked(levels, levels')
    /\ IF setup.high THEN safe' = [safe EXCEPT !.stage = "restore"] /\ UNCHANGED next
                     ELSE next' = next + 1 /\ UNCHANGED safe
    /\ UNCHANGED <<setup, call, rxData, enabled, wanted>>

RestoreSreg ==
    /\ safe.stage = "restore"
    /\ enabled' = safe.sreg
    /\ safe' = [safe EXCEPT !.stage = "start"]
    /\ next' = next + 1
    /\ UNCHANGED <<setup, call, rxData, levels, miso, got, wanted>>

\* An interrupt turns its own pin.
InterruptWrites ==
    /\ enabled
    /\ wanted' = ~wanted
    /\ levels' = [levels EXCEPT !["other"] = wanted']
    /\ UNCHANGED <<setup, call, rxData, next, safe, enabled, miso, got>>

NextPins ==
    \/ CallPins \/ ReturnPins
    \/ ReadPin \/ SaveSreg \/ LoadPort \/ StorePort \/ RestoreSreg
    \/ InterruptWrites

-----------------------------------------------------------------------------
\* The byte got and the byte sent are those of the card, in every mode, MOSI keeping its
\* last level while a byte is received; SCK is at rest again, and interrupts are enabled
\* again only if they were.  A pin of the same port keeps the level an interrupt gave it,
\* in whatever step of a write the interrupt came.
PinsAreExact ==
    /\ Done =>
         /\ call.op # "send" => rxData = call.answer
         /\ got = IF call.op = "receive"
                  THEN [i \in 1 .. 8 |-> IF call.mosi THEN 1 ELSE 0]
                  ELSE call.txData
         /\ levels["sck"] = MODE_CPOL
         /\ enabled = call.enabled
    /\ levels["other"] = wanted
=============================================================================
