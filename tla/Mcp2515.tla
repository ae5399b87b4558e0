------------------------------ MODULE Mcp2515 ------------------------------
(***************************************************************************)
(* The driver MCP_CAN of the second CAN port, and the controller behind    *)
(* its SPI bus: three transmit buffers, two receive buffers with rollover, *)
(* and a configuration mode.  Each step of the driver is one or a few SPI  *)
(* transfers; the controller receives, transmits and changes its mode      *)
(* between them.                                                           *)
(***************************************************************************)
EXTENDS Integers, Sequences, FiniteSets, SequencesExt

CONSTANTS
    MaxReceived,    \* bound: messages that arrive on the bus
    MaxSent,        \* bound: messages given to sendMsgBuf()
    MaxFilters,     \* bound: calls of init_Mask() and init_Filt()
    RemoteMessages, \* those that arrive as remote frames
    PollBit,        \* messages sent whose identifier has bit 3 of SIDH set
    TimeoutValue    \* TIMEOUTVALUE

ASSUME BoundsAssumption ==
    MaxReceived \in Nat /\ MaxSent \in Nat /\ MaxFilters \in Nat
ASSUME TimeoutAssumption == TimeoutValue \in Nat /\ TimeoutValue > 1

TxBuffers == 0 .. 2
RxBuffers == 0 .. 1
Received == 1 .. MaxReceived
Given == 1 .. MaxSent
Nothing == 0
Frames == [id : {Nothing} \cup Given, data : {Nothing} \cup Given, rtr : BOOLEAN]
Blank == [id |-> Nothing, data |-> Nothing, rtr |-> FALSE]

VARIABLES
    pc, res,        \* the call under way, and what the last one returned
    begun,          \* begin() has returned CAN_OK
    m_nID, m_nDta, m_nRtr,      \* the message in the driver
    txbuf,          \* transmit buffer looked at, or chosen
    uiTimeOut,
    stat            \* receive buffer found full

VARIABLES           \* the controller
    mode, reqop,    \* its mode, and the one requested in CANCTRL
    rateSet, buffersSet,
    filter,         \* the masks and filters hold what was last asked for
    txreq, tx,      \* the transmit buffers
    rxif, rx        \* the receive buffers

VARIABLES           \* observation only
    arrived, lost, delivered,   \* messages on the bus, lost, read
    given, refused, sent,       \* messages to send, given up, on the bus
    filters                     \* counter of the bound

callVars == <<res, begun, m_nID, m_nDta, m_nRtr, txbuf, uiTimeOut, stat>>
setVars == <<mode, reqop, rateSet, buffersSet, filter>>
txVars == <<txreq, tx, sent>>
rxVars == <<rxif, rx, arrived, lost>>
vars == <<pc, callVars, setVars, txVars, rxVars, delivered, given, refused, filters>>

Init ==
    /\ pc = "idle" /\ res = "none" /\ begun = FALSE
    /\ m_nID = Nothing /\ m_nDta = Nothing /\ m_nRtr = FALSE
    /\ txbuf = 0 /\ uiTimeOut = 0 /\ stat = 0
    /\ mode = "config" /\ reqop = "config"
    /\ rateSet = FALSE /\ buffersSet = FALSE /\ filter = TRUE
    /\ txreq = [b \in TxBuffers |-> FALSE] /\ tx = [b \in TxBuffers |-> Blank]
    /\ rxif = [b \in RxBuffers |-> FALSE] /\ rx = [b \in RxBuffers |-> Nothing]
    /\ arrived = 0 /\ lost = {} /\ delivered = <<>>
    /\ given = 0 /\ refused = {} /\ sent = <<>>
    /\ filters = 0

\* A call goes on to its next step, or returns.
Step(p) == pc' = p /\ UNCHANGED <<res, txbuf, uiTimeOut, stat>>
Return(r) == pc' = "idle" /\ res' = r /\ txbuf' = 0 /\ uiTimeOut' = 0 /\ stat' = 0

-----------------------------------------------------------------------------
(* begin(): the controller is reset and set up in its configuration mode.      *)

Begin ==
    /\ pc = "idle" /\ ~begun
    /\ mode' = "config" /\ reqop' = "config"
    /\ rateSet' = FALSE /\ buffersSet' = FALSE
    /\ Step("rate")
    /\ UNCHANGED <<begun, m_nID, m_nDta, m_nRtr, filter, txVars, rxVars, delivered,
                   given, refused, filters>>

\* A rate that mcp2515_configRate() does not know ends mcp2515_init() with the
\* result of the step before, which is MCP2515_OK.
ConfigRate ==
    /\ pc = "rate"
    /\ \/ rateSet' = TRUE /\ Step("buffers") /\ UNCHANGED begun
       \/ Return("unknownRate") /\ begun' = TRUE /\ UNCHANGED rateSet
    /\ UNCHANGED <<m_nID, m_nDta, m_nRtr, mode, reqop, buffersSet, filter, txVars,
                   rxVars, delivered, given, refused, filters>>

InitCANBuffers ==
    /\ pc = "buffers"
    /\ txreq' = [b \in TxBuffers |-> FALSE] /\ tx' = [b \in TxBuffers |-> Blank]
    /\ buffersSet' = TRUE
    /\ Step("normal")
    /\ UNCHANGED <<begun, m_nID, m_nDta, m_nRtr, mode, reqop, rateSet, filter, sent,
                   rxVars, delivered, given, refused, filters>>

\* Mutant: the configuration mode is left without being asked for the normal one.
EnterNothing ==
    /\ pc = "normal"
    /\ begun' = TRUE
    /\ Return("ok")
    /\ UNCHANGED <<m_nID, m_nDta, m_nRtr, setVars, txVars, rxVars, delivered, given,
                   refused, filters>>

\* setCANCTRL_Mode(MODE_NORMAL), and the call returns: CANCTRL is read back, which
\* holds the mode that was requested.
EnterNormal ==
    /\ pc = "normal"
    /\ reqop' = "normal"
    /\ begun' = TRUE
    /\ Return("ok")
    /\ UNCHANGED <<m_nID, m_nDta, m_nRtr, mode, rateSet, buffersSet, filter, txVars,
                   rxVars, delivered, given, refused, filters>>

\* init_Mask() and init_Filt() go through the configuration mode.
AskConfig == reqop' = "config"
InitFilter ==
    /\ pc = "idle" /\ begun /\ filters < MaxFilters
    /\ filters' = filters + 1
    /\ AskConfig /\ filter' = FALSE
    /\ Step("filter")
    /\ UNCHANGED <<begun, m_nID, m_nDta, m_nRtr, mode, rateSet, buffersSet, txVars,
                   rxVars, delivered, given, refused>>

\* Masks and filters can be written in the configuration mode only; CANCTRL, which
\* setCANCTRL_Mode() reads back, tells what was requested and not the mode.  The
\* controller is in it at once, unless it has something to transmit.
WriteFilter ==
    /\ pc = "filter"
    /\ mode = reqop \/ \E b \in TxBuffers : txreq[b]
    /\ filter' = (mode = "config")
    /\ Step("normal")
    /\ UNCHANGED <<begun, m_nID, m_nDta, m_nRtr, mode, reqop, rateSet, buffersSet,
                   txVars, rxVars, delivered, given, refused, filters>>

-----------------------------------------------------------------------------
(* sendMsgBuf() *)

\* setMsg() leaves m_nRtr as the message read last has left it.
SendMsg ==
    /\ pc = "idle" /\ begun /\ given < MaxSent
    /\ given' = given + 1
    /\ m_nID' = given' /\ m_nDta' = given'
    /\ uiTimeOut' = 0 /\ txbuf' = 0
    /\ pc' = "find"
    /\ UNCHANGED <<res, begun, m_nRtr, stat, setVars, txVars, rxVars, delivered,
                   refused, filters>>

\* getNextFreeTXBuf(), a register at a time.
MorePolls == uiTimeOut + 1 < TimeoutValue
FoundTxBuf == ~txreq[txbuf]
FindTxBuf ==
    /\ pc = "find"
    /\ IF FoundTxBuf
         THEN \* the poll that reaches the limit reports a timeout even so
              IF uiTimeOut + 1 = TimeoutValue
                THEN Return("getTxTimeout") /\ refused' = refused \cup {m_nID}
                ELSE pc' = "data" /\ uiTimeOut' = 0
                       /\ UNCHANGED <<res, txbuf, stat, refused>>
         ELSE IF txbuf < 2
                THEN txbuf' = txbuf + 1 /\ UNCHANGED <<pc, res, uiTimeOut, stat, refused>>
                ELSE IF MorePolls
                       THEN /\ uiTimeOut' = uiTimeOut + 1 /\ txbuf' = 0
                            /\ UNCHANGED <<pc, res, stat, refused>>
                       ELSE Return("getTxTimeout") /\ refused' = refused \cup {m_nID}
    /\ UNCHANGED <<begun, m_nID, m_nDta, m_nRtr, setVars, txVars, rxVars, delivered,
                   given, filters>>

WriteTx(p, frame, next) ==
    /\ pc = p
    /\ tx' = [tx EXCEPT ![txbuf] = frame]
    /\ Step(next)
    /\ UNCHANGED <<begun, m_nID, m_nDta, m_nRtr, setVars, txreq, sent, rxVars,
                   delivered, given, refused, filters>>

\* mcp2515_write_canMsg(): data, length with the remote bit, identifier.
WriteData == WriteTx("data", [tx[txbuf] EXCEPT !.data = m_nDta], "dlc")
WriteDlc == WriteTx("dlc", [tx[txbuf] EXCEPT !.rtr = m_nRtr], "id")
WriteId == WriteTx("id", [tx[txbuf] EXCEPT !.id = m_nID], "request")

StartTransmit ==
    /\ pc = "request"
    /\ txreq' = [txreq EXCEPT ![txbuf] = TRUE]
    /\ Step("poll")
    /\ UNCHANGED <<begun, m_nID, m_nDta, m_nRtr, setVars, tx, sent, rxVars, delivered,
                   given, refused, filters>>

\* The register polled for the end of the transmission is SIDH of the buffer, not
\* its control register: it is the identifier that decides.
Polled == tx[txbuf].id \in PollBit

PollSent ==
    /\ pc = "poll"
    /\ IF Polled /\ MorePolls
         THEN uiTimeOut' = uiTimeOut + 1 /\ UNCHANGED <<pc, res, txbuf, stat>>
         ELSE Return(IF uiTimeOut + 1 = TimeoutValue THEN "sendTimeout" ELSE "ok")
    /\ UNCHANGED <<begun, m_nID, m_nDta, m_nRtr, setVars, txVars, rxVars, delivered,
                   given, refused, filters>>

-----------------------------------------------------------------------------
(* readMsg() *)

\* mcp2515_readStatus(): buffer 0 is read first.
FirstFull == IF rxif[0] THEN 0 ELSE 1

ReadStatus ==
    /\ pc = "idle" /\ begun
    /\ \E b \in RxBuffers : rxif[b]
    /\ stat' = FirstFull
    /\ pc' = "read"
    /\ UNCHANGED <<res, begun, m_nID, m_nDta, m_nRtr, txbuf, uiTimeOut, setVars, txVars,
                   rxVars, delivered, given, refused, filters>>

ReadIdClearing ==
    /\ pc = "read"
    /\ m_nID' = rx[stat] /\ rxif' = [rxif EXCEPT ![stat] = FALSE]
    /\ Step("readData")
    /\ UNCHANGED <<begun, m_nDta, m_nRtr, setVars, txVars, rx, arrived, lost, delivered,
                   given, refused, filters>>

ReadId ==
    /\ pc = "read"
    /\ m_nID' = rx[stat]
    /\ Step("readData")
    /\ UNCHANGED <<begun, m_nDta, m_nRtr, setVars, txVars, rxVars, delivered, given,
                   refused, filters>>

ReadData ==
    /\ pc = "readData"
    /\ m_nDta' = rx[stat] /\ m_nRtr' = (rx[stat] \in RemoteMessages)
    /\ Step("clear")
    /\ UNCHANGED <<begun, m_nID, setVars, txVars, rxVars, delivered, given, refused,
                   filters>>

\* Only the flag of the buffer that was read is cleared.
ClearFlag == rxif' = [rxif EXCEPT ![stat] = FALSE]
ReadDone ==
    /\ pc = "clear"
    /\ ClearFlag
    /\ delivered' = Append(delivered, <<m_nID, m_nDta>>)
    /\ Return("ok")
    /\ UNCHANGED <<begun, m_nID, m_nDta, m_nRtr, setVars, txVars, rx, arrived, lost,
                   given, refused, filters>>

-----------------------------------------------------------------------------
(* The controller *)

\* With equal priorities the buffer with the highest number is sent first.
Transmit ==
    /\ mode = "normal"
    /\ \E b \in TxBuffers :
         /\ txreq[b] /\ \A c \in TxBuffers : txreq[c] => c <= b
         /\ sent' = Append(sent, tx[b])
         /\ txreq' = [txreq EXCEPT ![b] = FALSE]
    /\ UNCHANGED <<pc, callVars, setVars, tx, rxVars, delivered, given, refused, filters>>

\* The configuration mode is entered when nothing is left to transmit.
ChangeMode ==
    /\ mode # reqop
    /\ reqop = "config" => \A b \in TxBuffers : ~txreq[b]
    /\ mode' = reqop
    /\ UNCHANGED <<pc, callVars, reqop, rateSet, buffersSet, filter, txVars, rxVars,
                   delivered, given, refused, filters>>

MessageArrives ==
    /\ mode = "normal" /\ arrived < MaxReceived
    /\ arrived' = arrived + 1
    /\ LET free == {b \in RxBuffers : ~rxif[b]} IN
         IF free = {}
           THEN lost' = lost \cup {arrived'} /\ UNCHANGED <<rxif, rx>>
           ELSE LET b == CHOOSE c \in free : \A d \in free : c <= d IN
                  /\ rx' = [rx EXCEPT ![b] = arrived'] /\ rxif' = [rxif EXCEPT ![b] = TRUE]
                  /\ UNCHANGED lost
    /\ UNCHANGED <<pc, callVars, setVars, txVars, delivered, given, refused, filters>>

Call == Begin \/ InitFilter \/ SendMsg \/ ReadStatus
Driver ==
    \/ ConfigRate \/ InitCANBuffers \/ EnterNormal \/ WriteFilter
    \/ FindTxBuf \/ WriteData \/ WriteDlc \/ WriteId \/ StartTransmit \/ PollSent
    \/ ReadId \/ ReadData \/ ReadDone

Next == Call \/ Driver \/ Transmit \/ ChangeMode \/ MessageArrives

\* The sketch polls for messages in its loop; the bus lets everybody transmit in
\* the end.
Spec == Init /\ [][Next]_vars
FairSpec ==
    /\ Spec
    /\ WF_vars(Driver) /\ WF_vars(ReadStatus)
    /\ WF_vars(Transmit) /\ WF_vars(ChangeMode)

-----------------------------------------------------------------------------
(* Properties *)

Calling == {"rate", "buffers", "normal", "filter", "find", "data", "dlc", "id",
            "request", "poll", "read", "readData", "clear"}
TypeOK ==
    /\ pc \in Calling \cup {"idle"}
    /\ res \in {"none", "ok", "unknownRate", "getTxTimeout", "sendTimeout"}
    /\ begun \in BOOLEAN
    /\ m_nID \in Received \cup Given \cup {Nothing}
    /\ m_nDta \in Received \cup Given \cup {Nothing} /\ m_nRtr \in BOOLEAN
    /\ txbuf \in TxBuffers /\ uiTimeOut \in 0 .. TimeoutValue - 1 /\ stat \in RxBuffers
    /\ mode \in {"config", "normal"} /\ reqop \in {"config", "normal"}
    /\ rateSet \in BOOLEAN /\ buffersSet \in BOOLEAN /\ filter \in BOOLEAN
    /\ txreq \in [TxBuffers -> BOOLEAN] /\ tx \in [TxBuffers -> Frames]
    /\ rxif \in [RxBuffers -> BOOLEAN] /\ rx \in [RxBuffers -> Received \cup {Nothing}]
    /\ lost \subseteq Received /\ refused \subseteq Given
    /\ delivered \in Seq((Received \cup Given) \X Received)
    /\ sent \in Seq(Frames)

\* A message the driver hands over is one that was on the bus, with the data that
\* came with its identifier although new ones arrive between the transfers that
\* read it, and it is handed over once (readMsg clears the flag last).
ReadWholeAndOnce ==
    /\ \A k \in DOMAIN delivered : delivered[k][1] = delivered[k][2]
    /\ \A j, k \in DOMAIN delivered : delivered[j] = delivered[k] => j = k

\* A message that arrived is lost to full buffers, has been read, or waits in a
\* buffer whose flag is set: the flag readMsg clears is never that of a message
\* that arrived meanwhile.
NoMessageVanishes ==
    \A i \in 1 .. arrived :
        \/ i \in lost
        \/ \E k \in DOMAIN delivered : delivered[k][2] = i
        \/ \E b \in RxBuffers : rxif[b] /\ rx[b] = i

\* readMsg does not keep the order of the bus: but it is always the message of
\* buffer 1, where the second of two goes, that newer ones overtake.
OnlyBuffer1IsOvertaken ==
    \A k \in DOMAIN delivered : rxif[0] => delivered[k][2] < rx[0]

\* Nothing is read twice, mixed with another message, or overlooked, and only the
\* messages of buffer 1 out of their order.
ReadsAreExact == ReadWholeAndOnce /\ NoMessageVanishes /\ OnlyBuffer1IsOvertaken

\* What sendMsg puts on the bus is a message it was given, its identifier with its
\* data, and once: it never writes into a buffer that waits to be sent, and a
\* message it gave up for want of a buffer is not sent later.
SentWholeAndOnce ==
    /\ \A k \in DOMAIN sent :
         sent[k].id = sent[k].data /\ sent[k].id \in (1 .. given) \ refused
    /\ \A j, k \in DOMAIN sent : sent[j].id = sent[k].id => j = k

\* As long as nothing is sent, masks and filters are those asked for last once
\* init_Mask() or init_Filt() has returned, although it never looks at the mode.
FilterIsSet == pc = "idle" /\ given = 0 => filter

\* What the sketch asks for is what the chip does: with its messages and its filters.
SendsAreExact == TypeOK /\ SentWholeAndOnce /\ FilterIsSet

\* Whatever the controller does between two transfers of a call, what the program
\* reads and sends is what is on the bus, once, identifier with data.
MessagesAreExact == ReadsAreExact /\ SendsAreExact

\* Once the rate has been set, a message that sendMsg has put in a buffer is on the
\* bus in the end, through whatever changes of mode the filters need.
AcceptedAreSent == rateSet ~> \A b \in TxBuffers : ~txreq[b]

\* When the traffic ends every message has been read or was lost to full buffers:
\* the one in buffer 1 waits as long as there is traffic, not longer.
ArrivedAreRead ==
    <>[](\A i \in 1 .. arrived :
            i \in lost \/ \E k \in DOMAIN delivered : delivered[k][2] = i)

\* Nothing that was accepted, on either side, is left lying.
TrafficIsServed == AcceptedAreSent /\ ArrivedAreRead
=============================================================================
