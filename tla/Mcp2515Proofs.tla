--------------------------- MODULE Mcp2515Proofs ---------------------------
(***************************************************************************)
(* Whatever the controller does between the transfers of a call, what the  *)
(* program reads and sends is what is on the bus, identifier with data,    *)
(* and once.                                                               *)
(***************************************************************************)
EXTENDS Mcp2515, SequenceTheorems, TLAPS

Reading == {"read", "readData", "clear"}
Filling == {"find", "data", "dlc", "id", "request"}

CountersInv == arrived \in 0 .. MaxReceived /\ given \in 0 .. MaxSent /\ filters \in Nat

\* A message is in one place: lost, in a buffer whose flag is set, or delivered.
PlaceInv ==
    /\ lost \subseteq 1 .. arrived
    /\ \A b \in RxBuffers : rxif[b] => rx[b] \in 1 .. arrived
    /\ rxif[0] /\ rxif[1] => rx[0] # rx[1]
    /\ \A k \in DOMAIN delivered :
         /\ delivered[k][2] \in 1 .. arrived /\ delivered[k][1] = delivered[k][2]
         /\ \A b \in RxBuffers : rxif[b] => delivered[k][2] # rx[b]
    /\ \A j, k \in DOMAIN delivered : delivered[j][2] = delivered[k][2] => j = k

\* The buffer that is being read keeps its message, and what arrives in the other one is
\* newer if that is the one read first.
ReadingInv ==
    pc \in Reading =>
        /\ rxif[stat]
        /\ pc # "read" => m_nID = rx[stat]
        /\ pc = "clear" => m_nDta = rx[stat]
        /\ stat = 1 /\ rxif[0] => rx[1] < rx[0]

\* What waits in a transmit buffer is whole, and is neither on the bus nor in another one.
TxInv ==
    /\ \A b \in TxBuffers : txreq[b] =>
         /\ tx[b].id = tx[b].data /\ tx[b].id \in (1 .. given) \ refused
         /\ \A k \in DOMAIN sent : sent[k].id # tx[b].id
         /\ \A c \in TxBuffers \ {b} : txreq[c] => tx[c].id # tx[b].id
    /\ refused \subseteq 1 .. given

\* The message that is being sent is in the driver, then piece by piece in a buffer that
\* does not wait to be sent.
FillingInv ==
    pc \in Filling =>
        /\ given > 0 /\ m_nID = given /\ m_nDta = given /\ given \notin refused
        /\ \A b \in TxBuffers : txreq[b] => tx[b].id # given
        /\ \A k \in DOMAIN sent : sent[k].id # given
        /\ pc # "find" => ~txreq[txbuf]
        /\ pc \in {"dlc", "id", "request"} => tx[txbuf].data = given
        /\ pc = "request" => tx[txbuf].id = given

\* Before the first message nothing delays the configuration mode.
FilterInv ==
    /\ pc = "filter" => reqop = "config"
    /\ pc # "filter" /\ given = 0 => filter

McpInv ==
    /\ MessagesAreExact
    /\ CountersInv /\ PlaceInv /\ ReadingInv /\ TxInv /\ FillingInv /\ FilterInv

\* The type invariant in four parts: the call, the setup, and the two directions.
CallType ==
    /\ pc \in Calling \cup {"idle"}
    /\ res \in {"none", "ok", "unknownRate", "getTxTimeout", "sendTimeout"}
    /\ begun \in BOOLEAN
SetupType ==
    /\ mode \in {"config", "normal"} /\ reqop \in {"config", "normal"}
    /\ rateSet \in BOOLEAN /\ buffersSet \in BOOLEAN /\ filter \in BOOLEAN
MessageType ==
    /\ m_nID \in Received \cup Given \cup {Nothing}
    /\ m_nDta \in Received \cup Given \cup {Nothing} /\ m_nRtr \in BOOLEAN
IndexType ==
    txbuf \in TxBuffers /\ uiTimeOut \in 0 .. TimeoutValue - 1 /\ stat \in RxBuffers
TxType ==
    /\ txreq \in [TxBuffers -> BOOLEAN] /\ tx \in [TxBuffers -> Frames]
    /\ refused \subseteq Given /\ sent \in Seq(Frames)
RxType ==
    /\ rxif \in [RxBuffers -> BOOLEAN] /\ rx \in [RxBuffers -> Received \cup {Nothing}]
    /\ lost \subseteq Received /\ delivered \in Seq((Received \cup Given) \X Received)

-----------------------------------------------------------------------------
(* What a step changes.                                                        *)

\* The type invariant is the conjunction of its parts.
LEMMA TypeParts ==
    TypeOK <=> CallType /\ SetupType /\ MessageType /\ IndexType /\ TxType /\ RxType
BY DEF TypeOK, CallType, SetupType, MessageType, IndexType, TxType, RxType

\* Only the end of a read and a message on the bus change the side that receives.
LEMMA WhatReceives ==
    [Next]_vars => ReadDone \/ MessageArrives \/ UNCHANGED <<rxVars, delivered>>
BY Zenon DEF Next, Call, Driver, vars, rxVars, Begin, InitFilter, SendMsg, ReadStatus,
    ConfigRate, InitCANBuffers, EnterNormal, WriteFilter, FindTxBuf, WriteData, WriteDlc,
    WriteId, WriteTx, StartTransmit, PollSent, ReadId, ReadData, Transmit, ChangeMode

\* These steps change the side that sends.
LEMMA WhatSends ==
    [Next]_vars =>
        \/ InitCANBuffers \/ SendMsg \/ FindTxBuf \/ WriteData \/ WriteDlc \/ WriteId
        \/ StartTransmit \/ Transmit \/ UNCHANGED <<txVars, given, refused>>
BY Zenon DEF Next, Call, Driver, vars, Begin, InitFilter, ReadStatus, ConfigRate,
    EnterNormal, WriteFilter, PollSent, ReadId, ReadData, ReadDone, ChangeMode,
    MessageArrives

\* These lead into a read or go on with it, and leave the others out of it.
LEMMA WhatReads ==
    [Next]_vars =>
        \/ ReadStatus \/ ReadId \/ ReadData \/ ReadDone \/ MessageArrives
        \/ pc' \notin Reading
        \/ UNCHANGED <<pc, stat, m_nID, m_nDta, rxif, rx>>
<1> USE DEF Reading, Step, Return
<1>1. Begin \/ ConfigRate \/ InitCANBuffers \/ EnterNormal => pc' \notin Reading
  BY DEF Begin, ConfigRate, InitCANBuffers, EnterNormal
<1>2. InitFilter \/ WriteFilter \/ SendMsg \/ FindTxBuf => pc' \notin Reading
  BY DEF InitFilter, WriteFilter, SendMsg, FindTxBuf
<1>3. WriteData \/ WriteDlc \/ WriteId \/ StartTransmit => pc' \notin Reading
  BY DEF WriteData, WriteDlc, WriteId, WriteTx, StartTransmit
<1>4. PollSent => pc' \notin Reading
  BY DEF PollSent
<1>5. Transmit \/ ChangeMode \/ UNCHANGED vars =>
        UNCHANGED <<pc, stat, m_nID, m_nDta, rxif, rx>>
  BY Zenon DEF Transmit, ChangeMode, vars, callVars, rxVars
<1> QED
  BY <1>1, <1>2, <1>3, <1>4, <1>5, Zenon DEF Next, Call, Driver

\* These lead into the sending of a message or go on with it.
LEMMA WhatFills ==
    [Next]_vars =>
        \/ SendMsg \/ FindTxBuf \/ WriteData \/ WriteDlc \/ WriteId \/ StartTransmit
        \/ Transmit
        \/ pc' \notin Filling
        \/ UNCHANGED <<pc, txbuf, m_nID, m_nDta, txVars, given, refused>>
<1> USE DEF Filling, Step, Return
<1>1. Begin \/ ConfigRate \/ InitCANBuffers \/ EnterNormal => pc' \notin Filling
  BY DEF Begin, ConfigRate, InitCANBuffers, EnterNormal
<1>2. InitFilter \/ WriteFilter \/ PollSent => pc' \notin Filling \/ UNCHANGED <<pc, txbuf, m_nID, m_nDta, txVars, given, refused>>
  BY DEF InitFilter, WriteFilter, PollSent
<1>3. ReadStatus \/ ReadId \/ ReadData \/ ReadDone => pc' \notin Filling
  BY DEF ReadStatus, ReadId, ReadData, ReadDone
<1>4. ChangeMode \/ MessageArrives \/ UNCHANGED vars =>
        UNCHANGED <<pc, txbuf, m_nID, m_nDta, txVars, given, refused>>
  BY Zenon DEF ChangeMode, MessageArrives, vars, callVars
<1> QED
  BY <1>1, <1>2, <1>3, <1>4, Zenon DEF Next, Call, Driver

\* The message goes to the lowest buffer that is free.
LEMMA LowestFree ==
    ASSUME RxType, {b \in RxBuffers : ~rxif[b]} # {}
    PROVE  LET free == {b \in RxBuffers : ~rxif[b]}
               b == CHOOSE c \in free : \A d \in free : c <= d
           IN  b \in RxBuffers /\ ~rxif[b] /\ (b = 1 => rxif[0])
<1> DEFINE free == {b \in RxBuffers : ~rxif[b]}
<1>1. \E c \in free : \A d \in free : c <= d
  <2>1. CASE 0 \in free
    BY <2>1 DEF RxBuffers
  <2>2. CASE 0 \notin free
    BY <2>2 DEF RxBuffers
  <2> QED BY <2>1, <2>2
<1> DEFINE b == CHOOSE c \in free : \A d \in free : c <= d
<1>2. b \in free /\ \A d \in free : b <= d
  BY <1>1
<1> HIDE DEF b
<1>3. b \in RxBuffers /\ ~rxif[b] /\ (b = 1 => rxif[0])
  BY <1>2 DEF RxBuffers
<1> QED BY <1>3 DEF b

-----------------------------------------------------------------------------
(* The invariant holds initially.                                              *)

LEMMA McpInvInit == Init => McpInv
<1> SUFFICES ASSUME Init PROVE McpInv
  OBVIOUS
<1> USE BoundsAssumption, TimeoutAssumption
<1>1. CallType
  BY DEF CallType, Init
<1>2. SetupType
  BY DEF SetupType, Init
<1>3. MessageType /\ IndexType
  BY DEF MessageType, IndexType, Init, TxBuffers, RxBuffers, Nothing
<1>4. TxType
  BY DEF TxType, Init, Frames, Blank, Nothing
<1>5. RxType
  BY DEF RxType, Init, Nothing
<1>6. CountersInv
  BY DEF CountersInv, Init
<1>7. PlaceInv /\ ReadsAreExact
  BY DEF PlaceInv, ReadsAreExact, ReadWholeAndOnce, NoMessageVanishes,
         OnlyBuffer1IsOvertaken, Init, RxBuffers
<1>8. ReadingInv /\ FillingInv /\ FilterInv
  BY DEF ReadingInv, FillingInv, FilterInv, Reading, Filling, Init
<1>9. TxInv /\ SentWholeAndOnce /\ FilterIsSet
  BY DEF TxInv, SentWholeAndOnce, FilterIsSet, Init, TxBuffers
<1> QED
  BY <1>1, <1>2, <1>3, <1>4, <1>5, <1>6, <1>7, <1>8, <1>9, TypeParts
  DEF McpInv, MessagesAreExact, SendsAreExact

-----------------------------------------------------------------------------
(* Types.                                                                      *)

\* Each call goes on to a step of its own, or returns with one of its results.
LEMMA CallTypeStep == CallType /\ [Next]_vars => CallType'
<1> SUFFICES ASSUME CallType, [Next]_vars PROVE CallType'
  OBVIOUS
<1> USE DEF CallType, Calling, Step, Return
<1>1. CASE Begin
  BY <1>1 DEF Begin
<1>2. CASE InitFilter
  BY <1>2 DEF InitFilter
<1>3. CASE SendMsg
  BY <1>3 DEF SendMsg
<1>4. CASE ReadStatus
  BY <1>4 DEF ReadStatus
<1>5. CASE ConfigRate
  BY <1>5 DEF ConfigRate
<1>6. CASE InitCANBuffers
  BY <1>6 DEF InitCANBuffers
<1>7. CASE EnterNormal
  BY <1>7 DEF EnterNormal
<1>8. CASE WriteFilter
  BY <1>8 DEF WriteFilter
<1>9. CASE FindTxBuf
  BY <1>9 DEF FindTxBuf
<1>10. CASE WriteData \/ WriteDlc \/ WriteId
  BY <1>10 DEF WriteData, WriteDlc, WriteId, WriteTx
<1>11. CASE StartTransmit
  BY <1>11 DEF StartTransmit
<1>12. CASE PollSent
  BY <1>12 DEF PollSent
<1>13. CASE ReadId
  BY <1>13 DEF ReadId
<1>14. CASE ReadData
  BY <1>14 DEF ReadData
<1>15. CASE ReadDone
  BY <1>15 DEF ReadDone
<1>16. CASE Transmit \/ ChangeMode \/ MessageArrives \/ UNCHANGED vars
  <2>1. UNCHANGED <<pc, res, begun>>
    BY <1>16, Zenon DEF Transmit, ChangeMode, MessageArrives, vars, callVars
  <2> QED BY <2>1
<1> QED
  BY <1>1, <1>2, <1>3, <1>4, <1>5, <1>6, <1>7, <1>8, <1>9, <1>10, <1>11, <1>12, <1>13,
     <1>14, <1>15, <1>16 DEF Next, Call, Driver

\* The modes and what has been set.
LEMMA SetupTypeStep == SetupType /\ [Next]_vars => SetupType'
<1> SUFFICES ASSUME SetupType, [Next]_vars PROVE SetupType'
  OBVIOUS
<1> USE DEF SetupType
<1>1. CASE Begin
  BY <1>1 DEF Begin
<1>2. CASE InitFilter
  BY <1>2 DEF InitFilter, AskConfig
<1>3. CASE ConfigRate
  BY <1>3 DEF ConfigRate
<1>4. CASE InitCANBuffers
  BY <1>4 DEF InitCANBuffers
<1>5. CASE EnterNormal
  BY <1>5 DEF EnterNormal
<1>6. CASE WriteFilter
  BY <1>6 DEF WriteFilter
<1>7. CASE ChangeMode
  BY <1>7 DEF ChangeMode
<1>8. CASE \/ SendMsg \/ ReadStatus \/ FindTxBuf \/ WriteData \/ WriteDlc \/ WriteId
      \/ StartTransmit \/ PollSent \/ ReadId \/ ReadData \/ ReadDone \/ Transmit
      \/ MessageArrives \/ UNCHANGED vars
  <2>1. UNCHANGED setVars
    BY <1>8, Zenon DEF SendMsg, ReadStatus, FindTxBuf, WriteData, WriteDlc, WriteId, WriteTx,
      StartTransmit, PollSent, ReadId, ReadData, ReadDone, Transmit, MessageArrives, vars
  <2> QED BY <2>1 DEF setVars
<1> QED
  BY <1>1, <1>2, <1>3, <1>4, <1>5, <1>6, <1>7, <1>8 DEF Next, Call, Driver

\* The counters stay within the bounds.
LEMMA CountersStep == CountersInv /\ [Next]_vars => CountersInv'
<1> SUFFICES ASSUME CountersInv, [Next]_vars PROVE CountersInv'
  OBVIOUS
<1> USE BoundsAssumption DEF CountersInv
<1>1. CASE MessageArrives
  BY <1>1 DEF MessageArrives
<1>2. CASE SendMsg
  BY <1>2 DEF SendMsg, rxVars
<1>3. CASE InitFilter
  BY <1>3 DEF InitFilter, rxVars
<1>4. CASE \/ Begin \/ ReadStatus \/ Driver \/ Transmit \/ ChangeMode \/ UNCHANGED vars
  <2>1. UNCHANGED <<arrived, given, filters>>
    BY <1>4, Zenon DEF Driver, Begin, ReadStatus, ConfigRate, InitCANBuffers, EnterNormal,
      WriteFilter, FindTxBuf, WriteData, WriteDlc, WriteId, WriteTx, StartTransmit,
      PollSent, ReadId, ReadData, ReadDone, Transmit, ChangeMode, vars, rxVars
  <2> QED BY <2>1
<1> QED
  BY <1>1, <1>2, <1>3, <1>4 DEF Next, Call

\* The message in the driver is one that arrived or was given.
LEMMA MessageTypeStep ==
    MessageType /\ IndexType /\ RxType /\ CountersInv /\ [Next]_vars => MessageType'
<1> SUFFICES ASSUME MessageType, IndexType, RxType, CountersInv, [Next]_vars
             PROVE  MessageType'
  OBVIOUS
<1> USE BoundsAssumption DEF MessageType, Received, Given
<1>1. CASE SendMsg
  BY <1>1 DEF SendMsg, CountersInv
<1>2. CASE ReadId
  BY <1>2 DEF ReadId, RxType, IndexType
<1>3. CASE ReadData
  BY <1>3 DEF ReadData, RxType, IndexType
<1>4. CASE \/ Begin \/ InitFilter \/ ReadStatus \/ ConfigRate \/ InitCANBuffers \/ EnterNormal
      \/ WriteFilter \/ FindTxBuf \/ WriteData \/ WriteDlc \/ WriteId \/ StartTransmit
      \/ PollSent \/ ReadDone \/ Transmit \/ ChangeMode \/ MessageArrives \/ UNCHANGED vars
  <2>1. UNCHANGED <<m_nID, m_nDta, m_nRtr>>
    BY <1>4, Zenon DEF Begin, InitFilter, ReadStatus, ConfigRate, InitCANBuffers, EnterNormal,
      WriteFilter, FindTxBuf, WriteData, WriteDlc, WriteId, WriteTx, StartTransmit,
      PollSent, ReadDone, Transmit, ChangeMode, MessageArrives, vars, callVars
  <2> QED BY <2>1
<1> QED
  BY <1>1, <1>2, <1>3, <1>4 DEF Next, Call, Driver

\* The buffers looked at are buffers, and no poll goes past the limit.
LEMMA IndexTypeStep == IndexType /\ [Next]_vars => IndexType'
<1> SUFFICES ASSUME IndexType, [Next]_vars PROVE IndexType'
  OBVIOUS
<1> USE TimeoutAssumption DEF IndexType, TxBuffers, RxBuffers
<1>1. CASE SendMsg
  BY <1>1 DEF SendMsg
<1>2. CASE ReadStatus
  BY <1>2 DEF ReadStatus, FirstFull
<1>3. CASE FindTxBuf
  BY <1>3 DEF FindTxBuf, MorePolls, Return
<1>4. CASE PollSent
  BY <1>4 DEF PollSent, MorePolls, Return
<1>5. CASE ReadDone
  BY <1>5 DEF ReadDone, Return
<1>6. CASE EnterNormal
  BY <1>6 DEF EnterNormal, Return
<1>7. CASE ConfigRate
  BY <1>7 DEF ConfigRate, Return, Step
<1>8. CASE \/ Begin \/ InitFilter \/ InitCANBuffers \/ WriteFilter \/ WriteData \/ WriteDlc
      \/ WriteId \/ StartTransmit \/ ReadId \/ ReadData \/ Transmit \/ ChangeMode
      \/ MessageArrives \/ UNCHANGED vars
  <2>1. UNCHANGED <<txbuf, uiTimeOut, stat>>
    BY <1>8, Zenon DEF Begin, InitFilter, InitCANBuffers, WriteFilter, WriteData, WriteDlc, WriteId,
      WriteTx, StartTransmit, ReadId, ReadData, Transmit, ChangeMode, MessageArrives, vars,
      callVars, Step
  <2> QED BY <2>1
<1> QED
  BY <1>1, <1>2, <1>3, <1>4, <1>5, <1>6, <1>7, <1>8 DEF Next, Call, Driver

\* What is written to a transmit buffer and what goes on the bus are frames, and what
\* is refused was given.
LEMMA TxTypeStep ==
    MessageType /\ IndexType /\ TxType /\ CountersInv /\ FillingInv /\ [Next]_vars
        => TxType'
<1> SUFFICES ASSUME MessageType, IndexType, TxType, CountersInv, FillingInv, [Next]_vars
             PROVE  TxType'
  OBVIOUS
<1>1. CASE InitCANBuffers
  <2>1. txreq' \in [TxBuffers -> BOOLEAN] /\ tx' \in [TxBuffers -> Frames]
    BY <1>1 DEF InitCANBuffers, Frames, Blank, Nothing
  <2>2. UNCHANGED <<refused, sent>>
    BY <1>1 DEF InitCANBuffers
  <2> QED BY <2>1, <2>2 DEF TxType
<1>2. CASE UNCHANGED <<txVars, refused>>
  BY <1>2 DEF TxType, txVars
<1>3. CASE SendMsg
  BY <1>3 DEF SendMsg, TxType, txVars
<1>4. CASE FindTxBuf
  <2>1. CASE UNCHANGED refused
    BY <1>4, <2>1 DEF FindTxBuf, TxType, txVars
  <2>2. CASE refused' = refused \cup {m_nID}
    <3>1. m_nID \in Given
      BY <1>4, BoundsAssumption DEF FindTxBuf, FillingInv, Filling, CountersInv, Given
    <3> QED BY <1>4, <2>2, <3>1 DEF FindTxBuf, TxType, txVars
  <2> QED BY <1>4, <2>1, <2>2 DEF FindTxBuf
<1>5. CASE WriteData \/ WriteDlc \/ WriteId
  <2>1. given \in Given /\ m_nID = given /\ m_nDta = given
    BY <1>5, BoundsAssumption
    DEF WriteData, WriteDlc, WriteId, WriteTx, FillingInv, Filling, CountersInv, Given
  <2>2. tx[txbuf] \in Frames /\ m_nRtr \in BOOLEAN
    BY DEF TxType, IndexType, MessageType
  <2>3. /\ [tx[txbuf] EXCEPT !.data = m_nDta] \in Frames
        /\ [tx[txbuf] EXCEPT !.rtr = m_nRtr] \in Frames
        /\ [tx[txbuf] EXCEPT !.id = m_nID] \in Frames
    BY <2>1, <2>2 DEF Frames
  <2>4. \E f \in Frames : tx' = [tx EXCEPT ![txbuf] = f]
    BY <1>5, <2>3 DEF WriteData, WriteDlc, WriteId, WriteTx
  <2>5. tx' \in [TxBuffers -> Frames]
    BY <2>4 DEF TxType
  <2>6. UNCHANGED <<txreq, sent, refused>>
    BY <1>5 DEF WriteData, WriteDlc, WriteId, WriteTx
  <2> QED BY <2>5, <2>6 DEF TxType
<1>6. CASE StartTransmit
  BY <1>6 DEF StartTransmit, TxType
<1>7. CASE Transmit
  <2> PICK b \in TxBuffers : sent' = Append(sent, tx[b])
                              /\ txreq' = [txreq EXCEPT ![b] = FALSE]
    BY <1>7 DEF Transmit
  <2>1. sent' \in Seq(Frames)
    BY AppendProperties DEF TxType
  <2> QED BY <1>7, <2>1 DEF Transmit, TxType
<1> QED
  BY <1>1, <1>2, <1>3, <1>4, <1>5, <1>6, <1>7, WhatSends

-----------------------------------------------------------------------------
(* Reading.                                                                    *)

\* The end of a read hands over the message of the buffer that was being read.
LEMMA WhatIsHandedOver ==
    ASSUME RxType, IndexType, CountersInv, PlaceInv, ReadingInv, ReadDone
    PROVE  /\ rxif[stat] /\ rx[stat] \in 1 .. arrived
           /\ delivered' = Append(delivered, <<rx[stat], rx[stat]>>)
           /\ delivered' \in Seq((Received \cup Given) \X Received)
           /\ Len(delivered') = Len(delivered) + 1
           /\ delivered'[Len(delivered) + 1] = <<rx[stat], rx[stat]>>
           /\ \A k \in DOMAIN delivered : delivered'[k] = delivered[k]
           /\ DOMAIN delivered' = DOMAIN delivered \cup {Len(delivered) + 1}
<1>1. rxif[stat] /\ m_nID = rx[stat] /\ m_nDta = rx[stat]
  BY DEF ReadDone, ReadingInv, Reading
<1>2. rx[stat] \in 1 .. arrived
  BY <1>1 DEF PlaceInv, IndexType
<1>3. rx[stat] \in Received
  BY <1>2, BoundsAssumption DEF CountersInv, Received
<1>4. delivered' = Append(delivered, <<rx[stat], rx[stat]>>)
  BY <1>1 DEF ReadDone
<1>5. delivered \in Seq((Received \cup Given) \X Received)
  BY DEF RxType
<1>6. <<rx[stat], rx[stat]>> \in (Received \cup Given) \X Received
  BY <1>3
<1> HIDE DEF Received, Given
<1> DEFINE S == (Received \cup Given) \X Received
<1> HIDE DEF S
<1>7. delivered' \in Seq(S) /\ Len(delivered') = Len(delivered) + 1
      /\ delivered'[Len(delivered) + 1] = <<rx[stat], rx[stat]>>
      /\ (\A k \in 1 .. Len(delivered) : delivered'[k] = delivered[k])
  BY <1>4, <1>5, <1>6, AppendProperties DEF S
<1>8. DOMAIN delivered = 1 .. Len(delivered) /\ DOMAIN delivered' = 1 .. Len(delivered')
      /\ Len(delivered) \in Nat
  BY <1>5, <1>7, LenProperties DEF S
<1> QED
  BY <1>1, <1>2, <1>4, <1>7, <1>8 DEF S

\* A message on the bus goes to a free buffer, or is lost when there is none.
LEMMA WhereItGoes ==
    ASSUME RxType, MessageArrives
    PROVE  /\ arrived' = arrived + 1 /\ UNCHANGED delivered
           /\ \/ /\ rxif[0] /\ rxif[1]
                 /\ lost' = lost \cup {arrived + 1} /\ UNCHANGED <<rxif, rx>>
              \/ \E b \in RxBuffers :
                   /\ ~rxif[b] /\ (b = 1 => rxif[0])
                   /\ rx' = [rx EXCEPT ![b] = arrived + 1]
                   /\ rxif' = [rxif EXCEPT ![b] = TRUE]
                   /\ UNCHANGED lost
<1> DEFINE free == {b \in RxBuffers : ~rxif[b]}
           b == CHOOSE c \in free : \A d \in free : c <= d
<1>1. arrived' = arrived + 1 /\ UNCHANGED delivered
  BY DEF MessageArrives
<1>2. CASE free = {}
  <2>1. rxif[0] /\ rxif[1]
    BY <1>2 DEF RxBuffers
  <2>2. lost' = lost \cup {arrived + 1} /\ UNCHANGED <<rxif, rx>>
    BY <1>2 DEF MessageArrives
  <2> QED BY <1>1, <2>1, <2>2
<1>3. CASE free # {}
  <2>1. b \in RxBuffers /\ ~rxif[b] /\ (b = 1 => rxif[0])
    BY <1>3, LowestFree
  <2>2. /\ rx' = [rx EXCEPT ![b] = arrived + 1] /\ rxif' = [rxif EXCEPT ![b] = TRUE]
        /\ UNCHANGED lost
    BY <1>3 DEF MessageArrives
  <2> HIDE DEF b
  <2> QED BY <1>1, <2>1, <2>2
<1> QED BY <1>2, <1>3

\* What arrives, is lost and is handed over are messages.
LEMMA RxTypeStep ==
    RxType /\ IndexType /\ CountersInv /\ PlaceInv /\ ReadingInv /\ [Next]_vars => RxType'
<1> SUFFICES ASSUME RxType, IndexType, CountersInv, PlaceInv, ReadingInv, [Next]_vars
             PROVE  RxType'
  OBVIOUS
<1>1. CASE UNCHANGED <<rxVars, delivered>>
  BY <1>1 DEF RxType, rxVars
<1>2. CASE ReadDone
  <2>1. delivered' \in Seq((Received \cup Given) \X Received)
    BY <1>2, WhatIsHandedOver
  <2> QED BY <1>2, <2>1 DEF ReadDone, ClearFlag, RxType, IndexType
<1>3. CASE MessageArrives
  <2>1. arrived + 1 \in Received
    BY <1>3, BoundsAssumption DEF MessageArrives, CountersInv, Received
  <2> QED BY <1>3, <2>1, WhereItGoes DEF RxType
<1> QED BY <1>1, <1>2, <1>3, WhatReceives

\* A message stays in one place: the flag that ends a read empties its buffer as the
\* message is handed over, and one that arrives takes a buffer that is empty.
LEMMA PlaceStep ==
    RxType /\ IndexType /\ CountersInv /\ PlaceInv /\ ReadingInv /\ [Next]_vars => PlaceInv'
<1> SUFFICES ASSUME RxType, IndexType, CountersInv, PlaceInv, ReadingInv, [Next]_vars
             PROVE  PlaceInv'
  OBVIOUS
<1>1. CASE UNCHANGED <<rxVars, delivered>>
  BY <1>1 DEF PlaceInv, rxVars
<1>2. CASE ReadDone
  <2>1. UNCHANGED <<arrived, lost, rx>> /\ rxif' = [rxif EXCEPT ![stat] = FALSE]
    BY <1>2 DEF ReadDone, ClearFlag
  <2>2. \A b \in RxBuffers : rxif'[b] => b # stat /\ rxif[b]
    BY <2>1 DEF RxType, IndexType
  <2>3. /\ lost' \subseteq 1 .. arrived'
        /\ \A b \in RxBuffers : rxif'[b] => rx'[b] \in 1 .. arrived'
        /\ rxif'[0] /\ rxif'[1] => rx'[0] # rx'[1]
    BY <2>1, <2>2 DEF PlaceInv, RxBuffers
  <2> DEFINE new == Len(delivered) + 1
  <2>4. /\ rxif[stat] /\ rx[stat] \in 1 .. arrived
        /\ \A k \in DOMAIN delivered : delivered'[k] = delivered[k]
        /\ delivered'[new] = <<rx[stat], rx[stat]>>
        /\ DOMAIN delivered' = DOMAIN delivered \cup {new}
    BY <1>2, WhatIsHandedOver
  <2>5. \A k \in DOMAIN delivered : delivered[k][2] # rx[stat]
    BY <2>4 DEF PlaceInv, IndexType
  <2>6. \A b \in RxBuffers : rxif'[b] => rx[b] # rx[stat]
    BY <2>2, <2>4 DEF PlaceInv, RxBuffers, IndexType
  <2> HIDE DEF new
  <2>7. ASSUME NEW k \in DOMAIN delivered'
        PROVE  /\ delivered'[k][2] \in 1 .. arrived' /\ delivered'[k][1] = delivered'[k][2]
               /\ \A b \in RxBuffers : rxif'[b] => delivered'[k][2] # rx'[b]
    <3>1. CASE k \in DOMAIN delivered
      BY <3>1, <2>1, <2>2, <2>4 DEF PlaceInv
    <3>2. CASE k = new
      BY <3>2, <2>1, <2>4, <2>6
    <3> QED BY <3>1, <3>2, <2>4
  <2>8. \A j, k \in DOMAIN delivered' : delivered'[j][2] = delivered'[k][2] => j = k
    BY <2>4, <2>5 DEF PlaceInv
  <2> QED BY <2>3, <2>7, <2>8 DEF PlaceInv
<1>3. CASE MessageArrives
  <2>1. /\ arrived' = arrived + 1 /\ arrived \in Nat
        /\ arrived + 1 \in 1 .. arrived' /\ arrived + 1 \notin 1 .. arrived
        /\ 1 .. arrived \subseteq 1 .. arrived'
    BY <1>3, WhereItGoes, BoundsAssumption DEF CountersInv
  <2>2. lost' \subseteq 1 .. arrived'
    BY <1>3, <2>1, WhereItGoes DEF PlaceInv
  <2>3. CASE UNCHANGED <<rxif, rx>>
    BY <1>3, <2>1, <2>2, <2>3, WhereItGoes DEF PlaceInv
  <2>4. CASE \E b \in RxBuffers : /\ rx' = [rx EXCEPT ![b] = arrived + 1]
                                  /\ rxif' = [rxif EXCEPT ![b] = TRUE]
    <3>1. PICK b \in RxBuffers : /\ rx' = [rx EXCEPT ![b] = arrived + 1]
                                 /\ rxif' = [rxif EXCEPT ![b] = TRUE]
      BY <2>4
    <3>2. \A c \in RxBuffers : c # b => rx'[c] = rx[c] /\ rxif'[c] = rxif[c]
      BY <3>1 DEF RxType
    <3>3. rx'[b] = arrived + 1 /\ rxif'[b]
      BY <3>1 DEF RxType
    <3>4. \A c \in RxBuffers : rxif'[c] => rx'[c] \in 1 .. arrived'
      BY <3>2, <3>3, <2>1 DEF PlaceInv
    <3>5. rxif'[0] /\ rxif'[1] => rx'[0] # rx'[1]
      BY <3>2, <3>3, <2>1 DEF PlaceInv, RxBuffers
    <3>6. ASSUME NEW k \in DOMAIN delivered, NEW c \in RxBuffers, rxif'[c]
          PROVE  delivered[k][2] # rx'[c]
      BY <3>2, <3>3, <3>6, <2>1 DEF PlaceInv
    <3>7. delivered' = delivered
      BY <1>3, WhereItGoes
    <3> QED BY <2>1, <2>2, <3>4, <3>5, <3>6, <3>7 DEF PlaceInv
  <2> QED BY <1>3, <2>3, <2>4, WhereItGoes
<1> QED BY <1>1, <1>2, <1>3, WhatReceives

\* Until its flag is cleared nothing replaces the message that is being read, and what
\* arrives while buffer 1 is read is newer than its message.
LEMMA ReadingStep ==
    RxType /\ IndexType /\ CountersInv /\ PlaceInv /\ ReadingInv /\ [Next]_vars
        => ReadingInv'
<1> SUFFICES ASSUME RxType, IndexType, CountersInv, PlaceInv, ReadingInv, [Next]_vars
             PROVE  ReadingInv'
  OBVIOUS
<1>1. CASE ReadStatus
  <2>1. pc' = "read" /\ stat' = FirstFull /\ UNCHANGED <<rxif, rx>>
    BY <1>1 DEF ReadStatus, rxVars
  <2>2. rxif[FirstFull] /\ (FirstFull = 1 => ~rxif[0])
    BY <1>1 DEF ReadStatus, FirstFull, RxBuffers
  <2> QED BY <2>1, <2>2 DEF ReadingInv
<1>2. CASE ReadId
  BY <1>2 DEF ReadId, rxVars, Step, ReadingInv, Reading
<1>3. CASE ReadData
  BY <1>3 DEF ReadData, rxVars, Step, ReadingInv, Reading
<1>4. CASE pc' \notin Reading
  BY <1>4 DEF ReadingInv
<1>5. CASE MessageArrives
  <2>1. UNCHANGED <<pc, stat, m_nID, m_nDta>>
    BY <1>5 DEF MessageArrives, callVars
  <2>2. arrived \in Nat /\ arrived' = arrived + 1
    BY <1>5, WhereItGoes, BoundsAssumption DEF CountersInv
  <2>3. SUFFICES ASSUME pc \in Reading
                 PROVE  /\ rxif'[stat] /\ rx'[stat] = rx[stat]
                        /\ stat = 1 /\ rxif'[0] => rx'[1] < rx'[0]
    BY <2>1 DEF ReadingInv
  <2>4. rxif[stat] /\ rx[stat] \in 1 .. arrived
    BY <2>3 DEF ReadingInv, PlaceInv, IndexType
  <2>5. CASE UNCHANGED <<rxif, rx>>
    BY <2>3, <2>4, <2>5 DEF ReadingInv
  <2>6. CASE \E b \in RxBuffers : /\ ~rxif[b]
                                  /\ rx' = [rx EXCEPT ![b] = arrived + 1]
                                  /\ rxif' = [rxif EXCEPT ![b] = TRUE]
    <3>1. PICK b \in RxBuffers : /\ ~rxif[b]
                                 /\ rx' = [rx EXCEPT ![b] = arrived + 1]
                                 /\ rxif' = [rxif EXCEPT ![b] = TRUE]
      BY <2>6
    <3>2. b # stat /\ rx'[b] = arrived + 1
      BY <2>4, <3>1 DEF RxType
    <3>3. \A c \in RxBuffers : c # b => rx'[c] = rx[c] /\ rxif'[c] = rxif[c]
      BY <3>1 DEF RxType
    <3>4. rxif'[stat] /\ rx'[stat] = rx[stat]
      BY <2>4, <3>2, <3>3 DEF IndexType
    <3>5. stat = 1 => b = 0
      BY <3>2 DEF RxBuffers
    <3>6. stat = 1 => rx'[1] < rx'[0]
      BY <2>2, <2>4, <3>2, <3>4, <3>5
    <3> QED BY <3>4, <3>6
  <2> QED BY <1>5, <2>5, <2>6, WhereItGoes
<1>6. CASE UNCHANGED <<pc, stat, m_nID, m_nDta, rxif, rx>>
  BY <1>6 DEF ReadingInv
<1>7. CASE ReadDone
  BY <1>7 DEF ReadDone, Return, ReadingInv, Reading
<1> QED BY <1>1, <1>2, <1>3, <1>4, <1>5, <1>6, <1>7, WhatReads

\* Every message on the bus has its place, before a step and after it.
LEMMA NoneVanishesStep ==
    RxType /\ IndexType /\ CountersInv /\ PlaceInv /\ ReadingInv /\ NoMessageVanishes
    /\ [Next]_vars => NoMessageVanishes'
<1> SUFFICES ASSUME RxType, IndexType, CountersInv, PlaceInv, ReadingInv,
                    NoMessageVanishes, [Next]_vars
             PROVE  NoMessageVanishes'
  OBVIOUS
<1>1. CASE UNCHANGED <<rxVars, delivered>>
  BY <1>1 DEF NoMessageVanishes, rxVars
<1>2. CASE ReadDone
  <2>1. UNCHANGED <<arrived, lost, rx>> /\ rxif' = [rxif EXCEPT ![stat] = FALSE]
    BY <1>2 DEF ReadDone, ClearFlag
  <2>2. SUFFICES ASSUME NEW i \in 1 .. arrived
                 PROVE  \/ i \in lost
                        \/ \E k \in DOMAIN delivered' : delivered'[k][2] = i
                        \/ \E b \in RxBuffers : rxif'[b] /\ rx[b] = i
    BY <2>1 DEF NoMessageVanishes
  <2>3. /\ \A k \in DOMAIN delivered : delivered'[k] = delivered[k]
        /\ delivered'[Len(delivered) + 1] = <<rx[stat], rx[stat]>>
        /\ DOMAIN delivered' = DOMAIN delivered \cup {Len(delivered) + 1}
    BY <1>2, WhatIsHandedOver
  <2>4. CASE \E k \in DOMAIN delivered : delivered[k][2] = i
    BY <2>3, <2>4
  <2>5. CASE \E b \in RxBuffers : rxif[b] /\ rx[b] = i
    <3>1. PICK b \in RxBuffers : rxif[b] /\ rx[b] = i
      BY <2>5
    <3>2. CASE b = stat
      <4>1. delivered'[Len(delivered) + 1][2] = i
        BY <2>3, <3>1, <3>2
      <4> QED BY <2>3, <4>1
    <3>3. CASE b # stat
      BY <2>1, <3>1, <3>3 DEF RxType
    <3> QED BY <3>2, <3>3
  <2> QED BY <2>4, <2>5 DEF NoMessageVanishes
<1>3. CASE MessageArrives
  <2>1. arrived \in Nat /\ arrived' = arrived + 1 /\ UNCHANGED delivered
    BY <1>3, WhereItGoes, BoundsAssumption DEF CountersInv
  <2>2. SUFFICES ASSUME NEW i \in 1 .. arrived'
                 PROVE  \/ i \in lost'
                        \/ \E k \in DOMAIN delivered : delivered[k][2] = i
                        \/ \E b \in RxBuffers : rxif'[b] /\ rx'[b] = i
    BY <2>1 DEF NoMessageVanishes
  <2>3. i \in 1 .. arrived \/ i = arrived + 1
    BY <2>1
  <2>4. CASE lost' = lost \cup {arrived + 1} /\ UNCHANGED <<rxif, rx>>
    BY <2>3, <2>4 DEF NoMessageVanishes
  <2>5. CASE \E b \in RxBuffers : /\ ~rxif[b]
                                  /\ rx' = [rx EXCEPT ![b] = arrived + 1]
                                  /\ rxif' = [rxif EXCEPT ![b] = TRUE]
                                  /\ UNCHANGED lost
    <3>1. PICK b \in RxBuffers : /\ ~rxif[b]
                                 /\ rx' = [rx EXCEPT ![b] = arrived + 1]
                                 /\ rxif' = [rxif EXCEPT ![b] = TRUE]
                                 /\ UNCHANGED lost
      BY <2>5
    <3>2. rxif'[b] /\ rx'[b] = arrived + 1
      BY <3>1 DEF RxType
    <3>3. \A c \in RxBuffers : rxif[c] => rx'[c] = rx[c] /\ rxif'[c]
      BY <3>1 DEF RxType
    <3> QED BY <2>3, <3>1, <3>2, <3>3 DEF NoMessageVanishes
  <2> QED BY <1>3, <2>4, <2>5, WhereItGoes
<1> QED BY <1>1, <1>2, <1>3, WhatReceives

\* What is handed over is older than what waits in buffer 0: buffer 0 is only passed over
\* while it is empty.
LEMMA OvertakenStep ==
    RxType /\ IndexType /\ CountersInv /\ PlaceInv /\ ReadingInv /\ OnlyBuffer1IsOvertaken
    /\ [Next]_vars => OnlyBuffer1IsOvertaken'
<1> SUFFICES ASSUME RxType, IndexType, CountersInv, PlaceInv, ReadingInv,
                    OnlyBuffer1IsOvertaken, [Next]_vars
             PROVE  OnlyBuffer1IsOvertaken'
  OBVIOUS
<1>1. CASE UNCHANGED <<rxVars, delivered>>
  BY <1>1 DEF OnlyBuffer1IsOvertaken, rxVars
<1>2. CASE ReadDone
  <2>1. UNCHANGED rx /\ rxif' = [rxif EXCEPT ![stat] = FALSE] /\ pc \in Reading
    BY <1>2 DEF ReadDone, ClearFlag, Reading
  <2>2. SUFFICES ASSUME rxif'[0] PROVE \A k \in DOMAIN delivered' : delivered'[k][2] < rx[0]
    BY <2>1 DEF OnlyBuffer1IsOvertaken
  <2>3. stat = 1 /\ rxif[0]
    BY <2>1, <2>2 DEF RxType, IndexType, RxBuffers
  <2>4. rx[stat] < rx[0]
    BY <2>1, <2>3 DEF ReadingInv
  <2>5. /\ \A k \in DOMAIN delivered : delivered'[k] = delivered[k]
        /\ delivered'[Len(delivered) + 1] = <<rx[stat], rx[stat]>>
        /\ DOMAIN delivered' = DOMAIN delivered \cup {Len(delivered) + 1}
    BY <1>2, WhatIsHandedOver
  <2>6. \A k \in DOMAIN delivered : delivered'[k][2] < rx[0]
    BY <2>3, <2>5 DEF OnlyBuffer1IsOvertaken
  <2>7. delivered'[Len(delivered) + 1][2] < rx[0]
    BY <2>4, <2>5
  <2> QED BY <2>5, <2>6, <2>7
<1>3. CASE MessageArrives
  <2>1. arrived \in Nat /\ UNCHANGED delivered
    BY <1>3, WhereItGoes, BoundsAssumption DEF CountersInv
  <2>2. CASE UNCHANGED <<rxif, rx>>
    BY <2>1, <2>2 DEF OnlyBuffer1IsOvertaken
  <2>3. CASE \E b \in RxBuffers : /\ rx' = [rx EXCEPT ![b] = arrived + 1]
                                  /\ rxif' = [rxif EXCEPT ![b] = TRUE]
    <3>1. PICK b \in RxBuffers : /\ rx' = [rx EXCEPT ![b] = arrived + 1]
                                 /\ rxif' = [rxif EXCEPT ![b] = TRUE]
      BY <2>3
    <3>2. CASE b = 0
      <4>1. rx'[0] = arrived + 1
        BY <3>1, <3>2 DEF RxType, RxBuffers
      <4> QED BY <2>1, <4>1 DEF OnlyBuffer1IsOvertaken, PlaceInv
    <3>3. CASE b = 1
      <4>1. rx'[0] = rx[0] /\ rxif'[0] = rxif[0]
        BY <3>1, <3>3 DEF RxType, RxBuffers
      <4> QED BY <2>1, <4>1 DEF OnlyBuffer1IsOvertaken
    <3> QED BY <3>2, <3>3 DEF RxBuffers
  <2> QED BY <1>3, <2>2, <2>3, WhereItGoes
<1> QED BY <1>1, <1>2, <1>3, WhatReceives

-----------------------------------------------------------------------------
(* Sending.                                                                    *)

\* A frame on the bus is the one of its buffer, and its buffer waits no longer.
LEMMA WhatIsSent ==
    ASSUME TxType, Transmit
    PROVE  \E b \in TxBuffers :
             /\ txreq[b] /\ sent' = Append(sent, tx[b])
             /\ txreq' = [txreq EXCEPT ![b] = FALSE]
             /\ sent'[Len(sent) + 1] = tx[b]
             /\ \A k \in DOMAIN sent : sent'[k] = sent[k]
             /\ DOMAIN sent' = DOMAIN sent \cup {Len(sent) + 1}
<1>1. PICK b \in TxBuffers : /\ txreq[b] /\ sent' = Append(sent, tx[b])
                             /\ txreq' = [txreq EXCEPT ![b] = FALSE]
  BY DEF Transmit
<1>2. tx[b] \in Frames /\ sent \in Seq(Frames)
  BY DEF TxType
<1>3. /\ sent' \in Seq(Frames) /\ Len(sent') = Len(sent) + 1
      /\ sent'[Len(sent) + 1] = tx[b]
      /\ \A k \in 1 .. Len(sent) : sent'[k] = sent[k]
  BY <1>1, <1>2, AppendProperties
<1>4. DOMAIN sent = 1 .. Len(sent) /\ DOMAIN sent' = 1 .. Len(sent') /\ Len(sent) \in Nat
  BY <1>2, <1>3, LenProperties
<1>5. /\ \A k \in DOMAIN sent : sent'[k] = sent[k]
      /\ DOMAIN sent' = DOMAIN sent \cup {Len(sent) + 1}
  BY <1>3, <1>4
<1> QED BY <1>1, <1>3, <1>5, Zenon

\* A buffer is asked for only when it holds the whole message, which is then nowhere else,
\* and the message refused is the one that reached no buffer.
LEMMA TxStep ==
    MessageType /\ IndexType /\ TxType /\ CountersInv /\ TxInv /\ FillingInv /\ [Next]_vars
        => TxInv'
<1> SUFFICES ASSUME MessageType, IndexType, TxType, CountersInv, TxInv, FillingInv,
                    [Next]_vars
             PROVE  TxInv'
  OBVIOUS
<1>1. CASE InitCANBuffers
  BY <1>1 DEF InitCANBuffers, TxInv
<1>2. CASE UNCHANGED <<txVars, given, refused>>
  BY <1>2 DEF TxInv, txVars
<1>3. CASE SendMsg
  <2>1. UNCHANGED <<txreq, tx, sent, refused>> /\ given' = given + 1 /\ given \in Nat
    BY <1>3, BoundsAssumption DEF SendMsg, txVars, CountersInv
  <2>2. 1 .. given \subseteq 1 .. given'
    BY <2>1
  <2> QED BY <2>1, <2>2 DEF TxInv
<1>4. CASE FindTxBuf
  <2>1. UNCHANGED <<txreq, tx, sent, given>>
    BY <1>4 DEF FindTxBuf, txVars
  <2>2. CASE UNCHANGED refused
    BY <2>1, <2>2 DEF TxInv
  <2>3. CASE refused' = refused \cup {m_nID}
    <3>1. m_nID = given /\ given > 0 /\ \A b \in TxBuffers : txreq[b] => tx[b].id # given
      BY <1>4 DEF FindTxBuf, FillingInv, Filling
    <3>2. given \in 1 .. given
      BY <3>1, BoundsAssumption DEF CountersInv
    <3> QED BY <2>1, <2>3, <3>1, <3>2 DEF TxInv
  <2> QED BY <1>4, <2>2, <2>3 DEF FindTxBuf
<1>5. CASE WriteData \/ WriteDlc \/ WriteId
  <2>1. /\ UNCHANGED <<txreq, sent, given, refused>> /\ ~txreq[txbuf]
        /\ \E f : tx' = [tx EXCEPT ![txbuf] = f]
    BY <1>5 DEF WriteData, WriteDlc, WriteId, WriteTx, FillingInv, Filling
  <2>2. \A b \in TxBuffers : txreq[b] => tx'[b] = tx[b]
    BY <2>1 DEF TxType
  <2> QED BY <2>1, <2>2 DEF TxInv
<1>6. CASE StartTransmit
  <2>1. /\ UNCHANGED <<tx, sent, given, refused>>
        /\ txreq' = [txreq EXCEPT ![txbuf] = TRUE]
    BY <1>6 DEF StartTransmit
  <2>2. /\ tx[txbuf].id = given /\ tx[txbuf].data = given
        /\ given > 0 /\ given \notin refused
        /\ \A k \in DOMAIN sent : sent[k].id # given
        /\ \A b \in TxBuffers : txreq[b] => tx[b].id # given
    BY <1>6 DEF StartTransmit, FillingInv, Filling
  <2>3. given \in (1 .. given) \ refused
    BY <2>2, BoundsAssumption DEF CountersInv
  <2>4. \A b \in TxBuffers : b # txbuf => txreq'[b] = txreq[b]
    BY <2>1 DEF TxType
  <2>5. ASSUME NEW b \in TxBuffers, txreq'[b]
        PROVE  /\ tx[b].id = tx[b].data /\ tx[b].id \in (1 .. given) \ refused
               /\ \A k \in DOMAIN sent : sent[k].id # tx[b].id
               /\ \A c \in TxBuffers \ {b} : txreq'[c] => tx[c].id # tx[b].id
    <3>1. CASE b = txbuf
      BY <3>1, <2>2, <2>3, <2>4
    <3>2. CASE b # txbuf
      BY <3>2, <2>2, <2>4, <2>5 DEF TxInv
    <3> QED BY <3>1, <3>2
  <2> QED BY <2>1, <2>5 DEF TxInv
<1>7. CASE Transmit
  <2>1. UNCHANGED <<tx, given, refused>>
    BY <1>7 DEF Transmit
  <2>2. PICK b \in TxBuffers :
             /\ txreq[b] /\ txreq' = [txreq EXCEPT ![b] = FALSE]
             /\ sent'[Len(sent) + 1] = tx[b]
             /\ \A k \in DOMAIN sent : sent'[k] = sent[k]
             /\ DOMAIN sent' = DOMAIN sent \cup {Len(sent) + 1}
    BY <1>7, WhatIsSent
  <2>3. \A c \in TxBuffers : txreq'[c] => c # b /\ txreq[c]
    BY <2>2 DEF TxType
  <2>4. ASSUME NEW c \in TxBuffers, txreq'[c]
        PROVE  \A k \in DOMAIN sent' : sent'[k].id # tx[c].id
    <3>1. tx[c].id # tx[b].id /\ \A k \in DOMAIN sent : sent[k].id # tx[c].id
      BY <2>2, <2>3, <2>4 DEF TxInv
    <3> QED BY <2>2, <3>1
  <2> QED BY <2>1, <2>3, <2>4 DEF TxInv
<1> QED
  BY <1>1, <1>2, <1>3, <1>4, <1>5, <1>6, <1>7, WhatSends

\* The message under way reaches, piece by piece, a buffer nothing else uses.
LEMMA FillingStep ==
    MessageType /\ IndexType /\ TxType /\ CountersInv /\ TxInv /\ FillingInv
    /\ SentWholeAndOnce /\ [Next]_vars => FillingInv'
<1> SUFFICES ASSUME MessageType, IndexType, TxType, CountersInv, TxInv, FillingInv,
                    SentWholeAndOnce, [Next]_vars
             PROVE  FillingInv'
  OBVIOUS
<1>1. CASE SendMsg
  <2>1. /\ pc' = "find" /\ given' = given + 1 /\ m_nID' = given' /\ m_nDta' = given'
        /\ UNCHANGED <<txreq, tx, sent, refused>>
    BY <1>1 DEF SendMsg, txVars
  <2>2. given \in Nat /\ given + 1 \notin 1 .. given
    BY BoundsAssumption DEF CountersInv
  <2>3. /\ given' \notin refused
        /\ \A b \in TxBuffers : txreq[b] => tx[b].id # given'
        /\ \A k \in DOMAIN sent : sent[k].id # given'
    BY <2>1, <2>2 DEF TxInv, SentWholeAndOnce
  <2> QED BY <2>1, <2>2, <2>3 DEF FillingInv
<1>2. CASE FindTxBuf
  <2>1. UNCHANGED <<m_nID, m_nDta, txreq, tx, sent, given>> /\ pc \in Filling
    BY <1>2 DEF FindTxBuf, txVars, Filling
  <2>2. pc' \in Filling =>
           /\ UNCHANGED refused
           /\ pc' = "find" \/ (pc' = "data" /\ ~txreq[txbuf] /\ txbuf' = txbuf)
    BY <1>2 DEF FindTxBuf, FoundTxBuf, Return, Filling
  <2> QED BY <2>1, <2>2 DEF FillingInv
<1>3. CASE WriteData
  <2>1. /\ pc = "data" /\ pc' = "dlc"
        /\ UNCHANGED <<txbuf, m_nID, m_nDta, txreq, sent, given, refused>>
        /\ tx' = [tx EXCEPT ![txbuf] = [tx[txbuf] EXCEPT !.data = m_nDta]]
    BY <1>3 DEF WriteData, WriteTx, Step
  <2>2. /\ ~txreq[txbuf] /\ m_nDta = given /\ tx[txbuf] \in Frames
        /\ \A b \in TxBuffers : b # txbuf => tx'[b] = tx[b]
    BY <2>1 DEF FillingInv, Filling, TxType, IndexType
  <2>3. tx'[txbuf].data = given
    BY <2>1, <2>2 DEF TxType, IndexType, Frames
  <2> QED BY <2>1, <2>2, <2>3 DEF FillingInv, Filling
<1>4. CASE WriteDlc
  <2>1. /\ pc = "dlc" /\ pc' = "id"
        /\ UNCHANGED <<txbuf, m_nID, m_nDta, txreq, sent, given, refused>>
        /\ tx' = [tx EXCEPT ![txbuf] = [tx[txbuf] EXCEPT !.rtr = m_nRtr]]
    BY <1>4 DEF WriteDlc, WriteTx, Step
  <2>2. /\ ~txreq[txbuf] /\ tx[txbuf].data = given /\ tx[txbuf] \in Frames
        /\ \A b \in TxBuffers : b # txbuf => tx'[b] = tx[b]
    BY <2>1 DEF FillingInv, Filling, TxType, IndexType
  <2>3. tx'[txbuf].data = given
    BY <2>1, <2>2 DEF TxType, IndexType, Frames
  <2> QED BY <2>1, <2>2, <2>3 DEF FillingInv, Filling
<1>5. CASE WriteId
  <2>1. /\ pc = "id" /\ pc' = "request"
        /\ UNCHANGED <<txbuf, m_nID, m_nDta, txreq, sent, given, refused>>
        /\ tx' = [tx EXCEPT ![txbuf] = [tx[txbuf] EXCEPT !.id = m_nID]]
    BY <1>5 DEF WriteId, WriteTx, Step
  <2>2. /\ ~txreq[txbuf] /\ m_nID = given /\ tx[txbuf].data = given
        /\ tx[txbuf] \in Frames
        /\ \A b \in TxBuffers : b # txbuf => tx'[b] = tx[b]
    BY <2>1 DEF FillingInv, Filling, TxType, IndexType
  <2>3. tx'[txbuf].data = given /\ tx'[txbuf].id = given
    BY <2>1, <2>2 DEF TxType, IndexType, Frames
  <2> QED BY <2>1, <2>2, <2>3 DEF FillingInv, Filling
<1>6. CASE StartTransmit
  BY <1>6 DEF StartTransmit, Step, FillingInv, Filling
<1>7. CASE Transmit
  <2>1. UNCHANGED <<pc, txbuf, m_nID, m_nDta, tx, given, refused>>
    BY <1>7 DEF Transmit, callVars
  <2>2. PICK b \in TxBuffers :
             /\ txreq[b] /\ txreq' = [txreq EXCEPT ![b] = FALSE]
             /\ sent'[Len(sent) + 1] = tx[b]
             /\ \A k \in DOMAIN sent : sent'[k] = sent[k]
             /\ DOMAIN sent' = DOMAIN sent \cup {Len(sent) + 1}
    BY <1>7, WhatIsSent
  <2>3. \A c \in TxBuffers : txreq'[c] => txreq[c]
    BY <2>2 DEF TxType
  <2>4. ASSUME pc \in Filling PROVE \A k \in DOMAIN sent' : sent'[k].id # given
    <3>1. tx[b].id # given /\ \A k \in DOMAIN sent : sent[k].id # given
      BY <2>2, <2>4 DEF FillingInv
    <3> QED BY <2>2, <3>1
  <2>5. txbuf \in TxBuffers
    BY DEF IndexType
  <2> QED BY <2>1, <2>3, <2>4, <2>5 DEF FillingInv
<1>8. CASE pc' \notin Filling
  BY <1>8 DEF FillingInv
<1>9. CASE UNCHANGED <<pc, txbuf, m_nID, m_nDta, txVars, given, refused>>
  BY <1>9 DEF FillingInv, txVars
<1> QED
  BY <1>1, <1>2, <1>3, <1>4, <1>5, <1>6, <1>7, <1>8, <1>9, WhatFills

\* What goes on the bus waited in a buffer, whole and alone; what is refused never did.
LEMMA SentStep ==
    TxType /\ CountersInv /\ TxInv /\ FillingInv /\ SentWholeAndOnce /\ [Next]_vars
        => SentWholeAndOnce'
<1> SUFFICES ASSUME TxType, CountersInv, TxInv, FillingInv, SentWholeAndOnce, [Next]_vars
             PROVE  SentWholeAndOnce'
  OBVIOUS
<1>1. CASE UNCHANGED <<sent, given, refused>>
  BY <1>1 DEF SentWholeAndOnce
<1>2. CASE SendMsg
  <2>1. UNCHANGED <<sent, refused>> /\ given' = given + 1 /\ given \in Nat
    BY <1>2, BoundsAssumption DEF SendMsg, txVars, CountersInv
  <2>2. 1 .. given \subseteq 1 .. given'
    BY <2>1
  <2> QED BY <2>1, <2>2 DEF SentWholeAndOnce
<1>3. CASE FindTxBuf
  <2>1. UNCHANGED <<sent, given>> /\ (refused' = refused \/ refused' = refused \cup {m_nID})
    BY <1>3 DEF FindTxBuf, txVars
  <2>2. m_nID = given /\ \A k \in DOMAIN sent : sent[k].id # given
    BY <1>3 DEF FindTxBuf, FillingInv, Filling
  <2> QED BY <2>1, <2>2 DEF SentWholeAndOnce
<1>4. CASE Transmit
  <2>1. UNCHANGED <<given, refused>>
    BY <1>4 DEF Transmit
  <2>2. PICK b \in TxBuffers :
             /\ txreq[b]
             /\ sent'[Len(sent) + 1] = tx[b]
             /\ \A k \in DOMAIN sent : sent'[k] = sent[k]
             /\ DOMAIN sent' = DOMAIN sent \cup {Len(sent) + 1}
    BY <1>4, WhatIsSent
  <2>3. /\ tx[b].id = tx[b].data /\ tx[b].id \in (1 .. given) \ refused
        /\ \A k \in DOMAIN sent : sent[k].id # tx[b].id
    BY <2>2 DEF TxInv
  <2>4. \A k \in DOMAIN sent' : sent'[k].id = sent'[k].data
                                /\ sent'[k].id \in (1 .. given) \ refused
    BY <2>2, <2>3 DEF SentWholeAndOnce
  <2>5. \A j, k \in DOMAIN sent' : sent'[j].id = sent'[k].id => j = k
    BY <2>2, <2>3 DEF SentWholeAndOnce
  <2> QED BY <2>1, <2>4, <2>5 DEF SentWholeAndOnce
<1>5. CASE InitCANBuffers \/ WriteData \/ WriteDlc \/ WriteId \/ StartTransmit
  <2>1. UNCHANGED <<sent, given, refused>>
    BY <1>5, Zenon DEF InitCANBuffers, WriteData, WriteDlc, WriteId, WriteTx, StartTransmit
  <2> QED BY <2>1 DEF SentWholeAndOnce
<1> QED
  BY <1>1, <1>2, <1>3, <1>4, <1>5, WhatSends DEF txVars

\* Before the first message no buffer waits, so that the controller is in the mode asked
\* for when the masks and filters are written.
LEMMA FilterStep ==
    TxInv /\ CountersInv /\ FilterInv /\ [Next]_vars => FilterInv'
<1> SUFFICES ASSUME TxInv, CountersInv, FilterInv, [Next]_vars PROVE FilterInv'
  OBVIOUS
<1> USE DEF FilterInv, Step, Return
<1>1. CASE WriteFilter
  <2>1. given = 0 => \A b \in TxBuffers : ~txreq[b]
    BY DEF TxInv
  <2> QED BY <1>1, <2>1 DEF WriteFilter
<1>2. CASE InitFilter
  BY <1>2 DEF InitFilter, AskConfig
<1>3. CASE SendMsg
  <2>1. given' # 0
    BY <1>3, BoundsAssumption DEF SendMsg, CountersInv
  <2> QED BY <1>3, <2>1 DEF SendMsg, setVars
<1>4. CASE Begin \/ ConfigRate \/ InitCANBuffers \/ EnterNormal
  BY <1>4 DEF Begin, ConfigRate, InitCANBuffers, EnterNormal
<1>5. CASE FindTxBuf \/ PollSent
  BY <1>5 DEF FindTxBuf, PollSent, setVars
<1>6. CASE WriteData \/ WriteDlc \/ WriteId \/ StartTransmit
  BY <1>6 DEF WriteData, WriteDlc, WriteId, WriteTx, StartTransmit, setVars
<1>7. CASE ReadStatus \/ ReadId \/ ReadData \/ ReadDone
  BY <1>7 DEF ReadStatus, ReadId, ReadData, ReadDone, setVars
<1>8. CASE Transmit \/ ChangeMode \/ MessageArrives \/ UNCHANGED vars
  <2>1. UNCHANGED <<pc, reqop, given, filter>>
    BY <1>8, Zenon DEF Transmit, ChangeMode, MessageArrives, vars, setVars
  <2> QED BY <2>1
<1> QED
  BY <1>1, <1>2, <1>3, <1>4, <1>5, <1>6, <1>7, <1>8 DEF Next, Call, Driver

-----------------------------------------------------------------------------
(* The theorem.                                                                *)

LEMMA McpInvStep == McpInv /\ [Next]_vars => McpInv'
<1> SUFFICES ASSUME McpInv, [Next]_vars PROVE McpInv'
  OBVIOUS
<1>1. /\ CallType /\ SetupType /\ MessageType /\ IndexType /\ TxType /\ RxType
      /\ CountersInv /\ PlaceInv /\ ReadingInv /\ TxInv /\ FillingInv /\ FilterInv
      /\ NoMessageVanishes /\ OnlyBuffer1IsOvertaken /\ SentWholeAndOnce
  BY TypeParts DEF McpInv, MessagesAreExact, ReadsAreExact, SendsAreExact
<1>2. TypeOK'
  <2>1. CallType' /\ SetupType' /\ MessageType' /\ IndexType' /\ TxType' /\ RxType'
    BY <1>1, CallTypeStep, SetupTypeStep, MessageTypeStep, IndexTypeStep, TxTypeStep,
       RxTypeStep
  <2> QED
    BY <2>1 DEF TypeOK, CallType, SetupType, MessageType, IndexType, TxType, RxType
<1>3. CountersInv' /\ PlaceInv' /\ ReadingInv'
  BY <1>1, CountersStep, PlaceStep, ReadingStep
<1>4. TxInv' /\ FillingInv' /\ FilterInv'
  BY <1>1, TxStep, FillingStep, FilterStep
<1>5. ReadWholeAndOnce'
  BY <1>3 DEF PlaceInv, ReadWholeAndOnce
<1>6. NoMessageVanishes' /\ OnlyBuffer1IsOvertaken'
  BY <1>1, NoneVanishesStep, OvertakenStep
<1>7. SentWholeAndOnce'
  BY <1>1, SentStep
<1>8. FilterIsSet'
  BY <1>4 DEF FilterInv, FilterIsSet
<1> QED
  BY <1>2, <1>3, <1>4, <1>5, <1>6, <1>7, <1>8
  DEF McpInv, MessagesAreExact, ReadsAreExact, SendsAreExact

\* Whatever arrives, is sent, or changes its mode between two transfers, readMsg() hands
\* over every message on the bus once, whole and, but for those of buffer 1, in order, or
\* has lost it to full buffers; sendMsg() puts on the bus what it was given, once, and
\* nothing it gave up; and the filters are those asked for as long as nothing is sent.
THEOREM MessagesStayExact == Spec => []MessagesAreExact
<1>1. McpInv => MessagesAreExact
  BY DEF McpInv
<1> QED
  BY McpInvInit, McpInvStep, <1>1, PTL DEF Spec
=============================================================================
