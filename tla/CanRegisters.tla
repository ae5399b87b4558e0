---------------------------- MODULE CanRegisters ----------------------------
(***************************************************************************)
(* What MCP_CAN writes into the registers of the MCP2515 and takes out of  *)
(* them: bit timing, masks and filters, identifiers of both lengths, data  *)
(* length and the remote bit.  The controller uses the registers as its    *)
(* data sheet says.  When a call may be made, and what happens meanwhile,  *)
(* is left to Mcp2515.                                                     *)
(***************************************************************************)
EXTENDS Integers, FiniteSets, Bitwise

CONSTANTS
    StdIds, ExtIds,     \* identifiers on the bus, and asked for
    Lengths,            \* data lengths
    BusyRates,          \* bound: rates at which more than begin() is called
    MaxCalls            \* bound: calls and arrivals after begin()

VARIABLES
    rate,               \* asked for; 0 before begin()
    cnf,                \* CNF1, CNF2, CNF3
    mask, filt,         \* the registers of masks and filters
    msg,                \* m_nID, m_nExtFlg, m_nDlc, m_nRtr, m_nDta, and whence they are
    buffer,             \* a receive buffer, and the frame it was filled with
    frame,
    onBus,              \* what the controller sends
    asked,              \* the masks and filters asked for
    calls               \* counter of the bound

regVars == <<rate, cnf, mask, filt, msg, buffer, frame, onBus, asked, calls>>

Masks == 0 .. 1
Filters == 0 .. 5
MAX_CHAR_IN_MESSAGE == 8
Nothing == <<>>
Ids(ext) == IF ext THEN ExtIds ELSE StdIds
Identifiers == {[ext |-> e, id |-> i] : e \in {TRUE}, i \in ExtIds}
                 \cup {[ext |-> e, id |-> i] : e \in {FALSE}, i \in StdIds}

-----------------------------------------------------------------------------
(* Identifiers: bits 28 .. 18 or 10 .. 0 in SIDH and SIDL, the others in SIDL, *)
(* EID8 and EID0.                                                              *)

EXIDE == 8

mcp2515_write_id(ext, id) ==
    LET canid == IF ext THEN id \div 65536 ELSE id % 65536
    IN  IF ext
          THEN [sidh |-> (canid \div 32) % 256,
                sidl |-> (canid % 4) + ((canid \div 4) % 8) * 32 + EXIDE,
                eid8 |-> (id % 65536) \div 256, eid0 |-> id % 256]
          ELSE [sidh |-> (canid \div 8) % 256, sidl |-> (canid % 8) * 32,
                eid8 |-> 0, eid0 |-> 0]

IsExt(r) == (r.sidl \div EXIDE) % 2 = 1
mcp2515_read_id(r) ==
    LET std == r.sidh * 8 + r.sidl \div 32
    IN  IF IsExt(r)
          THEN [ext |-> TRUE, id |-> ((std * 4 + (r.sidl % 4)) * 256 + r.eid8) * 256 + r.eid0]
          ELSE [ext |-> FALSE, id |-> std]

-----------------------------------------------------------------------------
(* mcp2515_configRate(): BRP in CNF1, PHSEG1 and PRSEG in CNF2, PHSEG2 in CNF3. *)

Rates == {5000, 10000, 20000, 31250, 40000, 50000, 80000, 100000, 125000, 200000,
          250000, 500000, 666666, 1000000}
mcp2515_configRate(r) ==
    CASE r = 5000 -> <<63, 255, 135>>    [] r = 10000 -> <<31, 255, 135>>
      [] r = 20000 -> <<15, 255, 135>>   [] r = 31250 -> <<15, 241, 133>>
      [] r = 40000 -> <<7, 255, 135>>    [] r = 50000 -> <<7, 250, 135>>
      [] r = 80000 -> <<3, 255, 135>>    [] r = 100000 -> <<3, 250, 135>>
      [] r = 125000 -> <<3, 240, 134>>   [] r = 200000 -> <<1, 250, 135>>
      [] r = 250000 -> <<65, 241, 133>>  [] r = 500000 -> <<0, 240, 134>>
      [] r = 666666 -> <<0, 168, 3>>     [] r = 1000000 -> <<0, 208, 130>>

NoMessage == [ext |-> FALSE, id |-> 0, dlc |-> 0, rtr |-> FALSE,
              data |-> [i \in 0 .. MAX_CHAR_IN_MESSAGE - 1 |-> "none"], from |-> "none"]

InitRegisters ==
    /\ rate = 0 /\ cnf = <<0, 0, 0>>
    /\ mask = [n \in Masks |-> mcp2515_write_id(FALSE, 0)]
    /\ filt = [n \in Filters |-> mcp2515_write_id(FALSE, 0)]
    /\ msg = NoMessage
    /\ buffer = Nothing /\ frame = Nothing /\ onBus = Nothing
    /\ asked = [mask |-> <<>>, filt |-> <<>>] /\ calls = 0

MoreCalls == rate \in BusyRates /\ calls < MaxCalls /\ calls' = calls + 1

ExtOfFilter(n) == n \notin {1, 3, 5}

\* mcp2515_init(): the rate, and mcp2515_initCANBuffers() with masks that let everything
\* through.
Begin(r) ==
    /\ rate = 0
    /\ rate' = r /\ cnf' = mcp2515_configRate(r)
    /\ mask' = [n \in Masks |-> mcp2515_write_id(TRUE, 0)]
    /\ filt' = [n \in Filters |-> mcp2515_write_id(ExtOfFilter(n), 0)]
    /\ asked' = [mask |-> [n \in Masks |-> [ext |-> TRUE, id |-> 0]],
                 filt |-> [n \in Filters |-> [ext |-> ExtOfFilter(n), id |-> 0]]]
    /\ UNCHANGED <<msg, buffer, frame, onBus, calls>>

\* A number that is too high writes nothing, and is not reported: the result is
\* overwritten by that of the change of mode.
init_Mask(num, ext, ulData) ==
    /\ frame = Nothing /\ MoreCalls
    /\ IF num \in Masks
         THEN /\ mask' = [mask EXCEPT ![num] = mcp2515_write_id(ext, ulData)]
              /\ asked' = [asked EXCEPT !.mask[num] = [ext |-> ext, id |-> ulData]]
         ELSE UNCHANGED <<mask, asked>>
    /\ UNCHANGED <<rate, cnf, filt, msg, buffer, frame, onBus>>

init_Filt(num, ext, ulData) ==
    /\ frame = Nothing /\ MoreCalls
    /\ IF num \in Filters
         THEN /\ filt' = [filt EXCEPT ![num] = mcp2515_write_id(ext, ulData)]
              /\ asked' = [asked EXCEPT !.filt[num] = [ext |-> ext, id |-> ulData]]
         ELSE UNCHANGED <<filt, asked>>
    /\ UNCHANGED <<rate, cnf, mask, msg, buffer, frame, onBus>>

-----------------------------------------------------------------------------
(* The controller *)

StdPart(i) == IF i.ext THEN i.id \div 262144 ELSE i.id
ExtPart(i) == i.id % 262144
SidOf(r) == r.sidh * 8 + r.sidl \div 32
EidOf(r) == (r.sidl % 4) * 65536 + r.eid8 * 256 + r.eid0

Matches(m, f, i) ==
    /\ IsExt(f) = i.ext
    /\ (SidOf(f) & SidOf(m)) = (StdPart(i) & SidOf(m))
    /\ i.ext => (EidOf(f) & EidOf(m)) = (ExtPart(i) & EidOf(m))
FiltersOf(b) == IF b = 0 THEN 0 .. 1 ELSE 2 .. 5
Accepts(b, i) == \E f \in FiltersOf(b) : Matches(mask[b], filt[f], i)

\* A short identifier leaves the bytes of the long one as they were, and has its remote
\* bit in SIDL as well.
Filled(fr, old) ==
    [sidh |-> StdPart(fr) \div 8,
     sidl |-> (StdPart(fr) % 8) * 32
                + (IF fr.ext THEN EXIDE + ExtPart(fr) \div 65536 ELSE IF fr.rtr THEN 16 ELSE 0),
     eid8 |-> IF fr.ext THEN (ExtPart(fr) % 65536) \div 256 ELSE old,
     eid0 |-> IF fr.ext THEN ExtPart(fr) % 256 ELSE old,
     rtr |-> fr.rtr, dlc |-> fr.len + (IF fr.rtr /\ fr.ext THEN 64 ELSE 0)]

FrameArrives(fr, old) ==
    /\ frame = Nothing /\ MoreCalls
    /\ frame' = fr
    /\ buffer' = IF \E b \in Masks : Accepts(b, fr) THEN Filled(fr, old) ELSE buffer
    /\ UNCHANGED <<rate, cnf, mask, filt, msg, onBus, asked>>

\* What is in the buffer goes to the bus, the data up to the length, none if remote.
BusFrame(r, dlc, data) ==
    LET len == dlc % 16
    IN  [ext |-> IsExt(r),
         id |-> IF IsExt(r) THEN SidOf(r) * 262144 + EidOf(r) ELSE SidOf(r),
         len |-> len, rtr |-> (dlc \div 64) % 2 = 1,
         data |-> IF (dlc \div 64) % 2 = 1 THEN <<>> ELSE [i \in 0 .. len - 1 |-> data[i]]]

-----------------------------------------------------------------------------
(* mcp2515_read_canMsg() and sendMsgBuf() *)

MCP_DLC_MASK == 16
ReadBuffer ==
    /\ buffer # Nothing /\ MoreCalls
    /\ LET len == buffer.dlc % MCP_DLC_MASK
           who == mcp2515_read_id(buffer)
       IN  msg' = [ext |-> who.ext, id |-> who.id, dlc |-> len, rtr |-> buffer.rtr,
                   data |-> [i \in 0 .. MAX_CHAR_IN_MESSAGE - 1 |->
                               IF i < len THEN "read" ELSE msg.data[i]],
                   from |-> "bus"]
    /\ buffer' = Nothing
    /\ UNCHANGED <<rate, cnf, mask, filt, frame, onBus, asked>>

\* setMsg() leaves m_nRtr as it was, and the data is written before the remote bit is
\* added to the length.
sendMsgBuf(ext, id, len) ==
    /\ onBus = Nothing /\ MoreCalls
    /\ LET data == [i \in 0 .. MAX_CHAR_IN_MESSAGE - 1 |-> "given"]
           dlc == IF msg.rtr THEN len + 64 ELSE len
       IN  /\ msg' = [ext |-> ext, id |-> id, dlc |-> dlc, rtr |-> msg.rtr, data |-> data,
                      from |-> "program"]
           /\ onBus' = BusFrame(mcp2515_write_id(ext, id), dlc,
                                [i \in 0 .. MAX_CHAR_IN_MESSAGE - 1 |->
                                   IF i < len THEN data[i] ELSE "stale"])
    /\ UNCHANGED <<rate, cnf, mask, filt, buffer, frame, asked>>

NextRegisters ==
    \/ \E r \in Rates : Begin(r)
    \/ \E n \in 0 .. 2, i \in Identifiers : init_Mask(n, i.ext, i.id)
    \/ \E n \in 0 .. 6, i \in Identifiers : init_Filt(n, i.ext, i.id)
    \/ \E i \in Identifiers, l \in Lengths, remote \in BOOLEAN, old \in {0, 255} :
         FrameArrives([ext |-> i.ext, id |-> i.id, len |-> l, rtr |-> remote], old)
    \/ ReadBuffer
    \/ \E i \in Identifiers, l \in Lengths : sendMsgBuf(i.ext, i.id, l)

-----------------------------------------------------------------------------
\* The rate on the bus is the one asked for, with the 16 MHz crystal the names of the
\* registers' values give, and the segments of a bit are as the controller requires.
RateIsSet ==
    rate # 0 =>
      LET brp == cnf[1] % 64
          sjw == cnf[1] \div 64 + 1
          prseg == (cnf[2] % 8) + 1
          phseg1 == ((cnf[2] \div 8) % 8) + 1
          phseg2 == (cnf[3] % 8) + 1
      IN  /\ 8000000 \div ((brp + 1) * (1 + prseg + phseg1 + phseg2)) = rate
          /\ prseg + phseg1 >= phseg2 /\ phseg2 > sjw
          /\ cnf[2] \div 128 = 1

\* A frame is let through exactly when its identifier agrees with one of the filters asked
\* for in the bits of its mask; a mask of the other length has no meaning for it.  Without
\* any call, everything is let through.
FramesAreFiltered ==
    frame # Nothing /\ msg.from = "none" =>
      LET Meant(b) == asked.mask[b].id = 0 \/ asked.mask[b].ext = frame.ext
          Agrees(b, f) ==
            /\ asked.filt[f].ext = frame.ext
            /\ (asked.filt[f].id & asked.mask[b].id) = (frame.id & asked.mask[b].id)
      IN  /\ (\A b \in Masks : Meant(b)) =>
               (buffer # Nothing <=> \E b \in Masks : \E f \in FiltersOf(b) : Agrees(b, f))
          /\ calls = 1 => buffer # Nothing

\* What the program reads is the frame that was on the bus, and only as much data as came
\* with it; what it sends arrives as it was given, but for the remote bit that the message
\* read last has left.
FramesAreExact ==
    /\ msg.from = "bus" =>
         /\ msg.id = frame.id /\ msg.ext = frame.ext
         /\ msg.dlc = frame.len /\ msg.rtr = frame.rtr
         /\ \A i \in DOMAIN msg.data : msg.data[i] = "read" <=> i < frame.len
    /\ msg.from = "program" =>
         /\ onBus.id = msg.id /\ onBus.ext = msg.ext
         /\ onBus.len = msg.dlc % 64 /\ onBus.rtr = msg.rtr
         /\ ~onBus.rtr => onBus.data = [i \in 0 .. onBus.len - 1 |-> "given"]

RegistersAreExact == RateIsSet /\ FramesAreFiltered /\ FramesAreExact
=============================================================================
