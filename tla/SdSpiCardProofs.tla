-------------------------- MODULE SdSpiCardProofs --------------------------
(***************************************************************************)
(* Proofs about SdSpiCard, for a card of any number of blocks and any      *)
(* number of refusals, resets and removals: what a call reports is so, but *)
(* for blocks of a transfer that the card did not start, and between two   *)
(* calls the driver's idea of the card and the bus are right.              *)
(***************************************************************************)
EXTENDS SdSpiCard, SequenceTheorems, TLAPS

-----------------------------------------------------------------------------
(* Where a call can be: the steps that it has still to do. *)

\* A list of n steps: its first, and those after it.
At(s, n, h, t) ==
    s # <<>> /\ Len(s) = n /\ Head(s) = h /\ Tail(s) = t /\ Len(t) = n - 1

\* What begin() can have still to do, for each type of card found so far, and
\* what every other call can.
newLists == {beginSteps, <<"CMD8", "CMD55", "ACMD41">>}
oldLists == {<<"CMD55", "ACMD41">>, <<"ACMD41">>, <<>>}
sd2Lists == {<<"CMD55", "ACMD41", "CMD58">>, <<"ACMD41", "CMD58">>, <<"CMD58">>, <<>>}
eraseLists == {eraseSteps, <<"csd", "CMD32", "CMD33", "CMD38", "wait">>,
               <<"CMD32", "CMD33", "CMD38", "wait">>, <<"CMD33", "CMD38", "wait">>,
               <<"CMD38", "wait">>, <<"wait">>, <<>>}
readRegisterLists == {readRegisterSteps, <<"csd">>, <<>>}
readOCRLists == {readOCRSteps, <<>>}
readBlockLists == {readBlockSteps, <<"data">>, <<>>}
readStartLists == {readStartSteps, <<>>}
readDataLists == {readDataSteps, <<>>}
readStopLists == {readStopSteps, <<>>}
writeBlockLists == {writeBlockSteps, <<"oneToken">>, <<>>}
writeStartLists == {writeStartSteps, <<"ACMD23", "CMD25">>, <<"CMD25">>, <<>>}
writeDataLists == {writeDataSteps, <<"nextToken">>, <<>>}
writeStopLists == {writeStopSteps, <<"stopToken", "wait">>, <<"wait">>, <<>>}

\* What call c can have still to do, with the type of card m.
Program(c, m, s) ==
    /\ c \in Calls \cup {NoCall}
    /\ c = NoCall => s = <<>>
    /\ c = "begin" => /\ m \in {"unknown", "SD1", "SD2", "SDHC"}
                      /\ m = "unknown" => s \in newLists
                      /\ m = "SD1" => s \in oldLists
                      /\ m = "SD2" => s \in sd2Lists
                      /\ m = "SDHC" => s = <<>>
    /\ c = "erase" => s \in eraseLists
    /\ c = "readRegister" => s \in readRegisterLists
    /\ c = "readOCR" => s \in readOCRLists
    /\ c = "readBlock" => s \in readBlockLists
    /\ c = "readStart" => s \in readStartLists
    /\ c = "readData" => s \in readDataLists
    /\ c = "readStop" => s \in readStopLists
    /\ c = "writeBlock" => s \in writeBlockLists
    /\ c = "writeStart" => s \in writeStartLists
    /\ c = "writeData" => s \in writeDataLists
    /\ c = "writeStop" => s \in writeStopLists

\* The same by n, the number of steps, and h, the first of them.
Placed(c, m, n, h) ==
    /\ n \in 0 .. 6
    /\ c = NoCall => n = 0
    /\ c = "begin" /\ m = "unknown" =>
         n \in 3 .. 4 /\ (n = 4 => h = "CMD0") /\ (n = 3 => h = "CMD8")
    /\ c = "begin" /\ m = "SD1" => n <= 2 /\ (n = 2 => h = "CMD55") /\ (n = 1 => h = "ACMD41")
    /\ c = "begin" /\ m = "SD2" =>
         n <= 3 /\ (n = 3 => h = "CMD55") /\ (n = 2 => h = "ACMD41") /\ (n = 1 => h = "CMD58")
    /\ c = "begin" /\ m = "SDHC" => n = 0
    /\ c = "erase" => /\ n <= 6
                      /\ (n = 6 => h = "CMD9")
                      /\ (n = 5 => h = "csd")
                      /\ (n = 4 => h = "CMD32")
                      /\ (n = 3 => h = "CMD33")
                      /\ (n = 2 => h = "CMD38")
                      /\ (n = 1 => h = "wait")
    /\ c = "readRegister" => n <= 2 /\ (n = 2 => h = "CMD9") /\ (n = 1 => h = "csd")
    /\ c = "readOCR" => n <= 1 /\ (n = 1 => h = "CMD58")
    /\ c = "readBlock" => n <= 2 /\ (n = 2 => h = "CMD17") /\ (n = 1 => h = "data")
    /\ c = "readStart" => n <= 1 /\ (n = 1 => h = "CMD18")
    /\ c = "readData" => n <= 1 /\ (n = 1 => h = "data")
    /\ c = "readStop" => n <= 1 /\ (n = 1 => h = "CMD12")
    /\ c = "writeBlock" => n <= 2 /\ (n = 2 => h = "CMD24") /\ (n = 1 => h = "oneToken")
    /\ c = "writeStart" =>
         n <= 3 /\ (n = 3 => h = "CMD55") /\ (n = 2 => h = "ACMD23") /\ (n = 1 => h = "CMD25")
    /\ c = "writeData" => n <= 2 /\ (n = 2 => h = "wait") /\ (n = 1 => h = "nextToken")
    /\ c = "writeStop" =>
         n <= 3 /\ (n = 3 => h = "wait") /\ (n = 2 => h = "stopToken") /\ (n = 1 => h = "wait")

\* What is known of a call from its number of steps, and of what comes after the
\* first of them: begin() goes on in a way of its own from three of its steps.
Fits(c, m, s) ==
    /\ Placed(c, m, Len(s), Head(s))
    /\ s = <<>> <=> Len(s) = 0
    /\ s # <<>> /\ ~(c = "begin" /\ Head(s) \in {"CMD0", "CMD8", "CMD58"}) =>
         Program(c, m, Tail(s)) /\ Len(Tail(s)) = Len(s) - 1

\* begin() with a card not yet told.
LEMMA NewFits ==
    ASSUME NEW s \in newLists
    PROVE  Fits("begin", "unknown", s)
<1>1. CASE s = beginSteps
  <2>1. At(s, 4, "CMD0", <<"CMD8", "CMD55", "ACMD41">>)
    BY <1>1 DEF At, beginSteps
  <2> QED
    BY <2>1 DEF At, Fits, Placed, NoCall
<1>2. CASE s = <<"CMD8", "CMD55", "ACMD41">>
  <2>1. At(s, 3, "CMD8", <<"CMD55", "ACMD41">>)
    BY <1>2 DEF At
  <2> QED
    BY <2>1 DEF At, Fits, Placed, NoCall
<1> QED
  BY Zenon, <1>1, <1>2 DEF newLists

\* begin() with an old card.
LEMMA OldFits ==
    ASSUME NEW s \in oldLists
    PROVE  Fits("begin", "SD1", s)
<1>1. CASE s = <<"CMD55", "ACMD41">>
  <2>1. At(s, 2, "CMD55", <<"ACMD41">>)
    BY <1>1 DEF At
  <2>2. Tail(s) \in oldLists
    BY Zenon, <2>1 DEF At, oldLists
  <2> QED
    BY <2>1, <2>2 DEF At, Fits, Placed, Program, Calls, Reads, NoCall
<1>2. CASE s = <<"ACMD41">>
  <2>1. At(s, 1, "ACMD41", <<>>)
    BY <1>2 DEF At
  <2>2. Tail(s) \in oldLists
    BY Zenon, <2>1 DEF At, oldLists
  <2> QED
    BY <2>1, <2>2 DEF At, Fits, Placed, Program, Calls, Reads, NoCall
<1>3. CASE s = <<>>
  <2>1. Len(s) = 0
    BY <1>3
  <2> QED
    BY <1>3, <2>1 DEF Fits, Placed, NoCall
<1> QED
  BY Zenon, <1>1, <1>2, <1>3 DEF oldLists

\* begin() with a new card.
LEMMA Sd2Fits ==
    ASSUME NEW s \in sd2Lists
    PROVE  Fits("begin", "SD2", s)
<1>1. CASE s = <<"CMD55", "ACMD41", "CMD58">>
  <2>1. At(s, 3, "CMD55", <<"ACMD41", "CMD58">>)
    BY <1>1 DEF At
  <2>2. Tail(s) \in sd2Lists
    BY Zenon, <2>1 DEF At, sd2Lists
  <2> QED
    BY <2>1, <2>2 DEF At, Fits, Placed, Program, Calls, Reads, NoCall
<1>2. CASE s = <<"ACMD41", "CMD58">>
  <2>1. At(s, 2, "ACMD41", <<"CMD58">>)
    BY <1>2 DEF At
  <2>2. Tail(s) \in sd2Lists
    BY Zenon, <2>1 DEF At, sd2Lists
  <2> QED
    BY <2>1, <2>2 DEF At, Fits, Placed, Program, Calls, Reads, NoCall
<1>3. CASE s = <<"CMD58">>
  <2>1. At(s, 1, "CMD58", <<>>)
    BY <1>3 DEF At
  <2> QED
    BY <2>1 DEF At, Fits, Placed, NoCall
<1>4. CASE s = <<>>
  <2>1. Len(s) = 0
    BY <1>4
  <2> QED
    BY <1>4, <2>1 DEF Fits, Placed, NoCall
<1> QED
  BY Zenon, <1>1, <1>2, <1>3, <1>4 DEF sd2Lists

\* erase().
LEMMA EraseFits ==
    ASSUME NEW m, NEW s \in eraseLists
    PROVE  Fits("erase", m, s)
<1>1. CASE s = eraseSteps
  <2>1. At(s, 6, "CMD9", <<"csd", "CMD32", "CMD33", "CMD38", "wait">>)
    BY <1>1 DEF At, eraseSteps
  <2>2. Tail(s) \in eraseLists
    BY Zenon, <2>1 DEF At, eraseLists
  <2> QED
    BY <2>1, <2>2 DEF At, Fits, Placed, Program, Calls, Reads, NoCall
<1>2. CASE s = <<"csd", "CMD32", "CMD33", "CMD38", "wait">>
  <2>1. At(s, 5, "csd", <<"CMD32", "CMD33", "CMD38", "wait">>)
    BY <1>2 DEF At
  <2>2. Tail(s) \in eraseLists
    BY Zenon, <2>1 DEF At, eraseLists
  <2> QED
    BY <2>1, <2>2 DEF At, Fits, Placed, Program, Calls, Reads, NoCall
<1>3. CASE s = <<"CMD32", "CMD33", "CMD38", "wait">>
  <2>1. At(s, 4, "CMD32", <<"CMD33", "CMD38", "wait">>)
    BY <1>3 DEF At
  <2>2. Tail(s) \in eraseLists
    BY Zenon, <2>1 DEF At, eraseLists
  <2> QED
    BY <2>1, <2>2 DEF At, Fits, Placed, Program, Calls, Reads, NoCall
<1>4. CASE s = <<"CMD33", "CMD38", "wait">>
  <2>1. At(s, 3, "CMD33", <<"CMD38", "wait">>)
    BY <1>4 DEF At
  <2>2. Tail(s) \in eraseLists
    BY Zenon, <2>1 DEF At, eraseLists
  <2> QED
    BY <2>1, <2>2 DEF At, Fits, Placed, Program, Calls, Reads, NoCall
<1>5. CASE s = <<"CMD38", "wait">>
  <2>1. At(s, 2, "CMD38", <<"wait">>)
    BY <1>5 DEF At
  <2>2. Tail(s) \in eraseLists
    BY Zenon, <2>1 DEF At, eraseLists
  <2> QED
    BY <2>1, <2>2 DEF At, Fits, Placed, Program, Calls, Reads, NoCall
<1>6. CASE s = <<"wait">>
  <2>1. At(s, 1, "wait", <<>>)
    BY <1>6 DEF At
  <2>2. Tail(s) \in eraseLists
    BY Zenon, <2>1 DEF At, eraseLists
  <2> QED
    BY <2>1, <2>2 DEF At, Fits, Placed, Program, Calls, Reads, NoCall
<1>7. CASE s = <<>>
  <2>1. Len(s) = 0
    BY <1>7
  <2> QED
    BY <1>7, <2>1 DEF Fits, Placed, NoCall
<1> QED
  BY Zenon, <1>1, <1>2, <1>3, <1>4, <1>5, <1>6, <1>7 DEF eraseLists

\* readRegister().
LEMMA ReadRegisterFits ==
    ASSUME NEW m, NEW s \in readRegisterLists
    PROVE  Fits("readRegister", m, s)
<1>1. CASE s = readRegisterSteps
  <2>1. At(s, 2, "CMD9", <<"csd">>)
    BY <1>1 DEF At, readRegisterSteps
  <2>2. Tail(s) \in readRegisterLists
    BY Zenon, <2>1 DEF At, readRegisterLists
  <2> QED
    BY <2>1, <2>2 DEF At, Fits, Placed, Program, Calls, Reads, NoCall
<1>2. CASE s = <<"csd">>
  <2>1. At(s, 1, "csd", <<>>)
    BY <1>2 DEF At
  <2>2. Tail(s) \in readRegisterLists
    BY Zenon, <2>1 DEF At, readRegisterLists
  <2> QED
    BY <2>1, <2>2 DEF At, Fits, Placed, Program, Calls, Reads, NoCall
<1>3. CASE s = <<>>
  <2>1. Len(s) = 0
    BY <1>3
  <2> QED
    BY <1>3, <2>1 DEF Fits, Placed, NoCall
<1> QED
  BY Zenon, <1>1, <1>2, <1>3 DEF readRegisterLists

\* readOCR().
LEMMA ReadOCRFits ==
    ASSUME NEW m, NEW s \in readOCRLists
    PROVE  Fits("readOCR", m, s)
<1>1. CASE s = readOCRSteps
  <2>1. At(s, 1, "CMD58", <<>>)
    BY <1>1 DEF At, readOCRSteps
  <2>2. Tail(s) \in readOCRLists
    BY Zenon, <2>1 DEF At, readOCRLists
  <2> QED
    BY <2>1, <2>2 DEF At, Fits, Placed, Program, Calls, Reads, NoCall
<1>2. CASE s = <<>>
  <2>1. Len(s) = 0
    BY <1>2
  <2> QED
    BY <1>2, <2>1 DEF Fits, Placed, NoCall
<1> QED
  BY Zenon, <1>1, <1>2 DEF readOCRLists

\* readBlock().
LEMMA ReadBlockFits ==
    ASSUME NEW m, NEW s \in readBlockLists
    PROVE  Fits("readBlock", m, s)
<1>1. CASE s = readBlockSteps
  <2>1. At(s, 2, "CMD17", <<"data">>)
    BY <1>1 DEF At, readBlockSteps
  <2>2. Tail(s) \in readBlockLists
    BY Zenon, <2>1 DEF At, readBlockLists
  <2> QED
    BY <2>1, <2>2 DEF At, Fits, Placed, Program, Calls, Reads, NoCall
<1>2. CASE s = <<"data">>
  <2>1. At(s, 1, "data", <<>>)
    BY <1>2 DEF At
  <2>2. Tail(s) \in readBlockLists
    BY Zenon, <2>1 DEF At, readBlockLists
  <2> QED
    BY <2>1, <2>2 DEF At, Fits, Placed, Program, Calls, Reads, NoCall
<1>3. CASE s = <<>>
  <2>1. Len(s) = 0
    BY <1>3
  <2> QED
    BY <1>3, <2>1 DEF Fits, Placed, NoCall
<1> QED
  BY Zenon, <1>1, <1>2, <1>3 DEF readBlockLists

\* readStart().
LEMMA ReadStartFits ==
    ASSUME NEW m, NEW s \in readStartLists
    PROVE  Fits("readStart", m, s)
<1>1. CASE s = readStartSteps
  <2>1. At(s, 1, "CMD18", <<>>)
    BY <1>1 DEF At, readStartSteps
  <2>2. Tail(s) \in readStartLists
    BY Zenon, <2>1 DEF At, readStartLists
  <2> QED
    BY <2>1, <2>2 DEF At, Fits, Placed, Program, Calls, Reads, NoCall
<1>2. CASE s = <<>>
  <2>1. Len(s) = 0
    BY <1>2
  <2> QED
    BY <1>2, <2>1 DEF Fits, Placed, NoCall
<1> QED
  BY Zenon, <1>1, <1>2 DEF readStartLists

\* readData().
LEMMA ReadDataFits ==
    ASSUME NEW m, NEW s \in readDataLists
    PROVE  Fits("readData", m, s)
<1>1. CASE s = readDataSteps
  <2>1. At(s, 1, "data", <<>>)
    BY <1>1 DEF At, readDataSteps
  <2>2. Tail(s) \in readDataLists
    BY Zenon, <2>1 DEF At, readDataLists
  <2> QED
    BY <2>1, <2>2 DEF At, Fits, Placed, Program, Calls, Reads, NoCall
<1>2. CASE s = <<>>
  <2>1. Len(s) = 0
    BY <1>2
  <2> QED
    BY <1>2, <2>1 DEF Fits, Placed, NoCall
<1> QED
  BY Zenon, <1>1, <1>2 DEF readDataLists

\* readStop().
LEMMA ReadStopFits ==
    ASSUME NEW m, NEW s \in readStopLists
    PROVE  Fits("readStop", m, s)
<1>1. CASE s = readStopSteps
  <2>1. At(s, 1, "CMD12", <<>>)
    BY <1>1 DEF At, readStopSteps
  <2>2. Tail(s) \in readStopLists
    BY Zenon, <2>1 DEF At, readStopLists
  <2> QED
    BY <2>1, <2>2 DEF At, Fits, Placed, Program, Calls, Reads, NoCall
<1>2. CASE s = <<>>
  <2>1. Len(s) = 0
    BY <1>2
  <2> QED
    BY <1>2, <2>1 DEF Fits, Placed, NoCall
<1> QED
  BY Zenon, <1>1, <1>2 DEF readStopLists

\* writeBlock().
LEMMA WriteBlockFits ==
    ASSUME NEW m, NEW s \in writeBlockLists
    PROVE  Fits("writeBlock", m, s)
<1>1. CASE s = writeBlockSteps
  <2>1. At(s, 2, "CMD24", <<"oneToken">>)
    BY <1>1 DEF At, writeBlockSteps
  <2>2. Tail(s) \in writeBlockLists
    BY Zenon, <2>1 DEF At, writeBlockLists
  <2> QED
    BY <2>1, <2>2 DEF At, Fits, Placed, Program, Calls, Reads, NoCall
<1>2. CASE s = <<"oneToken">>
  <2>1. At(s, 1, "oneToken", <<>>)
    BY <1>2 DEF At
  <2>2. Tail(s) \in writeBlockLists
    BY Zenon, <2>1 DEF At, writeBlockLists
  <2> QED
    BY <2>1, <2>2 DEF At, Fits, Placed, Program, Calls, Reads, NoCall
<1>3. CASE s = <<>>
  <2>1. Len(s) = 0
    BY <1>3
  <2> QED
    BY <1>3, <2>1 DEF Fits, Placed, NoCall
<1> QED
  BY Zenon, <1>1, <1>2, <1>3 DEF writeBlockLists

\* writeStart().
LEMMA WriteStartFits ==
    ASSUME NEW m, NEW s \in writeStartLists
    PROVE  Fits("writeStart", m, s)
<1>1. CASE s = writeStartSteps
  <2>1. At(s, 3, "CMD55", <<"ACMD23", "CMD25">>)
    BY <1>1 DEF At, writeStartSteps
  <2>2. Tail(s) \in writeStartLists
    BY Zenon, <2>1 DEF At, writeStartLists
  <2> QED
    BY <2>1, <2>2 DEF At, Fits, Placed, Program, Calls, Reads, NoCall
<1>2. CASE s = <<"ACMD23", "CMD25">>
  <2>1. At(s, 2, "ACMD23", <<"CMD25">>)
    BY <1>2 DEF At
  <2>2. Tail(s) \in writeStartLists
    BY Zenon, <2>1 DEF At, writeStartLists
  <2> QED
    BY <2>1, <2>2 DEF At, Fits, Placed, Program, Calls, Reads, NoCall
<1>3. CASE s = <<"CMD25">>
  <2>1. At(s, 1, "CMD25", <<>>)
    BY <1>3 DEF At
  <2>2. Tail(s) \in writeStartLists
    BY Zenon, <2>1 DEF At, writeStartLists
  <2> QED
    BY <2>1, <2>2 DEF At, Fits, Placed, Program, Calls, Reads, NoCall
<1>4. CASE s = <<>>
  <2>1. Len(s) = 0
    BY <1>4
  <2> QED
    BY <1>4, <2>1 DEF Fits, Placed, NoCall
<1> QED
  BY Zenon, <1>1, <1>2, <1>3, <1>4 DEF writeStartLists

\* writeData().
LEMMA WriteDataFits ==
    ASSUME NEW m, NEW s \in writeDataLists
    PROVE  Fits("writeData", m, s)
<1>1. CASE s = writeDataSteps
  <2>1. At(s, 2, "wait", <<"nextToken">>)
    BY <1>1 DEF At, writeDataSteps
  <2>2. Tail(s) \in writeDataLists
    BY Zenon, <2>1 DEF At, writeDataLists
  <2> QED
    BY <2>1, <2>2 DEF At, Fits, Placed, Program, Calls, Reads, NoCall
<1>2. CASE s = <<"nextToken">>
  <2>1. At(s, 1, "nextToken", <<>>)
    BY <1>2 DEF At
  <2>2. Tail(s) \in writeDataLists
    BY Zenon, <2>1 DEF At, writeDataLists
  <2> QED
    BY <2>1, <2>2 DEF At, Fits, Placed, Program, Calls, Reads, NoCall
<1>3. CASE s = <<>>
  <2>1. Len(s) = 0
    BY <1>3
  <2> QED
    BY <1>3, <2>1 DEF Fits, Placed, NoCall
<1> QED
  BY Zenon, <1>1, <1>2, <1>3 DEF writeDataLists

\* writeStop().
LEMMA WriteStopFits ==
    ASSUME NEW m, NEW s \in writeStopLists
    PROVE  Fits("writeStop", m, s)
<1>1. CASE s = writeStopSteps
  <2>1. At(s, 3, "wait", <<"stopToken", "wait">>)
    BY <1>1 DEF At, writeStopSteps
  <2>2. Tail(s) \in writeStopLists
    BY Zenon, <2>1 DEF At, writeStopLists
  <2> QED
    BY <2>1, <2>2 DEF At, Fits, Placed, Program, Calls, Reads, NoCall
<1>2. CASE s = <<"stopToken", "wait">>
  <2>1. At(s, 2, "stopToken", <<"wait">>)
    BY <1>2 DEF At
  <2>2. Tail(s) \in writeStopLists
    BY Zenon, <2>1 DEF At, writeStopLists
  <2> QED
    BY <2>1, <2>2 DEF At, Fits, Placed, Program, Calls, Reads, NoCall
<1>3. CASE s = <<"wait">>
  <2>1. At(s, 1, "wait", <<>>)
    BY <1>3 DEF At
  <2>2. Tail(s) \in writeStopLists
    BY Zenon, <2>1 DEF At, writeStopLists
  <2> QED
    BY <2>1, <2>2 DEF At, Fits, Placed, Program, Calls, Reads, NoCall
<1>4. CASE s = <<>>
  <2>1. Len(s) = 0
    BY <1>4
  <2> QED
    BY <1>4, <2>1 DEF Fits, Placed, NoCall
<1> QED
  BY Zenon, <1>1, <1>2, <1>3, <1>4 DEF writeStopLists

\* begin() with a card of blocks: it is over.
LEMMA SdhcFits ==
    ASSUME NEW s, s = <<>>
    PROVE  Fits("begin", "SDHC", s)
<1>1. Len(s) = 0
  OBVIOUS
<1> QED
  BY <1>1 DEF Fits, Placed, NoCall

\* The same for every call.
LEMMA ProgramFits ==
    ASSUME NEW c, NEW m, NEW s, Program(c, m, s)
    PROVE  Fits(c, m, s)
<1>1. c \in Calls \cup {NoCall}
  BY Zenon DEF Program
<1>2. CASE c = NoCall
  <2>1. s = <<>> /\ Len(s) = 0
    BY <1>2 DEF Program
  <2> QED
    BY <1>2, <2>1 DEF Fits, Placed, NoCall
<1>3. CASE c = "begin"
  BY Zenon, <1>3, NewFits, OldFits, Sd2Fits, SdhcFits DEF Program
<1>4. CASE c \in Calls /\ c # "begin"
  BY Zenon, <1>4, EraseFits, ReadRegisterFits, ReadOCRFits, ReadBlockFits, ReadStartFits,
     ReadDataFits, ReadStopFits, WriteBlockFits, WriteStartFits, WriteDataFits, WriteStopFits
     DEF Program, Calls, Reads
<1> QED
  BY Zenon, <1>1, <1>2, <1>3, <1>4

-----------------------------------------------------------------------------
(* The invariant. *)

Left == Len(steps)

\* The type invariant, but for steps, in parts that change together.
CallTypes ==
    /\ call \in Calls \cup {NoCall}
    /\ block \in 0 .. LastBlock + 1 /\ last \in 0 .. LastBlock + 1
    /\ src \in {Erased} \cup Data
    /\ session \in {"closed", "none", "reading", "writing"}
    /\ next \in 0 .. LastBlock + 1
    /\ got \in Contents \cup {Unknown}
LinkTypes ==
    /\ m_selected \in BOOLEAN
    /\ m_type \in {"unknown", "SD1", "SD2", "SDHC"}
    /\ initLate \in BOOLEAN /\ late \in BOOLEAN
PlaceTypes ==
    /\ kind \in {"SD1", "SD2", "SDHC", "gone"}
    /\ mode \in {"off", "idle", "ready", "sendRegister", "sendOne", "sendMany",
                 "takeOne", "takeMany"}
    /\ app \in BOOLEAN
    /\ at \in 0 .. LastBlock + 1
    /\ eraseFrom \in Blocks /\ eraseTo \in Blocks
FlashTypes ==
    /\ busy \in BOOLEAN /\ programming \subseteq Blocks
    /\ store \in [Blocks -> Contents]
GhostTypes ==
    /\ acked \in [Blocks -> Contents \cup {Unknown}]
    /\ unsafe \subseteq Blocks
    /\ strays \subseteq Blocks
BoundTypes ==
    /\ refused \in 0 .. MaxRefusals
    /\ boots \in 0 .. MaxBoots
TypesInv == CallTypes /\ LinkTypes /\ PlaceTypes /\ FlashTypes /\ GhostTypes /\ BoundTypes

ListsInv == Program(call, m_type, steps)

\* The card is in an older transfer only if it is in one.
MisledInv == misled \in BOOLEAN /\ (misled => mode = "takeMany")

\* The calls of a session, the bus that they find, and the blocks they are given.
SessionInv ==
    /\ call = NoCall => (m_selected <=> session \in {"reading", "writing"})
    /\ call = "begin" => session = "closed"
    /\ call \in {"readData", "readStop"} => session = "reading" /\ m_selected
    /\ call \in {"writeData", "writeStop"} => session = "writing" /\ m_selected
    /\ call \in {"erase", "readRegister", "readOCR", "readBlock", "readStart",
                 "writeBlock", "writeStart"} => session = "none"
    /\ call \in {"writeStart", "readStart"} /\ Left = 0 => m_selected
    /\ call \in {"erase", "readRegister", "readBlock", "readStart", "readData",
                 "writeBlock", "writeStart", "writeData"} => block \in Blocks
    /\ call = "erase" => last \in Blocks

\* begin() learns the type of the card that is there, and goes on only with a card
\* that has answered, which is then not busy.
KindInv ==
    kind # "gone" =>
      /\ session # "closed" => m_type = kind
      /\ call = "begin" =>
           /\ m_type = "SD1" => kind = "SD1"
           /\ m_type = "SD2" /\ Left > 0 => kind \in {"SD2", "SDHC"}
           /\ m_type \in {"SD2", "SDHC"} /\ Left = 0 => m_type = kind
           /\ Left # 4 => mode \in {"idle", "ready"} /\ ~busy

\* What the card programs is in doubt, or may yet be lost.
CardInv ==
    /\ kind = "gone" => ~busy
    /\ ~busy => programming = {}
    /\ busy => mode \in {"ready", "takeMany"}
    /\ \A b \in programming : b \in unsafe \/ acked[b] = Unknown \/ b \in strays

Sends == {"sendRegister", "sendOne", "sendMany"}

\* A card in the middle of a transfer is at the block that the driver thinks, unless the
\* transfer is an older one, which was given up.
TakePlace ==
    kind # "gone" =>
      /\ session \in {"none", "reading", "writing"} /\ call # "writeBlock" =>
           mode # "takeOne"
      /\ call = "writeBlock" /\ mode = "takeOne" => Left = 1 /\ at = block
      /\ call = "writeStart" /\ Left = 0 /\ mode = "takeMany" /\ ~misled => at = block
      /\ session = "writing" /\ call = NoCall /\ mode = "takeMany" /\ ~misled => at = next
      /\ call = "writeData" /\ mode = "takeMany" /\ ~misled =>
           at = IF Left = 0 THEN block + 1 ELSE block
      /\ call = "writeStop" /\ Left = 2 => ~busy
SendPlace ==
    kind # "gone" /\ mode \in Sends =>
      /\ session = "reading" /\ call = NoCall => at = next
      /\ call = "readStart" /\ Left = 0 => at = block
      /\ call = "readBlock" /\ Left = 1 => at = block
      /\ call = "readData" => at = IF Left = 0 THEN block + 1 ELSE block
PlaceInv == TakePlace /\ SendPlace

\* A call that changes blocks has put them in doubt, and waits for the card before
\* it ends, but for the one block of a write.
DoubtInv ==
    /\ call \in {"writeBlock", "writeData"} => acked[block] = Unknown
    /\ call = "erase" => src = Erased /\ \A b \in block .. last : acked[b] = Unknown
    /\ call \in {"erase", "writeStop", "readBlock", "readData"} /\ Left = 0 => ~busy

\* What a call has done when it is at its end.
WriteInv ==
    kind # "gone" /\ call \in {"writeBlock", "writeData"} /\ Left = 0 =>
      /\ block \notin strays => store[block] = src
      /\ \A b \in programming : b = block \/ b \in strays

EraseInv ==
    kind # "gone" /\ call = "erase" =>
      /\ Left \in 2 .. 4 => ~busy
      /\ Left \in 2 .. 3 => eraseFrom = block
      /\ Left = 2 => eraseTo = last
      /\ Left \in 0 .. 1 => \A b \in block .. last : store[b] = Erased

ReadInv == call \in {"readBlock", "readData"} /\ Left = 0 => got = store[block]

IInv ==
    /\ TypesInv /\ ListsInv /\ MisledInv /\ SessionInv /\ KindInv /\ CardInv /\ PlaceInv
    /\ DoubtInv /\ WriteInv /\ EraseInv /\ ReadInv /\ AcknowledgedIsStored

-----------------------------------------------------------------------------
(* The initial states, and the start of a call. *)

\* The initial states are in order.
LEMMA InitHolds == Init => IInv
<1> SUFFICES ASSUME Init PROVE IInv
  OBVIOUS
<1>1. call = NoCall /\ steps = <<>> /\ Left = 0
  BY DEF Init, Left
<1>2. TypesInv
  BY SizesAssumption, BoundsAssumption
     DEF Init, TypesInv, CallTypes, LinkTypes, PlaceTypes, FlashTypes, GhostTypes, BoundTypes,
     Blocks, Contents, Erased, Damaged, Unknown, NoCall
<1>3. ListsInv
  BY Zenon, <1>1 DEF ListsInv, Program, NoCall, Calls, Reads
<1>4. SessionInv /\ KindInv /\ PlaceInv /\ DoubtInv /\ WriteInv /\ EraseInv /\ ReadInv
  BY <1>1 DEF Init, SessionInv, KindInv, PlaceInv, DoubtInv, WriteInv, EraseInv, ReadInv,
     NoCall, Sends, TakePlace, SendPlace
<1>5. CardInv /\ AcknowledgedIsStored
  BY DEF Init, CardInv, AcknowledgedIsStored, Blocks, Unknown
<1>6. MisledInv
  BY Zenon DEF Init, MisledInv
<1> QED
  BY Zenon, <1>2, <1>3, <1>4, <1>5, <1>6 DEF IInv

\* A list of steps is not empty, and is of its call.
LEMMA StartLists ==
    /\ Program("begin", "unknown", beginSteps) /\ Len(beginSteps) = 4
    /\ \A m :
         /\ Program("erase", m, eraseSteps) /\ Len(eraseSteps) = 6
         /\ Program("readRegister", m, readRegisterSteps) /\ Len(readRegisterSteps) = 2
         /\ Program("readOCR", m, readOCRSteps) /\ Len(readOCRSteps) = 1
         /\ Program("readBlock", m, readBlockSteps) /\ Len(readBlockSteps) = 2
         /\ Program("readStart", m, readStartSteps) /\ Len(readStartSteps) = 1
         /\ Program("readData", m, readDataSteps) /\ Len(readDataSteps) = 1
         /\ Program("readStop", m, readStopSteps) /\ Len(readStopSteps) = 1
         /\ Program("writeBlock", m, writeBlockSteps) /\ Len(writeBlockSteps) = 2
         /\ Program("writeStart", m, writeStartSteps) /\ Len(writeStartSteps) = 3
         /\ Program("writeData", m, writeDataSteps) /\ Len(writeDataSteps) = 2
         /\ Program("writeStop", m, writeStopSteps) /\ Len(writeStopSteps) = 3
<1>1. /\ Len(beginSteps) = 4 /\ Len(eraseSteps) = 6 /\ Len(readRegisterSteps) = 2
      /\ Len(readOCRSteps) = 1 /\ Len(readBlockSteps) = 2 /\ Len(readStartSteps) = 1
      /\ Len(readDataSteps) = 1 /\ Len(readStopSteps) = 1 /\ Len(writeBlockSteps) = 2
      /\ Len(writeStartSteps) = 3 /\ Len(writeDataSteps) = 2 /\ Len(writeStopSteps) = 3
  BY DEF beginSteps, eraseSteps, readRegisterSteps, readOCRSteps, readBlockSteps,
     readStartSteps, readDataSteps, readStopSteps, writeBlockSteps, writeStartSteps,
     writeDataSteps, writeStopSteps
<1>2. Program("begin", "unknown", beginSteps)
  BY Zenon DEF Program, Calls, NoCall, newLists
<1>3. ASSUME NEW m
      PROVE  /\ Program("erase", m, eraseSteps) /\ Program("readRegister", m, readRegisterSteps)
             /\ Program("readOCR", m, readOCRSteps) /\ Program("readBlock", m, readBlockSteps)
             /\ Program("readStart", m, readStartSteps) /\ Program("readData", m, readDataSteps)
             /\ Program("readStop", m, readStopSteps) /\ Program("writeBlock", m, writeBlockSteps)
             /\ Program("writeStart", m, writeStartSteps) /\ Program("writeData", m, writeDataSteps)
             /\ Program("writeStop", m, writeStopSteps)
  <2>1. /\ eraseSteps \in eraseLists /\ readRegisterSteps \in readRegisterLists
        /\ readOCRSteps \in readOCRLists /\ readBlockSteps \in readBlockLists
        /\ readStartSteps \in readStartLists /\ readDataSteps \in readDataLists
        /\ readStopSteps \in readStopLists /\ writeBlockSteps \in writeBlockLists
        /\ writeStartSteps \in writeStartLists /\ writeDataSteps \in writeDataLists
        /\ writeStopSteps \in writeStopLists
    BY Zenon DEF eraseLists, readRegisterLists, readOCRLists, readBlockLists, readStartLists,
       readDataLists, readStopLists, writeBlockLists, writeStartLists, writeDataLists,
       writeStopLists
  <2> QED
    BY <2>1 DEF Program, Calls, Reads, NoCall
<1> QED
  BY Zenon, <1>1, <1>2, <1>3

\* begin() is called.
LEMMA BeginStep ==
    ASSUME IInv, Begin
    PROVE  IInv'
<1> USE DEF IInv
<1>1. /\ call' = "begin" /\ steps' = beginSteps /\ block' = 0 /\ last' = 0 /\ src' = Erased
      /\ session' = "closed" /\ session = "closed" /\ call = NoCall
      /\ m_type' = "unknown" /\ m_selected' = FALSE /\ initLate' = FALSE /\ late' = FALSE
      /\ UNCHANGED <<next, got, acked, unsafe, misled, strays, kind, mode, app, at,
                     eraseFrom, eraseTo, busy, programming, store, refused, boots>>
  BY DEF Begin, Start, placeVars, flashVars, ghostVars
<1>2. Left' = 4 /\ Program(call', m_type', steps')
  BY Zenon, <1>1, StartLists DEF Left
<1>3. TypesInv'
  <2>1. CallTypes'
    BY <1>1, SizesAssumption DEF TypesInv, CallTypes, Calls
  <2>2. LinkTypes'
    BY <1>1 DEF LinkTypes
  <2>3. PlaceTypes' /\ FlashTypes' /\ GhostTypes' /\ BoundTypes'
    BY <1>1 DEF TypesInv, PlaceTypes, FlashTypes, GhostTypes, BoundTypes
  <2> QED
    BY Zenon, <2>1, <2>2, <2>3 DEF TypesInv
<1>4. SessionInv' /\ KindInv'
  BY <1>1, <1>2 DEF SessionInv, KindInv, NoCall
<1>5. CardInv' /\ PlaceInv'
  BY <1>1, <1>2 DEF CardInv, PlaceInv, TakePlace, SendPlace, NoCall
<1>6. DoubtInv' /\ WriteInv' /\ EraseInv' /\ ReadInv'
  BY <1>1, <1>2 DEF DoubtInv, WriteInv, EraseInv, ReadInv
<1>7. AcknowledgedIsStored'
  BY <1>1 DEF AcknowledgedIsStored
<1>20. MisledInv'
  BY Zenon, <1>1 DEF MisledInv
<1> QED
  BY Zenon, <1>20, <1>2, <1>3, <1>4, <1>5, <1>6, <1>7 DEF ListsInv

\* erase() is called.
LEMMA EraseStep ==
    ASSUME IInv, Erase
    PROVE  IInv'
<1> USE DEF IInv
<1>1. PICK b \in Blocks : \E x \in b .. LastBlock :
        Start("erase", eraseSteps, b, x, Erased) /\ Doubt(b .. x)
  BY Zenon DEF Erase
<1>0. PICK e \in b .. LastBlock : Start("erase", eraseSteps, b, e, Erased) /\ Doubt(b .. e)
  BY Zenon, <1>1
<1>2. /\ call' = "erase" /\ steps' = eraseSteps /\ block' = b /\ last' = e /\ src' = Erased
      /\ session = "none" /\ call = NoCall /\ late' = FALSE /\ unsafe' = unsafe \ b .. e
      /\ UNCHANGED <<session, next, got, m_selected, m_type, initLate, kind, mode, app, at,
                     eraseFrom, eraseTo, busy, programming, store, misled, refused, boots>>
  BY <1>0 DEF Erase, Start, placeVars, flashVars, driverVars
<1>3. /\ acked' = [x \in Blocks |-> IF x \in b .. e THEN Unknown ELSE acked[x]]
      /\ strays' = strays \ (b .. e)
  BY Zenon, <1>0 DEF Doubt
<1>4. b \in Blocks /\ e \in Blocks /\ b .. e \subseteq Blocks
  BY SizesAssumption DEF Blocks
<1>5. Left' = 6 /\ Program(call', m_type', steps')
  BY Zenon, <1>2, StartLists DEF Left
<1>6. TypesInv'
  <2>1. CallTypes'
    BY <1>2, <1>4, SizesAssumption DEF TypesInv, CallTypes, Calls, Blocks
  <2>2. LinkTypes'
    BY <1>2 DEF TypesInv, LinkTypes
  <2>3. PlaceTypes' /\ FlashTypes' /\ BoundTypes'
    BY <1>2 DEF TypesInv, PlaceTypes, FlashTypes, BoundTypes
  <2>4. GhostTypes'
    BY <1>2, <1>3 DEF TypesInv, GhostTypes
  <2> QED
    BY Zenon, <2>1, <2>2, <2>3, <2>4 DEF TypesInv
<1>7. SessionInv' /\ KindInv'
  BY <1>2, <1>4, <1>5 DEF SessionInv, KindInv, NoCall
<1>8. CardInv' /\ PlaceInv'
  <2>1. CardInv'
    BY <1>2, <1>3 DEF TypesInv, FlashTypes, CardInv
  <2>2. PlaceInv'
    BY <1>2, <1>5 DEF PlaceInv, TakePlace, SendPlace, NoCall
  <2> QED
    BY Zenon, <2>1, <2>2
<1>9. DoubtInv' /\ WriteInv' /\ EraseInv' /\ ReadInv'
  BY <1>2, <1>3, <1>4, <1>5 DEF DoubtInv, WriteInv, EraseInv, ReadInv
<1>10. AcknowledgedIsStored'
  BY <1>2, <1>3 DEF AcknowledgedIsStored
<1>20. MisledInv'
  BY Zenon, <1>2 DEF MisledInv
<1> QED
  BY Zenon, <1>20, <1>5, <1>6, <1>7, <1>8, <1>9, <1>10 DEF ListsInv

\* A call that reads, or that starts or ends a transfer, with its steps and its block: it
\* changes no block.
ReadsWell(c, s, b) ==
    /\ Program(c, m_type, s) /\ Len(s) > 0
    /\ b \in 0 .. LastBlock + 1
    /\ c \in {"readRegister", "readOCR", "readBlock", "readStart", "readData", "readStop",
              "writeStart", "writeStop"}
    /\ c \in {"readRegister", "readOCR", "readBlock", "readStart", "writeStart"}
         => session = "none" /\ b \in Blocks
    /\ c \in {"readData", "readStop"} => session = "reading" /\ b = next
    /\ c = "readData" => b \in Blocks
    /\ c = "writeStop" => session = "writing" /\ Len(s) = 3
    /\ c = "readBlock" => Len(s) = 2

\* Such a call keeps the invariant.
LEMMA StartKeeps ==
    ASSUME IInv, NEW c, NEW s, NEW b, ReadsWell(c, s, b),
           Start(c, s, b, b, Erased), got' \in {got, Unknown},
           UNCHANGED <<driverVars, ghostVars>>
    PROVE  IInv'
<1> USE DEF IInv
<1> USE DEF ReadsWell
<1>2. /\ call' = c /\ steps' = s /\ block' = b /\ last' = b /\ src' = Erased
      /\ late' = FALSE /\ call = NoCall
      /\ UNCHANGED <<session, next, m_selected, m_type, initLate, kind, mode, app, at, acked,
                     unsafe, misled, strays, eraseFrom, eraseTo, busy, programming, store, refused, boots>>
  BY DEF Start, placeVars, flashVars, driverVars, ghostVars
<1>5. Left' = Len(s) /\ Program(call', m_type', steps')
  BY Zenon, <1>2 DEF Left
<1>6. TypesInv'
  <2>1. CallTypes'
    BY <1>2, SizesAssumption DEF TypesInv, CallTypes, Calls, Reads, Blocks
  <2>2. LinkTypes'
    BY <1>2 DEF TypesInv, LinkTypes
  <2>3. PlaceTypes' /\ FlashTypes' /\ GhostTypes' /\ BoundTypes'
    BY <1>2 DEF TypesInv, PlaceTypes, FlashTypes, GhostTypes, BoundTypes
  <2> QED
    BY Zenon, <2>1, <2>2, <2>3 DEF TypesInv
<1>7. SessionInv' /\ KindInv'
  BY <1>2, <1>5 DEF SessionInv, KindInv, NoCall
<1>8. CardInv' /\ PlaceInv'
  <2>1. CardInv'
    BY <1>2 DEF TypesInv, FlashTypes, CardInv
  <2>2. TakePlace'
    <3>1. kind # "gone" => mode # "takeOne"
      BY <1>2 DEF PlaceInv, TakePlace, NoCall
    <3>2. /\ call' = c /\ kind' = kind /\ mode' = mode
          /\ c \notin {NoCall, "writeBlock", "writeData"}
          /\ Left' # 0 /\ (c = "writeStop" => Left' = 3)
      BY <1>2, <1>5 DEF NoCall
    <3> QED
      BY <3>1, <3>2 DEF TakePlace, NoCall
  <2>3. SendPlace'
    BY <1>2, <1>5 DEF PlaceInv, SendPlace, NoCall
  <2> QED
    BY Zenon, <2>1, <2>2, <2>3 DEF PlaceInv
<1>9. DoubtInv' /\ WriteInv' /\ EraseInv' /\ ReadInv'
  BY <1>2, <1>5 DEF DoubtInv, WriteInv, EraseInv, ReadInv
<1>10. AcknowledgedIsStored'
  BY <1>2 DEF AcknowledgedIsStored
<1>20. MisledInv'
  BY Zenon, <1>2 DEF MisledInv
<1> QED
  BY Zenon, <1>20, <1>5, <1>6, <1>7, <1>8, <1>9, <1>10 DEF ListsInv

\* A call that reads is made.
LEMMA ReadStep ==
    ASSUME IInv, Read
    PROVE  IInv'
<1>1. next \in 0 .. LastBlock + 1 /\ 0 \in Blocks /\ Blocks \subseteq 0 .. LastBlock + 1
  BY SizesAssumption DEF IInv, TypesInv, CallTypes, Blocks
<1>2. ASSUME NEW c, NEW s, NEW b, ReadsWell(c, s, b), StartRead(c, s, b)
      PROVE  IInv'
  <2>1. got' \in {got, Unknown}
    BY <1>2 DEF StartRead
  <2>2. Start(c, s, b, b, Erased) /\ UNCHANGED <<driverVars, ghostVars>>
    BY Zenon, <1>2 DEF StartRead
  <2> QED
    BY Zenon, <1>2, <2>1, <2>2, StartKeeps
<1>0. /\ Program("readRegister", m_type, readRegisterSteps) /\ Len(readRegisterSteps) = 2
      /\ Program("readOCR", m_type, readOCRSteps) /\ Len(readOCRSteps) = 1
      /\ Program("readBlock", m_type, readBlockSteps) /\ Len(readBlockSteps) = 2
      /\ Program("readStart", m_type, readStartSteps) /\ Len(readStartSteps) = 1
      /\ Program("readData", m_type, readDataSteps) /\ Len(readDataSteps) = 1
      /\ Program("readStop", m_type, readStopSteps) /\ Len(readStopSteps) = 1
  BY Zenon, StartLists
<1>3. CASE session = "none" /\ StartRead("readRegister", readRegisterSteps, 0)
  <2>1. ReadsWell("readRegister", readRegisterSteps, 0)
    BY <1>0, <1>1, <1>3 DEF ReadsWell
  <2> QED
    BY Zenon, <1>2, <1>3, <2>1
<1>4. CASE session = "none" /\ StartRead("readOCR", readOCRSteps, 0)
  <2>1. ReadsWell("readOCR", readOCRSteps, 0)
    BY <1>0, <1>1, <1>4 DEF ReadsWell
  <2> QED
    BY Zenon, <1>2, <1>4, <2>1
<1>5. CASE session = "none" /\ \E b \in Blocks : StartRead("readBlock", readBlockSteps, b)
  <2>1. PICK b \in Blocks : StartRead("readBlock", readBlockSteps, b)
    BY Zenon, <1>5
  <2>2. ReadsWell("readBlock", readBlockSteps, b)
    BY <1>0, <1>1, <1>5 DEF ReadsWell
  <2> QED
    BY Zenon, <1>2, <2>1, <2>2
<1>6. CASE session = "none" /\ \E b \in Blocks : StartRead("readStart", readStartSteps, b)
  <2>1. PICK b \in Blocks : StartRead("readStart", readStartSteps, b)
    BY Zenon, <1>6
  <2>2. ReadsWell("readStart", readStartSteps, b)
    BY <1>0, <1>1, <1>6 DEF ReadsWell
  <2> QED
    BY Zenon, <1>2, <2>1, <2>2
<1>7. CASE session = "reading" /\ next \in Blocks /\ StartRead("readData", readDataSteps, next)
  <2>1. ReadsWell("readData", readDataSteps, next)
    BY <1>0, <1>1, <1>7 DEF ReadsWell
  <2> QED
    BY Zenon, <1>2, <1>7, <2>1
<1>8. CASE session = "reading" /\ StartRead("readStop", readStopSteps, next)
  <2>1. ReadsWell("readStop", readStopSteps, next)
    BY <1>0, <1>1, <1>8 DEF ReadsWell
  <2> QED
    BY Zenon, <1>2, <1>8, <2>1
<1> QED
  BY Zenon, <1>3, <1>4, <1>5, <1>6, <1>7, <1>8 DEF Read

\* A call that writes a block is made.
LEMMA StartWriteStep ==
    ASSUME IInv, NEW c, NEW s, NEW b \in Blocks,
           \/ c = "writeBlock" /\ session = "none"
           \/ c = "writeData" /\ session = "writing" /\ b = next,
           Program(c, m_type, s), Len(s) = 2, StartWrite(c, s, b)
    PROVE  IInv'
<1> USE DEF IInv
<1>1. PICK d \in Data : Start(c, s, b, b, d)
  BY Zenon DEF StartWrite
<1>2. /\ call' = c /\ steps' = s /\ block' = b /\ last' = b /\ src' = d
      /\ call = NoCall /\ late' = FALSE /\ unsafe' = unsafe \ {b}
      /\ UNCHANGED <<session, next, got, m_selected, m_type, initLate, kind, mode, app, at,
                     eraseFrom, eraseTo, busy, programming, store, misled, refused, boots>>
  BY <1>1 DEF StartWrite, Start, placeVars, flashVars, driverVars
<1>3. /\ acked' = [x \in Blocks |-> IF x \in {b} THEN Unknown ELSE acked[x]]
      /\ strays' = strays \ {b}
  BY Zenon DEF StartWrite, Doubt
<1>5. Left' = 2 /\ Program(call', m_type', steps')
  BY Zenon, <1>2 DEF Left
<1>6. TypesInv'
  <2>1. CallTypes'
    BY <1>2, SizesAssumption DEF TypesInv, CallTypes, Calls, Blocks
  <2>2. LinkTypes'
    BY <1>2 DEF TypesInv, LinkTypes
  <2>3. PlaceTypes' /\ FlashTypes' /\ BoundTypes'
    BY <1>2 DEF TypesInv, PlaceTypes, FlashTypes, BoundTypes
  <2>4. GhostTypes'
    BY <1>2, <1>3 DEF TypesInv, GhostTypes
  <2> QED
    BY Zenon, <2>1, <2>2, <2>3, <2>4 DEF TypesInv
<1>7. SessionInv' /\ KindInv'
  BY <1>2, <1>5 DEF SessionInv, KindInv, NoCall
<1>8. CardInv' /\ PlaceInv'
  <2>1. CardInv'
    BY <1>2, <1>3 DEF TypesInv, FlashTypes, CardInv
  <2>2. TakePlace'
    BY <1>2, <1>5 DEF PlaceInv, TakePlace, NoCall
  <2>3. SendPlace'
    BY <1>2, <1>5 DEF PlaceInv, SendPlace, NoCall
  <2> QED
    BY Zenon, <2>1, <2>2, <2>3 DEF PlaceInv
<1>9. DoubtInv' /\ WriteInv' /\ EraseInv' /\ ReadInv'
  BY <1>2, <1>3, <1>5 DEF DoubtInv, WriteInv, EraseInv, ReadInv
<1>10. AcknowledgedIsStored'
  BY <1>2, <1>3 DEF AcknowledgedIsStored
<1>20. MisledInv'
  BY Zenon, <1>2 DEF MisledInv
<1> QED
  BY Zenon, <1>20, <1>5, <1>6, <1>7, <1>8, <1>9, <1>10 DEF ListsInv

\* A call that writes, or that starts or ends a transfer, is made.
LEMMA WriteStep ==
    ASSUME IInv, Write
    PROVE  IInv'
<1>1. next \in 0 .. LastBlock + 1 /\ Blocks \subseteq 0 .. LastBlock + 1
  BY SizesAssumption DEF IInv, TypesInv, CallTypes, Blocks
<1>2. ASSUME NEW c, NEW s, NEW b, ReadsWell(c, s, b), StartControl(c, s, b)
      PROVE  IInv'
  <2>1. got' \in {got, Unknown}
    BY <1>2 DEF StartControl
  <2>2. Start(c, s, b, b, Erased) /\ UNCHANGED <<driverVars, ghostVars>>
    BY Zenon, <1>2 DEF StartControl
  <2> QED
    BY Zenon, <1>2, <2>1, <2>2, StartKeeps
<1>0. /\ Program("writeBlock", m_type, writeBlockSteps) /\ Len(writeBlockSteps) = 2
      /\ Program("writeStart", m_type, writeStartSteps) /\ Len(writeStartSteps) = 3
      /\ Program("writeData", m_type, writeDataSteps) /\ Len(writeDataSteps) = 2
      /\ Program("writeStop", m_type, writeStopSteps) /\ Len(writeStopSteps) = 3
  BY Zenon, StartLists
<1>3. CASE session = "none" /\ \E b \in Blocks : StartWrite("writeBlock", writeBlockSteps, b)
  BY Zenon, <1>0, <1>3, StartWriteStep
<1>4. CASE session = "none" /\ \E b \in Blocks : StartControl("writeStart", writeStartSteps, b)
  <2>1. PICK b \in Blocks : StartControl("writeStart", writeStartSteps, b)
    BY Zenon, <1>4
  <2>2. ReadsWell("writeStart", writeStartSteps, b)
    BY <1>0, <1>1, <1>4 DEF ReadsWell
  <2> QED
    BY Zenon, <1>2, <2>1, <2>2
<1>5. CASE session = "writing" /\ next \in Blocks /\ StartWrite("writeData", writeDataSteps, next)
  BY Zenon, <1>0, <1>5, StartWriteStep
<1>6. CASE session = "writing" /\ StartControl("writeStop", writeStopSteps, next)
  <2>1. ReadsWell("writeStop", writeStopSteps, next)
    BY <1>0, <1>1, <1>6 DEF ReadsWell
  <2> QED
    BY Zenon, <1>2, <1>6, <2>1
<1> QED
  BY Zenon, <1>3, <1>4, <1>5, <1>6 DEF Write

\* isBusy() finds the card ready: nothing is being programmed.
LEMMA IsBusyStep ==
    ASSUME IInv, IsBusy
    PROVE  IInv'
<1> USE DEF IInv
<1>1. /\ ~busy /\ unsafe' = {}
      /\ UNCHANGED <<call, steps, block, last, src, session, next, got, m_selected, m_type,
                     initLate, late, kind, mode, app, at, eraseFrom, eraseTo, busy,
                     programming, store, acked, misled, strays, refused, boots>>
  BY DEF IsBusy, callVars, driverVars, placeVars, flashVars, boundVars
<1>2. Left' = Left
  BY Zenon, <1>1 DEF Left
<1>3. ListsInv'
  BY Zenon, <1>1 DEF ListsInv
<1>4. TypesInv'
  BY <1>1 DEF TypesInv, CallTypes, LinkTypes, PlaceTypes, FlashTypes, GhostTypes, BoundTypes
<1>5. SessionInv' /\ KindInv'
  BY <1>1, <1>2 DEF SessionInv, KindInv
<1>6. CardInv'
  BY <1>1 DEF CardInv
<1>7. PlaceInv'
  BY <1>1, <1>2 DEF PlaceInv, TakePlace, SendPlace
<1>8. DoubtInv' /\ WriteInv' /\ EraseInv' /\ ReadInv' /\ AcknowledgedIsStored'
  BY <1>1, <1>2 DEF DoubtInv, WriteInv, EraseInv, ReadInv, AcknowledgedIsStored
<1>20. MisledInv'
  BY Zenon, <1>1 DEF MisledInv
<1> QED
  BY Zenon, <1>20, <1>3, <1>4, <1>5, <1>6, <1>7, <1>8

-----------------------------------------------------------------------------
(* How a step of a call ends: the call fails, goes on, or returns. *)

\* What is known of a call from the number of steps it has still to do.
LEMMA CallFits ==
    ASSUME ListsInv
    PROVE  /\ Placed(call, m_type, Left, Head(steps))
           /\ steps = <<>> <=> Left = 0
           /\ steps # <<>> /\ ~(call = "begin" /\ Head(steps) \in {"CMD0", "CMD8", "CMD58"}) =>
                Program(call, m_type, Tail(steps)) /\ Len(Tail(steps)) = Left - 1
<1>1. Fits(call, m_type, steps)
  BY Zenon, ProgramFits DEF ListsInv
<1> QED
  BY <1>1 DEF Fits, Left

\* A call fails; the card has at most left its transfer.
Fails ==
    /\ Fail
    /\ UNCHANGED <<got, m_type, kind, eraseFrom, eraseTo, busy, programming, store, acked,
                   unsafe, strays, boots>>
    /\ misled' \in BOOLEAN /\ (misled' => mode' = "takeMany")
    /\ app' \in BOOLEAN /\ refused' \in 0 .. MaxRefusals
    /\ \/ mode' = mode /\ at' = at
       \/ ~busy /\ mode' = "ready" /\ at' = 0
    /\ kind # "gone" /\ call = "writeBlock" => mode' # "takeOne"

\* A call that fails leaves the bus and the card in order.
LEMMA FailsStep ==
    ASSUME IInv, call # NoCall, Fails
    PROVE  IInv'
<1> USE DEF IInv
<1>1. /\ call' = NoCall /\ steps' = <<>> /\ block' = 0 /\ last' = 0 /\ src' = Erased
      /\ next' = 0 /\ m_selected' = FALSE /\ initLate' = FALSE /\ late' = FALSE
      /\ call # "begin" => session' = "none"
      /\ call = "begin" => session' = "closed"
  BY DEF Fails, Fail, ChipSelectHigh
<1>2. UNCHANGED <<got, m_type, kind, eraseFrom, eraseTo, busy, programming, store, acked,
                  unsafe, strays, boots>>
  BY Zenon DEF Fails
<1>3. \/ mode' = mode /\ at' = at
      \/ ~busy /\ mode' = "ready" /\ at' = 0
  BY Zenon DEF Fails
<1>4. Left' = 0
  BY <1>1 DEF Left
<1>5. ListsInv'
  BY Zenon, <1>1 DEF ListsInv, Program, NoCall, Calls
<1>6. TypesInv'
  <2>1. CallTypes'
    BY <1>1, <1>2, SizesAssumption DEF TypesInv, CallTypes
  <2>4. LinkTypes'
    BY <1>1, <1>2 DEF TypesInv, LinkTypes
  <2>2. PlaceTypes'
    BY <1>2, <1>3, SizesAssumption DEF Fails, TypesInv, PlaceTypes
  <2>3. FlashTypes' /\ GhostTypes' /\ BoundTypes'
    BY <1>2 DEF Fails, TypesInv, FlashTypes, GhostTypes, BoundTypes
  <2> QED
    BY Zenon, <2>1, <2>2, <2>3, <2>4 DEF TypesInv
<1>7. SessionInv'
  BY <1>1, <1>4 DEF SessionInv, NoCall
<1>8. KindInv'
  <2>1. call # "begin" => session # "closed"
    BY DEF SessionInv, TypesInv, CallTypes, Calls, Reads, NoCall
  <2> QED
    BY <1>1, <1>2, <2>1 DEF KindInv, NoCall
<1>9. CardInv'
  BY <1>2, <1>3 DEF CardInv
<1>10. TakePlace'
  <2>1. call # "begin" => session \in {"none", "reading", "writing"}
    BY DEF SessionInv, TypesInv, CallTypes, Calls, Reads, NoCall
  <2>2. kind # "gone" /\ call # "begin" => mode' # "takeOne"
    BY <1>3, <2>1 DEF Fails, PlaceInv, TakePlace
  <2> QED
    BY <1>1, <1>2, <2>2 DEF TakePlace, NoCall
<1>11. SendPlace'
  BY <1>1 DEF SendPlace, NoCall
<1>12. DoubtInv' /\ WriteInv' /\ EraseInv' /\ ReadInv'
  BY <1>1 DEF DoubtInv, WriteInv, EraseInv, ReadInv, NoCall
<1>13. AcknowledgedIsStored'
  BY <1>2 DEF AcknowledgedIsStored
<1>20. MisledInv'
  BY Zenon DEF Fails, MisledInv
<1> QED
  BY Zenon, <1>20, <1>5, <1>6, <1>7, <1>8, <1>9, <1>10, <1>11, <1>12, <1>13 DEF PlaceInv

\* A call goes on with its next step.
LEMMA GoesOn ==
    ASSUME IInv, steps # <<>>, GoOn(Tail(steps)), m_type' = m_type,
           ~(call = "begin" /\ Head(steps) \in {"CMD0", "CMD8", "CMD58"})
    PROVE  /\ ListsInv' /\ Left' = Left - 1 /\ Left \in 1 .. 6
           /\ Placed(call, m_type, Left, Head(steps))
           /\ UNCHANGED <<call, block, last, src, session, next, initLate>> /\ late' = FALSE
<1>1. steps' = Tail(steps) /\ UNCHANGED <<call, block, last, src, session, next, initLate>>
      /\ late' = FALSE
  BY Zenon DEF GoOn
<1>2. /\ Placed(call, m_type, Left, Head(steps)) /\ Left # 0
      /\ Program(call, m_type, Tail(steps)) /\ Len(Tail(steps)) = Left - 1
  BY Zenon, CallFits DEF IInv
<1>3. ListsInv' /\ Left' = Left - 1
  BY <1>1, <1>2 DEF ListsInv, Left
<1>4. Left \in 0 .. 6
  BY Zenon, <1>2 DEF Placed
<1> QED
  BY <1>1, <1>2, <1>3, <1>4

\* A call returns.
LEMMA ReturnStep ==
    ASSUME IInv, Return
    PROVE  IInv'
<1> USE DEF IInv
<1>0. Left = 0 /\ Placed(call, m_type, Left, Head(steps))
  BY Zenon, CallFits DEF Return
<1>1. /\ call' = NoCall /\ steps' = <<>> /\ block' = 0 /\ last' = 0 /\ src' = Erased
      /\ initLate' = FALSE /\ late' = FALSE /\ got' = Unknown /\ call # NoCall
      /\ UNCHANGED <<m_type, kind, mode, app, at, eraseFrom, eraseTo, busy, programming,
                     store, misled, strays, refused, boots>>
  BY DEF Return, Succeed, Vouch, placeVars, flashVars, boundVars
<1>2. /\ call \in {"writeStart", "writeData"} => session' = "writing"
      /\ call \in {"readStart", "readData"} => session' = "reading"
      /\ call \notin {"writeStart", "writeData", "readStart", "readData"} => session' = "none"
  BY DEF Return, Succeed
<1>3. /\ call \in {"writeStart", "readStart"} => next' = block
      /\ call \in {"writeData", "readData"} => next' = block + 1
      /\ call \notin {"writeStart", "writeData", "readStart", "readData"} => next' = 0
  BY DEF Return, Succeed
<1>4. /\ session' \in {"writing", "reading"} => m_selected' = m_selected
      /\ session' \notin {"writing", "reading"} => m_selected' = FALSE
  BY Zenon DEF Return, Succeed, ChipSelectHigh
<1>5. /\ call \in {"writeBlock", "writeData"} => unsafe' = {block}
      /\ call \in {"erase", "writeStop", "readBlock", "readData"} => unsafe' = {}
      /\ call \notin {"writeBlock", "writeData", "erase", "writeStop", "readBlock",
                      "readData"} => unsafe' = unsafe
  BY DEF Return, Vouch
<1>6. acked' = [b \in Blocks |-> IF b \in Vouched THEN src ELSE acked[b]]
  BY Zenon DEF Return, Vouch
<1>19. /\ kind # "gone" /\ call \in {"writeBlock", "writeData"} => Vouched = {block}
       /\ kind # "gone" /\ call = "erase" => Vouched = block .. last
       /\ kind = "gone" \/ call \notin {"writeBlock", "writeData", "erase"} => Vouched = {}
  BY DEF Vouched
<1>7. Left' = 0
  BY <1>1 DEF Left
<1>8. ListsInv'
  BY Zenon, <1>1 DEF ListsInv, Program, NoCall, Calls
<1>9. CallTypes'
  BY <1>1, <1>2, <1>3, SizesAssumption DEF SessionInv, TypesInv, CallTypes, Blocks
<1>10. LinkTypes' /\ PlaceTypes' /\ FlashTypes' /\ BoundTypes'
  BY <1>1, <1>4 DEF TypesInv, LinkTypes, PlaceTypes, FlashTypes, BoundTypes
<1>11. GhostTypes'
  <2>1. unsafe' \subseteq Blocks
    BY <1>5 DEF SessionInv, TypesInv, GhostTypes
  <2>2. \A b \in Blocks : acked'[b] \in Contents \cup {Unknown}
    BY <1>6 DEF TypesInv, GhostTypes, CallTypes, Contents
  <2> QED
    BY <1>1, <1>6, <2>1, <2>2 DEF TypesInv, GhostTypes
<1>12. SessionInv'
  BY <1>0, <1>1, <1>2, <1>4, <1>7 DEF TypesInv, LinkTypes, SessionInv, NoCall
<1>13. KindInv'
  <2>1. CASE call = "begin"
    BY <2>1, <1>0, <1>1 DEF KindInv, NoCall, Placed, TypesInv, LinkTypes
  <2>2. CASE call # "begin"
    BY <2>2, <1>1 DEF KindInv, SessionInv, NoCall, Calls, Reads, TypesInv, CallTypes
  <2> QED
    BY Zenon, <2>1, <2>2
<1>14. CardInv'
  <2>1. ASSUME NEW b \in programming
        PROVE  b \in unsafe' \/ acked'[b] = Unknown \/ b \in strays
    <3>1. b \in Blocks /\ kind # "gone" /\ busy
      BY <2>1 DEF CardInv, TypesInv, FlashTypes
    <3>2. CASE call \in {"writeBlock", "writeData"}
      BY <2>1, <3>1, <3>2, <1>0, <1>5 DEF WriteInv
    <3>3. CASE call \notin {"writeBlock", "writeData"}
      BY <2>1, <3>1, <3>3, <1>0, <1>5, <1>6, <1>19 DEF CardInv, DoubtInv
    <3> QED
      BY Zenon, <3>2, <3>3
  <2> QED
    BY <1>1, <2>1 DEF CardInv
<1>15. TakePlace'
  <2>1. CASE call \in {"writeStart", "writeData"}
    BY <2>1, <1>0, <1>1, <1>2, <1>3 DEF SessionInv, PlaceInv, TakePlace, NoCall
  <2>2. CASE call \notin {"writeStart", "writeData"}
    <3>1. kind # "gone" => mode # "takeOne"
      BY <2>2, <1>0, <1>1 DEF SessionInv, KindInv, PlaceInv, TakePlace, Calls, Reads,
         NoCall, TypesInv, CallTypes
    <3>2. session' # "writing"
      BY <2>2, <1>2
    <3> QED
      BY <3>1, <3>2, <1>1 DEF TakePlace, NoCall
  <2> QED
    BY Zenon, <2>1, <2>2
<1>16. SendPlace'
  BY <1>0, <1>1, <1>2, <1>3 DEF SessionInv, PlaceInv, SendPlace, Sends, NoCall
<1>17. DoubtInv' /\ WriteInv' /\ EraseInv' /\ ReadInv'
  BY <1>1 DEF DoubtInv, WriteInv, EraseInv, ReadInv, NoCall
<1>18. AcknowledgedIsStored'
  <2>1. ASSUME NEW b \in Blocks, b \notin strays, acked'[b] # Unknown
        PROVE  store[b] = acked'[b]
    <3>1. CASE b \notin Vouched
      BY <2>1, <3>1, <1>6 DEF AcknowledgedIsStored
    <3>2. CASE b \in Vouched /\ call = "erase"
      <4>1. kind # "gone" /\ b \in block .. last
        BY <3>2, <1>19
      <4>2. store[b] = Erased /\ src = Erased
        BY <3>2, <4>1, <1>0 DEF EraseInv, DoubtInv
      <4> QED
        BY <2>1, <3>2, <4>2, <1>6
    <3>3. CASE b \in Vouched /\ call # "erase"
      BY <2>1, <3>3, <1>0, <1>6, <1>19 DEF WriteInv
    <3> QED
      BY Zenon, <3>1, <3>2, <3>3
  <2> QED
    BY <1>1, <2>1 DEF AcknowledgedIsStored
<1>20. MisledInv'
  BY Zenon, <1>1 DEF MisledInv
<1> QED
  BY Zenon, <1>20, <1>8, <1>9, <1>10, <1>11, <1>12, <1>13, <1>14, <1>15, <1>16, <1>17, <1>18
     DEF TypesInv, PlaceInv

-----------------------------------------------------------------------------
(* Data and waits. *)

\* A call that has steps to do is a call.
LEMMA StepsAreOfCalls ==
    ASSUME IInv, steps # <<>>
    PROVE  call # NoCall
  BY Zenon DEF IInv, ListsInv, Program

\* A block, or a register, does not come.
LEMMA NoDataStep ==
    ASSUME IInv, NoData \/ WaitTimesOut
    PROVE  IInv'
<1>1. steps # <<>> /\ Fail /\ UNCHANGED <<got, m_type, kind, placeVars, flashVars,
                                         ghostVars, boundVars>>
  BY Zenon DEF NoData, WaitTimesOut
<1>3. misled' \in BOOLEAN /\ (misled' => mode' = "takeMany")
  BY Zenon, <1>1 DEF IInv, MisledInv, placeVars, ghostVars
<1>4. kind # "gone" /\ call = "writeBlock" => mode # "takeOne"
  <2>1. Head(steps) \in {"data", "csd", "wait"} /\ Placed(call, m_type, Left, Head(steps))
        /\ Left # 0
    BY Zenon, <1>1, CallFits DEF NoData, WaitTimesOut, IInv
  <2> QED
    BY <2>1 DEF Placed
<1>2. Fails
  BY <1>1, <1>3, <1>4 DEF Fails, placeVars, flashVars, ghostVars, boundVars, IInv, TypesInv,
     PlaceTypes, BoundTypes
<1> QED
  BY Zenon, <1>1, <1>2, FailsStep, StepsAreOfCalls

\* A block of data comes: it is the one that the card is at.
LEMMA DataComesStep ==
    ASSUME IInv, DataComes
    PROVE  IInv'
<1> USE DEF IInv
<1>1. /\ steps # <<>> /\ Head(steps) = "data" /\ GoOn(Tail(steps)) /\ m_type' = m_type
      /\ mode \in Sends /\ kind # "gone" /\ ~busy /\ got' = store[at]
      /\ UNCHANGED <<m_selected, kind, app, eraseFrom, eraseTo, busy, programming, store,
                     acked, unsafe, misled, strays, refused, boots>>
  BY DEF DataComes, Sending, Sends, Enter, flashVars, ghostVars, boundVars
<1>2. /\ mode = "sendMany" => mode' = mode /\ at' = at + 1
      /\ mode # "sendMany" => mode' = "ready" /\ at' = 0
  BY DEF DataComes, Enter
<1>3. /\ ListsInv' /\ Left' = Left - 1 /\ Left \in 1 .. 6
      /\ Placed(call, m_type, Left, Head(steps))
      /\ UNCHANGED <<call, block, last, src, session, next, initLate>> /\ late' = FALSE
  BY Zenon, <1>1, GoesOn
<1>4. call \in {"readBlock", "readData"} /\ Left = 1
  BY <1>1, <1>3 DEF Placed, TypesInv, CallTypes, Calls, Reads, LinkTypes
<1>5. at = block /\ block \in Blocks
  BY <1>1, <1>4 DEF SessionInv, PlaceInv, SendPlace
<1>6. TypesInv'
  <2>1. CallTypes'
    <3>1. got' \in Contents
      BY <1>1, <1>5 DEF TypesInv, FlashTypes
    <3> QED
      BY <3>1, <1>3 DEF TypesInv, CallTypes
  <2>2. LinkTypes'
    BY <1>1, <1>3 DEF TypesInv, LinkTypes
  <2>3. PlaceTypes'
    BY <1>1, <1>2, <1>5, SizesAssumption DEF TypesInv, PlaceTypes, Blocks
  <2>4. FlashTypes' /\ GhostTypes' /\ BoundTypes'
    BY <1>1 DEF TypesInv, FlashTypes, GhostTypes, BoundTypes
  <2> QED
    BY Zenon, <2>1, <2>2, <2>3, <2>4 DEF TypesInv
<1>7. SessionInv' /\ KindInv'
  BY <1>1, <1>3, <1>4 DEF SessionInv, KindInv, NoCall
<1>8. CardInv'
  BY <1>1 DEF CardInv
<1>9. TakePlace'
  BY <1>1, <1>2, <1>3, <1>4 DEF SessionInv, TakePlace, Sends
<1>10. SendPlace'
  BY <1>1, <1>2, <1>3, <1>4, <1>5 DEF SendPlace, Sends, NoCall
<1>11. DoubtInv' /\ WriteInv' /\ EraseInv'
  BY <1>1, <1>3, <1>4 DEF DoubtInv, WriteInv, EraseInv
<1>12. ReadInv' /\ AcknowledgedIsStored'
  <2>1. ReadInv'
    BY <1>1, <1>3, <1>5 DEF ReadInv
  <2>2. AcknowledgedIsStored'
    BY <1>1 DEF AcknowledgedIsStored
  <2> QED
    BY Zenon, <2>1, <2>2
<1>20. MisledInv'
  <2>1. ~misled
    BY Zenon, <1>1 DEF MisledInv, Sends
  <2> QED
    BY Zenon, <1>1, <2>1 DEF MisledInv
<1> QED
  BY Zenon, <1>20, <1>3, <1>6, <1>7, <1>8, <1>9, <1>10, <1>11, <1>12 DEF PlaceInv

\* The register comes.
LEMMA ReadCsdStep ==
    ASSUME IInv, ReadCsd
    PROVE  IInv'
<1> USE DEF IInv
<1>1. /\ steps # <<>> /\ Head(steps) = "csd" /\ m_type' = m_type
      /\ kind # "gone" /\ ~busy /\ mode' = "ready" /\ at' = 0
      /\ UNCHANGED <<got, kind, app, eraseFrom, eraseTo, busy, programming, store,
                     acked, unsafe, misled, strays, refused, boots>>
  BY DEF ReadCsd, Sending, Enter, flashVars, ghostVars, boundVars
<1>2. Fail \/ (GoOn(Tail(steps)) /\ ChipSelectHigh)
  BY Zenon DEF ReadCsd
<1>5. ~misled
  BY DEF ReadCsd, Sending, MisledInv
<1>3. CASE Fail
  <2>1. Fails
    <3>1. misled' \in BOOLEAN /\ (misled' => mode' = "takeMany")
      BY Zenon, <1>1, <1>5 DEF MisledInv
    <3> QED
      BY <1>1, <1>3, <3>1 DEF Fails, TypesInv, PlaceTypes, BoundTypes
  <2> QED
    BY Zenon, <1>1, <2>1, FailsStep, StepsAreOfCalls
<1>4. CASE GoOn(Tail(steps)) /\ ChipSelectHigh
  <2>1. m_selected' = FALSE
    BY Zenon, <1>4 DEF ChipSelectHigh
  <2>2. /\ ListsInv' /\ Left' = Left - 1 /\ Left \in 1 .. 6
        /\ Placed(call, m_type, Left, Head(steps))
        /\ UNCHANGED <<call, block, last, src, session, next, initLate>> /\ late' = FALSE
    BY Zenon, <1>1, <1>4, GoesOn
  <2>3. \/ call = "erase" /\ Left = 5
        \/ call = "readRegister" /\ Left = 1
    BY <1>1, <2>2 DEF Placed, TypesInv, CallTypes, Calls, Reads, LinkTypes
  <2>6. TypesInv'
    <3>1. CallTypes' /\ FlashTypes' /\ GhostTypes' /\ BoundTypes'
      BY <1>1, <2>2 DEF TypesInv, CallTypes, FlashTypes, GhostTypes, BoundTypes
    <3>2. LinkTypes'
      BY <1>1, <2>1, <2>2 DEF TypesInv, LinkTypes
    <3>3. PlaceTypes'
      BY <1>1, SizesAssumption DEF TypesInv, PlaceTypes
    <3> QED
      BY Zenon, <3>1, <3>2, <3>3 DEF TypesInv
  <2>7. SessionInv' /\ KindInv'
    BY <1>1, <2>1, <2>2, <2>3 DEF SessionInv, KindInv, NoCall
  <2>8. CardInv'
    BY <1>1 DEF CardInv
  <2>10. MisledInv'
    BY Zenon, <1>1, <1>5 DEF MisledInv
  <2>9. PlaceInv'
    BY <1>1, <2>2, <2>3 DEF SessionInv, PlaceInv, TakePlace, SendPlace, Sends
  <2>11. DoubtInv' /\ WriteInv' /\ EraseInv' /\ ReadInv' /\ AcknowledgedIsStored'
    BY <1>1, <2>2, <2>3 DEF DoubtInv, WriteInv, EraseInv, ReadInv, AcknowledgedIsStored
  <2> QED
    BY Zenon, <2>2, <2>6, <2>7, <2>8, <2>9, <2>10, <2>11
<1> QED
  BY Zenon, <1>2, <1>3, <1>4

\* The card is ready at the end of a wait.
LEMMA WaitEndsStep ==
    ASSUME IInv, WaitEnds
    PROVE  IInv'
<1> USE DEF IInv
<1>1. /\ steps # <<>> /\ Head(steps) = "wait" /\ GoOn(Tail(steps)) /\ m_type' = m_type
      /\ UNCHANGED <<got, m_selected, kind, mode, app, at, eraseFrom, eraseTo, busy,
                     programming, store, acked, unsafe, misled, strays, refused, boots>>
  BY DEF WaitEnds, placeVars, flashVars, ghostVars, boundVars
<1>2. ~busy
  BY DEF WaitEnds, Ready, CardInv
<1>3. /\ ListsInv' /\ Left' = Left - 1 /\ Left \in 1 .. 6
      /\ Placed(call, m_type, Left, Head(steps))
      /\ UNCHANGED <<call, block, last, src, session, next, initLate>> /\ late' = FALSE
  BY Zenon, <1>1, GoesOn
<1>4. \/ call = "erase" /\ Left = 1
      \/ call = "writeData" /\ Left = 2
      \/ call = "writeStop" /\ Left \in {1, 3}
  BY <1>1, <1>3 DEF Placed, TypesInv, CallTypes, Calls, Reads, LinkTypes
<1>5. TypesInv'
  <2>1. CallTypes' /\ PlaceTypes' /\ FlashTypes' /\ GhostTypes' /\ BoundTypes'
    BY <1>1, <1>3 DEF TypesInv, CallTypes, PlaceTypes, FlashTypes, GhostTypes, BoundTypes
  <2>2. LinkTypes'
    BY <1>1, <1>3 DEF TypesInv, LinkTypes
  <2> QED
    BY Zenon, <2>1, <2>2 DEF TypesInv
<1>6. SessionInv' /\ KindInv'
  BY <1>1, <1>3, <1>4 DEF SessionInv, KindInv, NoCall
<1>7. CardInv'
  BY <1>1 DEF CardInv
<1>8. PlaceInv'
  BY <1>1, <1>2, <1>3, <1>4 DEF SessionInv, PlaceInv, TakePlace, SendPlace, NoCall
<1>9. DoubtInv' /\ WriteInv' /\ EraseInv' /\ ReadInv' /\ AcknowledgedIsStored'
  BY <1>1, <1>2, <1>3, <1>4 DEF DoubtInv, WriteInv, EraseInv, ReadInv, AcknowledgedIsStored
<1>20. MisledInv'
  BY Zenon, <1>1 DEF MisledInv
<1> QED
  BY Zenon, <1>20, <1>3, <1>5, <1>6, <1>7, <1>8, <1>9

\* A block is sent: the card takes it at the place that the driver means, or not at all.
LEMMA SendDataStep ==
    ASSUME IInv, SendData
    PROVE  IInv'
<1> USE DEF IInv
<1>1. /\ steps # <<>> /\ Head(steps) \in {"oneToken", "nextToken"}
      /\ UNCHANGED <<got, m_type, kind, app, acked, unsafe, misled, boots>>
  BY DEF SendData
<1>2. \/ RefuseBlock /\ Fail /\ strays' = strays
      \/ /\ TakeBlock /\ GoOn(Tail(steps)) /\ UNCHANGED m_selected
         /\ strays' = IF misled THEN strays \cup {at, block} ELSE strays
  BY DEF SendData, Accepted
<1>3. CASE RefuseBlock /\ Fail /\ strays' = strays
  <2>1. /\ UNCHANGED <<eraseFrom, eraseTo, busy, programming, store>>
        /\ refused' \in 0 .. MaxRefusals
    BY <1>3, BoundsAssumption
       DEF RefuseBlock, Stay, Enter, flashVars, TypesInv, BoundTypes
  <2>2. \/ mode' = mode /\ at' = at
        \/ ~busy /\ mode' = "ready" /\ at' = 0 /\ mode = "takeOne"
    BY Zenon, <1>3 DEF RefuseBlock, Stay, Enter, CanTake
  <2>5. misled' \in BOOLEAN /\ (misled' => mode' = "takeMany")
    BY <1>1, <2>2 DEF MisledInv
  <2>6. kind # "gone" /\ call = "writeBlock" => mode' # "takeOne"
    <3>1. Placed(call, m_type, Left, Head(steps)) /\ Left # 0
      BY Zenon, <1>1, CallFits
    <3>2. call = "writeBlock" => Head(steps) = "oneToken"
      BY <1>1, <3>1 DEF Placed
    <3>3. kind # "gone" /\ mode = "takeOne" => ~busy /\ (call = "writeBlock" => at \in Blocks)
      BY DEF CardInv, SessionInv, PlaceInv, TakePlace
    <3> QED
      BY <1>3, <3>2, <3>3 DEF RefuseBlock, CanTake, TokenFits, Stay, Enter
  <2>3. app' \in BOOLEAN
    BY <1>1 DEF TypesInv, PlaceTypes
  <2>4. Fails
    BY <1>1, <1>3, <2>1, <2>2, <2>3, <2>5, <2>6 DEF Fails
  <2> QED
    BY Zenon, <1>1, <2>4, FailsStep, StepsAreOfCalls
<1>4. CASE /\ TakeBlock /\ GoOn(Tail(steps)) /\ UNCHANGED m_selected
           /\ strays' = IF misled THEN strays \cup {at, block} ELSE strays
  <2>1. /\ ~busy /\ kind # "gone" /\ at \in Blocks
        /\ Head(steps) = "oneToken" => mode = "takeOne"
        /\ Head(steps) # "oneToken" => mode = "takeMany"
    BY <1>4 DEF TakeBlock, CanTake, TokenFits
  <2>2. /\ store' = [store EXCEPT ![at] = src]
        /\ programming' = {at} /\ busy' = TRUE /\ refused' = refused
        /\ UNCHANGED <<eraseFrom, eraseTo, m_selected>>
        /\ mode = "takeOne" => mode' = "ready" /\ at' = 0
        /\ mode # "takeOne" => mode' = mode /\ at' = at + 1
    BY <1>4 DEF TakeBlock, AfterBlock, Enter
  <2>3. /\ ListsInv' /\ Left' = Left - 1 /\ Left \in 1 .. 6
        /\ Placed(call, m_type, Left, Head(steps))
        /\ UNCHANGED <<call, block, last, src, session, next, initLate>> /\ late' = FALSE
    BY Zenon, <1>1, <1>4, GoesOn
  <2>4. /\ Left = 1
        /\ \/ call = "writeBlock" /\ mode = "takeOne"
           \/ call = "writeData" /\ mode = "takeMany"
    BY <1>1, <2>1, <2>3 DEF Placed, TypesInv, CallTypes, Calls, Reads, LinkTypes
  <2>5. /\ ~misled => at = block
        /\ block \in Blocks /\ acked[block] = Unknown
    BY <2>1, <2>4 DEF SessionInv, PlaceInv, TakePlace, DoubtInv, MisledInv
  <2>0. /\ misled => strays' = strays \cup {at, block}
        /\ ~misled => strays' = strays
    BY <1>4
  <2>6. TypesInv'
    <3>1. CallTypes'
      BY <1>1, <2>3 DEF TypesInv, CallTypes
    <3>2. LinkTypes'
      BY <1>1, <2>2, <2>3 DEF TypesInv, LinkTypes
    <3>3. PlaceTypes'
      BY <1>1, <2>1, <2>2, SizesAssumption DEF TypesInv, PlaceTypes, Blocks
    <3>4. FlashTypes'
      <4>1. src \in Contents
        BY DEF TypesInv, CallTypes, Contents
      <4> QED
        BY <2>1, <2>2, <4>1 DEF TypesInv, FlashTypes
    <3>5. GhostTypes' /\ BoundTypes'
      BY <1>1, <2>0, <2>1, <2>2, <2>5 DEF TypesInv, GhostTypes, BoundTypes
    <3> QED
      BY Zenon, <3>1, <3>2, <3>3, <3>4, <3>5 DEF TypesInv
  <2>7. SessionInv' /\ KindInv'
    BY <1>1, <2>2, <2>3, <2>4 DEF SessionInv, KindInv, NoCall
  <2>8. CardInv'
    BY <1>1, <2>0, <2>1, <2>2, <2>4, <2>5 DEF CardInv
  <2>13. MisledInv'
    BY <1>1, <2>1, <2>2, <2>4 DEF MisledInv
  <2>9. PlaceInv'
    BY <1>1, <2>2, <2>3, <2>4, <2>5 DEF SessionInv, PlaceInv, TakePlace, SendPlace,
       Sends, NoCall
  <2>10. DoubtInv' /\ EraseInv' /\ ReadInv'
    BY <1>1, <2>3, <2>4, <2>5 DEF DoubtInv, EraseInv, ReadInv
  <2>11. WriteInv'
    BY <1>1, <2>0, <2>2, <2>3, <2>5 DEF WriteInv, TypesInv, FlashTypes
  <2>12. AcknowledgedIsStored'
    BY <1>1, <2>0, <2>2, <2>5 DEF AcknowledgedIsStored, TypesInv, FlashTypes
  <2> QED
    BY Zenon, <2>3, <2>6, <2>7, <2>13, <2>8, <2>9, <2>10, <2>11, <2>12
<1> QED
  BY Zenon, <1>2, <1>3, <1>4

\* The stop token is sent.
LEMMA SendStopStep ==
    ASSUME IInv, SendStop
    PROVE  IInv'
<1> USE DEF IInv
<1>1. /\ steps # <<>> /\ Head(steps) = "stopToken" /\ GoOn(Tail(steps)) /\ m_type' = m_type
      /\ UNCHANGED <<got, m_selected, kind, app, eraseFrom, eraseTo, programming, store,
                     acked, unsafe, strays, refused, boots>>
      /\ misled' = (misled /\ mode' = "takeMany")
  BY DEF SendStop, Stay, Enter, ghostVars, boundVars
<1>2. /\ mode = "takeMany" /\ ~busy /\ kind # "gone" =>
           mode' = "ready" /\ at' = 0 /\ busy' \in BOOLEAN
      /\ ~(mode = "takeMany" /\ ~busy /\ kind # "gone") =>
           mode' = mode /\ at' = at /\ busy' = busy
  BY Zenon DEF SendStop, Stay, Enter
<1>3. /\ ListsInv' /\ Left' = Left - 1 /\ Left \in 1 .. 6
      /\ Placed(call, m_type, Left, Head(steps))
      /\ UNCHANGED <<call, block, last, src, session, next, initLate>> /\ late' = FALSE
  BY Zenon, <1>1, GoesOn
<1>4. call = "writeStop" /\ Left = 2
  BY <1>1, <1>3 DEF Placed, TypesInv, CallTypes, Calls, Reads, LinkTypes
<1>5. TypesInv'
  <2>1. CallTypes' /\ GhostTypes' /\ BoundTypes'
    BY <1>1, <1>3 DEF TypesInv, CallTypes, GhostTypes, BoundTypes
  <2>2. LinkTypes'
    BY <1>1, <1>3 DEF TypesInv, LinkTypes
  <2>3. PlaceTypes'
    BY <1>1, <1>2, SizesAssumption DEF TypesInv, PlaceTypes
  <2>4. FlashTypes'
    BY <1>1, <1>2 DEF TypesInv, FlashTypes
  <2> QED
    BY Zenon, <2>1, <2>2, <2>3, <2>4 DEF TypesInv
<1>6. SessionInv' /\ KindInv'
  BY <1>1, <1>3, <1>4 DEF SessionInv, KindInv, NoCall
<1>7. CardInv'
  BY <1>1, <1>2 DEF CardInv
<1>8. PlaceInv'
  BY <1>1, <1>2, <1>3, <1>4 DEF SessionInv, PlaceInv, TakePlace, SendPlace, NoCall
<1>9. DoubtInv' /\ WriteInv' /\ EraseInv' /\ ReadInv' /\ AcknowledgedIsStored'
  BY <1>1, <1>3, <1>4 DEF DoubtInv, WriteInv, EraseInv, ReadInv, AcknowledgedIsStored
<1>20. MisledInv'
  BY Zenon, <1>1 DEF MisledInv
<1> QED
  BY Zenon, <1>20, <1>3, <1>5, <1>6, <1>7, <1>8, <1>9

-----------------------------------------------------------------------------
(* The card, the clock, and what goes wrong. *)

\* The card has finished.
LEMMA CardReadyStep ==
    ASSUME IInv, CardReady
    PROVE  IInv'
<1> USE DEF IInv
<1>1. /\ busy' = FALSE /\ programming' = {}
      /\ UNCHANGED <<call, steps, block, last, src, session, next, got, m_selected, m_type,
                     initLate, late, kind, mode, app, at, eraseFrom, eraseTo,
                     store, acked, unsafe, misled, strays, refused, boots>>
  BY DEF CardReady, callVars, driverVars, placeVars, ghostVars, boundVars
<1>2. Left' = Left
  BY Zenon, <1>1 DEF Left
<1>3. ListsInv'
  BY Zenon, <1>1 DEF ListsInv
<1>4. TypesInv'
  <2>1. CallTypes' /\ PlaceTypes' /\ GhostTypes' /\ BoundTypes'
    BY <1>1 DEF TypesInv, CallTypes, PlaceTypes, GhostTypes, BoundTypes
  <2>2. LinkTypes'
    BY <1>1 DEF TypesInv, LinkTypes
  <2>3. FlashTypes'
    BY <1>1 DEF TypesInv, FlashTypes
  <2> QED
    BY Zenon, <2>1, <2>2, <2>3 DEF TypesInv
<1>5. SessionInv' /\ KindInv'
  BY <1>1, <1>2 DEF SessionInv, KindInv
<1>6. CardInv'
  BY <1>1 DEF CardInv
<1>7. PlaceInv'
  BY <1>1, <1>2 DEF PlaceInv, TakePlace, SendPlace
<1>8. DoubtInv' /\ WriteInv' /\ EraseInv' /\ ReadInv' /\ AcknowledgedIsStored'
  BY <1>1, <1>2 DEF DoubtInv, WriteInv, EraseInv, ReadInv, AcknowledgedIsStored
<1>20. MisledInv'
  BY Zenon, <1>1 DEF MisledInv
<1> QED
  BY Zenon, <1>20, <1>3, <1>4, <1>5, <1>6, <1>7, <1>8

\* A step, or begin(), has used up its time.
LEMMA TimeStep ==
    ASSUME IInv, Time
    PROVE  IInv'
<1> USE DEF IInv
<1>1. /\ initLate' \in BOOLEAN /\ late' \in BOOLEAN
      /\ UNCHANGED <<call, steps, block, last, src, session, next, got, m_selected, m_type,
                     kind, mode, app, at, eraseFrom, eraseTo, busy, programming, store,
                     acked, unsafe, misled, strays, refused, boots>>
  BY DEF Time, StepIsLate, InitIsLate, TypesInv, LinkTypes, callVars, driverVars, placeVars,
     flashVars, ghostVars, boundVars
<1>2. Left' = Left
  BY Zenon, <1>1 DEF Left
<1>3. ListsInv'
  BY Zenon, <1>1 DEF ListsInv
<1>4. TypesInv'
  BY <1>1 DEF TypesInv, CallTypes, LinkTypes, PlaceTypes, FlashTypes, GhostTypes, BoundTypes
<1>5. SessionInv' /\ KindInv'
  BY <1>1, <1>2 DEF SessionInv, KindInv
<1>6. CardInv'
  BY <1>1 DEF CardInv
<1>7. PlaceInv'
  BY <1>1, <1>2 DEF PlaceInv, TakePlace, SendPlace
<1>8. DoubtInv' /\ WriteInv' /\ EraseInv' /\ ReadInv' /\ AcknowledgedIsStored'
  BY <1>1, <1>2 DEF DoubtInv, WriteInv, EraseInv, ReadInv, AcknowledgedIsStored
<1>20. MisledInv'
  BY Zenon, <1>1 DEF MisledInv
<1> QED
  BY Zenon, <1>20, <1>3, <1>4, <1>5, <1>6, <1>7, <1>8

\* A card without power: what it was programming is in doubt.
LEMMA LosesPower ==
    ASSUME IInv, CardLosesPower, kind' \in {kind, "gone"}
    PROVE  PlaceTypes' /\ FlashTypes' /\ GhostTypes' /\ CardInv' /\ AcknowledgedIsStored'
<1> USE DEF IInv
<1>1. /\ mode' = "off" /\ app' = FALSE /\ at' = 0 /\ eraseFrom' = 0 /\ eraseTo' = 0
      /\ busy' = FALSE /\ programming' = {} /\ unsafe' = {} /\ misled' = FALSE
      /\ store' = [b \in Blocks |-> IF b \in programming THEN Damaged ELSE store[b]]
      /\ acked' = [b \in Blocks |-> IF b \in unsafe THEN Unknown ELSE acked[b]]
      /\ strays' = strays \ unsafe
  BY Zenon DEF CardLosesPower, Doubt
<1>2. 0 \in Blocks
  BY SizesAssumption DEF Blocks
<1>7. kind' \in {"SD1", "SD2", "SDHC", "gone"}
  BY DEF TypesInv, PlaceTypes
<1>3. PlaceTypes'
  <2>1. at' \in 0 .. LastBlock + 1
    BY <1>1, SizesAssumption
  <2>3. app' \in BOOLEAN
    BY Zenon, <1>1
  <2>2. eraseFrom' \in Blocks /\ eraseTo' \in Blocks
    BY <1>1, <1>2
  <2> QED
    BY <1>1, <1>7, <2>1, <2>2, <2>3 DEF PlaceTypes
<1>4. FlashTypes' /\ GhostTypes'
  BY <1>1 DEF TypesInv, FlashTypes, GhostTypes, Contents
<1>5. CardInv'
  BY <1>1 DEF CardInv
<1>6. AcknowledgedIsStored'
  BY <1>1 DEF CardInv, AcknowledgedIsStored
<1> QED
  BY Zenon, <1>3, <1>4, <1>5, <1>6

\* The driver starts anew: alone, or because power has failed.
LEMMA ResetStep ==
    ASSUME IInv, DriverResets \/ PowerFails
    PROVE  IInv'
<1> USE DEF IInv
<1>1. /\ call' = NoCall /\ steps' = <<>> /\ block' = 0 /\ last' = 0 /\ src' = Erased
      /\ session' = "closed" /\ next' = 0 /\ got' = Unknown
      /\ m_selected' = FALSE /\ m_type' = "unknown" /\ initLate' = FALSE /\ late' = FALSE
      /\ UNCHANGED <<kind, refused>>
  BY Zenon DEF DriverResets, PowerFails, Reset
<1>2. boots' \in 0 .. MaxBoots
  BY BoundsAssumption DEF DriverResets, PowerFails, Reset, TypesInv, BoundTypes
<1>3. \/ UNCHANGED <<mode, app, at, eraseFrom, eraseTo, busy, programming, store, acked, unsafe,
                     misled, strays>>
      \/ PowerFails
  BY DEF DriverResets, placeVars, flashVars, ghostVars
<1>4. Left' = 0
  BY <1>1 DEF Left
<1>5. ListsInv'
  BY Zenon, <1>1 DEF ListsInv, Program, NoCall, Calls
<1>6. CallTypes' /\ LinkTypes' /\ BoundTypes'
  <2>1. CallTypes'
    BY <1>1, SizesAssumption DEF CallTypes
  <2>2. LinkTypes' /\ BoundTypes'
    BY <1>1, <1>2 DEF TypesInv, LinkTypes, BoundTypes
  <2> QED
    BY Zenon, <2>1, <2>2
<1>7. SessionInv' /\ KindInv'
  BY <1>1, <1>4 DEF SessionInv, KindInv, NoCall
<1>8. PlaceInv'
  BY <1>1 DEF PlaceInv, TakePlace, SendPlace, NoCall
<1>9. DoubtInv' /\ WriteInv' /\ EraseInv' /\ ReadInv'
  BY <1>1 DEF DoubtInv, WriteInv, EraseInv, ReadInv, NoCall
<1>10. CASE UNCHANGED <<mode, app, at, eraseFrom, eraseTo, busy, programming, store, acked,
                        unsafe, misled, strays>>
  <2>1. PlaceTypes' /\ FlashTypes' /\ GhostTypes'
    BY <1>1, <1>10 DEF TypesInv, PlaceTypes, FlashTypes, GhostTypes
  <2>2. CardInv' /\ AcknowledgedIsStored'
    BY <1>1, <1>10 DEF CardInv, AcknowledgedIsStored
  <2>3. MisledInv'
    BY Zenon, <1>10 DEF MisledInv
  <2> QED
    BY Zenon, <2>3, <1>5, <1>6, <1>7, <1>8, <1>9, <2>1, <2>2 DEF TypesInv
<1>11. CASE PowerFails
  <2>1. /\ CardLosesPower
        /\ PlaceTypes' /\ FlashTypes' /\ GhostTypes' /\ CardInv' /\ AcknowledgedIsStored'
    BY Zenon, <1>1, <1>11, LosesPower DEF PowerFails
  <2>2. MisledInv'
    BY Zenon, <2>1 DEF CardLosesPower, MisledInv
  <2> QED
    BY Zenon, <1>5, <1>6, <1>7, <1>8, <1>9, <2>1, <2>2 DEF TypesInv
<1> QED
  BY Zenon, <1>3, <1>10, <1>11

\* The card is pulled out.
LEMMA CardIsPulledStep ==
    ASSUME IInv, CardIsPulled
    PROVE  IInv'
<1> USE DEF IInv
<1>0. CardLosesPower /\ kind' = "gone"
  BY Zenon DEF CardIsPulled
<1>1. UNCHANGED <<call, steps, block, last, src, session, next, got, m_selected, m_type,
                  initLate, late, refused>>
  BY DEF CardIsPulled, callVars, driverVars
<1>2. boots' \in 0 .. MaxBoots
  BY BoundsAssumption DEF CardIsPulled, TypesInv, BoundTypes
<1>3. Left' = Left
  BY Zenon, <1>1 DEF Left
<1>4. ListsInv'
  BY Zenon, <1>1 DEF ListsInv
<1>5. CallTypes' /\ LinkTypes' /\ BoundTypes'
  BY <1>1, <1>2 DEF TypesInv, CallTypes, LinkTypes, BoundTypes
<1>6. PlaceTypes' /\ FlashTypes' /\ GhostTypes' /\ CardInv' /\ AcknowledgedIsStored'
  BY <1>0, LosesPower
<1>7. SessionInv' /\ KindInv' /\ PlaceInv' /\ WriteInv' /\ EraseInv'
  BY <1>0, <1>1, <1>3
     DEF SessionInv, KindInv, PlaceInv, TakePlace, SendPlace, WriteInv, EraseInv
<1>8. /\ acked' = [b \in Blocks |-> IF b \in unsafe THEN Unknown ELSE acked[b]]
      /\ store' = [b \in Blocks |-> IF b \in programming THEN Damaged ELSE store[b]]
      /\ busy' = FALSE
  BY Zenon, <1>0 DEF CardLosesPower, Doubt
<1>9. DoubtInv'
  BY <1>1, <1>3, <1>8, SizesAssumption DEF DoubtInv, SessionInv, Blocks
<1>10. ReadInv'
  BY <1>1, <1>3, <1>8 DEF ReadInv, DoubtInv, CardInv, SessionInv
<1>20. MisledInv'
  BY Zenon, <1>0 DEF CardLosesPower, MisledInv
<1> QED
  BY Zenon, <1>20, <1>4, <1>5, <1>6, <1>7, <1>8, <1>9, <1>10 DEF TypesInv

-----------------------------------------------------------------------------
(* Commands: what the card does, then what the driver makes of its answer. *)

\* The card does as it is told by a command.
Does(cmd, r) ==
    /\ ~busy /\ kind # "gone"
    /\ cmd = "CMD0" \/ mode \in {"idle", "ready"} \/ (mode = "sendMany" /\ cmd = "CMD12")
    /\ Knows(cmd) /\ Obeys(cmd, r) /\ Erases(cmd)

\* The card does nothing.  An answer that looks like success is that of a busy card.
Unmoved == UNCHANGED <<mode, at, eraseFrom, eraseTo, busy, programming, store>>
Ignores(r) == Unmoved /\ r # "idle" /\ r # "illegal" /\ (r = "ready" => busy)

\* The card ends its transfer, but does not say so.
Stops(r) ==
    /\ ~busy /\ mode' = "ready" /\ at' = 0
    /\ UNCHANGED <<eraseFrom, eraseTo, busy, programming, store>>
    /\ r \in {"refused", "none"}

\* A card does what it is told or nothing.
LEMMA CardAnswers ==
    ASSUME IInv, NEW cmd, NEW r, CardTakes(cmd, r)
    PROVE  /\ app' \in BOOLEAN /\ refused' \in 0 .. MaxRefusals
           /\ Does(cmd, r) \/ Ignores(r) \/ (cmd = "CMD12" /\ Stops(r))
<1>0. app \in BOOLEAN /\ refused \in 0 .. MaxRefusals
  BY DEF IInv, TypesInv, PlaceTypes, BoundTypes
<1>1. CASE /\ ~Listens(cmd)
           /\ r = IF busy THEN "ready" ELSE "none"
           /\ UNCHANGED <<placeVars, flashVars, refused>>
  <2>1. Ignores(r) /\ UNCHANGED <<app, refused>>
    BY <1>1 DEF Ignores, Unmoved, placeVars, flashVars
  <2> QED
    BY <1>0, <2>1
<1>2. CASE /\ Listens(cmd) /\ Knows(cmd)
           /\ Obeys(cmd, r) /\ app' = (cmd = "CMD55")
           /\ Erases(cmd)
           /\ UNCHANGED refused
  <2>1. Does(cmd, r)
    BY Zenon, <1>2 DEF Does, Listens
  <2>2. app' \in BOOLEAN
    BY <1>2
  <2> QED
    BY <1>0, <1>2, <2>1, <2>2
<1>3. CASE /\ Listens(cmd) /\ ~Knows(cmd)
           /\ r = "refused"
           /\ UNCHANGED <<placeVars, flashVars, refused>>
  <2>1. Ignores(r) /\ UNCHANGED <<app, refused>>
    BY <1>3 DEF Ignores, Unmoved, placeVars, flashVars
  <2> QED
    BY <1>0, <2>1
<1>4. CASE /\ Listens(cmd) /\ refused < MaxRefusals
           /\ refused' = refused + 1
           /\ r \in {"refused", "none"} /\ app' = FALSE
           /\ (IF cmd = "CMD12" THEN Enter("ready", 0) ELSE Stay)
           /\ UNCHANGED flashVars
  <2>1. Ignores(r) \/ (cmd = "CMD12" /\ Stops(r))
    BY <1>4 DEF Listens, Ignores, Stops, Unmoved, Stay, Enter, flashVars
  <2>2. refused < MaxRefusals /\ refused' = refused + 1 /\ app' = FALSE
    BY Zenon, <1>4
  <2>3. refused' \in 0 .. MaxRefusals
    BY <1>0, <2>2, BoundsAssumption
  <2>4. app' \in BOOLEAN
    BY Zenon, <2>2
  <2> QED
    BY Zenon, <2>1, <2>3, <2>4
<1> QED
  BY Zenon, <1>1, <1>2, <1>3, <1>4 DEF CardTakes

\* What no command changes.
Kept ==
    /\ UNCHANGED <<got, kind, acked, unsafe, strays, boots>>
    /\ misled' = (mode' = "takeMany" /\ (misled \/ Misleads))
    /\ app' \in BOOLEAN /\ refused' \in 0 .. MaxRefusals

\* The address that the driver gives is that of the block it means.
LEMMA AddressIsRight ==
    ASSUME IInv, session # "closed", kind # "gone"
    PROVE  /\ BlockAt(Address) = block
           /\ BlockAt(LastAddress) = last
<1>1. m_type = kind /\ kind \in {"SD1", "SD2", "SDHC"}
  BY DEF IInv, KindInv, TypesInv, PlaceTypes
<1>2. block \in Nat /\ last \in Nat
  BY SizesAssumption DEF IInv, TypesInv, CallTypes
<1>3. ASSUME NEW n \in Nat PROVE (n * 512) \div 512 = n
  BY <1>3
<1>4. CASE kind = "SDHC"
  BY <1>1, <1>4 DEF BlockAt, Address, LastAddress
<1>5. CASE kind # "SDHC"
  BY <1>1, <1>2, <1>3, <1>5 DEF BlockAt, Address, LastAddress
<1> QED
  BY Zenon, <1>4, <1>5

\* The commands that fail unless the card says that it is ready.
PlainCommands == {"CMD9", "CMD12", "CMD17", "CMD18", "CMD24", "CMD25", "CMD32", "CMD33",
                  "CMD38", "ACMD23"}
Goes == GoOn(Tail(steps)) /\ m_selected' = TRUE /\ m_type' = m_type

\* Such a command fails, is taken for carried out by a busy card, or is carried out.
LEMMA PlainCommand ==
    ASSUME IInv, Command, Head(steps) \in PlainCommands
    PROVE  /\ Kept
           /\ \/ Fails
              \/ Goes /\ Unmoved /\ busy
              \/ Goes /\ Does(Head(steps), "ready")
<1> DEFINE h == Head(steps)
<1>1. PICK r \in Responses :
        /\ CardTakes(h, r)
        /\ CASE h = "CMD8" -> Identify(r)
             [] h = "CMD55" -> GoOn(Tail(steps)) /\ m_selected' = TRUE /\ UNCHANGED m_type
             [] h = "CMD58" /\ r = "ready" -> GoOn(Tail(steps)) /\ m_selected' = TRUE /\ ReadOcr
             [] h \notin {"CMD8", "CMD55", "CMD58"} /\ r = Wanted(h) ->
                  GoOn(Tail(steps)) /\ m_selected' = TRUE /\ UNCHANGED m_type
             [] h \in {"CMD0", "ACMD41"} /\ r # Wanted(h) -> Retry /\ UNCHANGED m_type
             [] OTHER -> Fail /\ UNCHANGED m_type
  BY Zenon DEF Command
<1>2. /\ UNCHANGED <<got, kind, acked, unsafe, strays, boots>>
      /\ misled' = (mode' = "takeMany" /\ (misled \/ Misleads))
  BY DEF Command
<1>3. /\ app' \in BOOLEAN /\ refused' \in 0 .. MaxRefusals
      /\ Does(h, r) \/ Ignores(r) \/ (h = "CMD12" /\ Stops(r))
  BY Zenon, <1>1, CardAnswers
<1>7. misled' \in BOOLEAN /\ (misled' => mode' = "takeMany")
  BY Zenon, <1>2
<1>4. Wanted(h) = "ready"
  BY DEF Wanted, PlainCommands
<1>5. CASE r = "ready"
  <2>1. Goes
    BY <1>1, <1>4, <1>5 DEF Goes, PlainCommands
  <2> QED
    BY Zenon, <1>2, <1>3, <1>5, <2>1 DEF Kept, Ignores, Stops
<1>6. CASE r # "ready"
  <2>1. Fail /\ m_type' = m_type
    BY <1>1, <1>4, <1>6 DEF PlainCommands
  <2>2. ~Does(h, r)
    BY <1>6 DEF Does, PlainCommands, Obeys, Knows, R1, Transfers
  <2>3. Fails
    <3>1. steps # <<>>
      BY DEF Command
    <3>2. Placed(call, m_type, Left, h) /\ Left # 0
      BY Zenon, <3>1, CallFits DEF IInv
    <3>3. kind # "gone" /\ call = "writeBlock" => mode # "takeOne"
      BY <3>2 DEF Placed, PlainCommands, IInv, PlaceInv, TakePlace
    <3> QED
      BY <1>2, <1>3, <1>7, <2>1, <2>2, <3>3 DEF Fails, Ignores, Stops, Unmoved
  <2> QED
    BY Zenon, <1>2, <1>3, <2>3 DEF Kept
<1> QED
  BY Zenon, <1>5, <1>6

\* A command to a busy card, or one that only prepares the next, leaves the card as it was.
LEMMA GoesUnmoved ==
    ASSUME IInv, steps # <<>>, call # "begin", Kept, Unmoved,
           GoOn(Tail(steps)), m_selected' = TRUE, m_type' = m_type,
           \/ busy /\ Head(steps) \in PlainCommands
           \/ Head(steps) \in {"CMD55", "CMD58", "ACMD23"}
    PROVE  IInv'
<1> USE DEF IInv
<1>1. /\ UNCHANGED <<got, kind, acked, unsafe, strays, boots, mode, at, eraseFrom, eraseTo, busy,
                     programming, store>>
      /\ app' \in BOOLEAN /\ refused' \in 0 .. MaxRefusals
  BY DEF Kept, Unmoved
<1>0. misled' \in BOOLEAN /\ (misled' => mode' = "takeMany")
  BY Zenon DEF Kept
<1>11. /\ mode' = "takeMany" /\ ~misled' => ~misled
       /\ mode' = "takeMany" /\ Head(steps) = "CMD25" /\ busy => misled'
  BY DEF Kept, Misleads
<1>2. /\ ListsInv' /\ Left' = Left - 1 /\ Left \in 1 .. 6
      /\ Placed(call, m_type, Left, Head(steps))
      /\ UNCHANGED <<call, block, last, src, session, next, initLate>> /\ late' = FALSE
  BY Zenon, GoesOn
<1>3. \/ call = "erase" /\ Left \in {2, 3, 4, 6}
      \/ call = "readRegister" /\ Left = 2
      \/ call = "readBlock" /\ Left = 2
      \/ call = "writeBlock" /\ Left = 2
      \/ call \in {"readOCR", "readStart", "readStop"} /\ Left = 1
      \/ call = "writeStart"
  BY <1>2 DEF Placed, PlainCommands, TypesInv, CallTypes, Calls, Reads
<1>4. TypesInv'
  <2>1. CallTypes' /\ PlaceTypes' /\ FlashTypes' /\ GhostTypes' /\ BoundTypes'
    BY <1>1, <1>2 DEF TypesInv, CallTypes, PlaceTypes, FlashTypes, GhostTypes, BoundTypes
  <2>2. LinkTypes'
    BY <1>2 DEF TypesInv, LinkTypes
  <2> QED
    BY Zenon, <2>1, <2>2 DEF TypesInv
<1>5. SessionInv' /\ KindInv'
  BY <1>1, <1>2, <1>3 DEF SessionInv, KindInv, NoCall
<1>6. CardInv'
  BY <1>1 DEF CardInv
<1>7. TakePlace'
  BY <1>1, <1>2, <1>3, <1>11 DEF SessionInv, PlaceInv, TakePlace, NoCall, Placed
<1>8. SendPlace'
  BY <1>1, <1>2, <1>3 DEF CardInv, SendPlace, Sends, NoCall, Placed, PlainCommands
<1>9. DoubtInv' /\ WriteInv' /\ ReadInv' /\ AcknowledgedIsStored'
  BY <1>1, <1>2, <1>3 DEF DoubtInv, WriteInv, ReadInv, AcknowledgedIsStored
<1>10. EraseInv'
  BY <1>1, <1>2, <1>3 DEF EraseInv, CardInv, Placed
<1>20. MisledInv'
  BY Zenon, <1>0 DEF MisledInv
<1> QED
  BY Zenon, <1>20, <1>2, <1>4, <1>5, <1>6, <1>7, <1>8, <1>9, <1>10 DEF PlaceInv

\* A command that the card carries out.
LEMMA GoesDone ==
    ASSUME IInv, steps # <<>>, Kept, Goes, Head(steps) \in PlainCommands,
           Does(Head(steps), "ready")
    PROVE  IInv'
<1> DEFINE h == Head(steps)
<1> USE DEF IInv
<1>1. /\ UNCHANGED <<got, kind, acked, unsafe, strays, boots>>
      /\ app' \in BOOLEAN /\ refused' \in 0 .. MaxRefusals
  BY DEF Kept
<1>0. misled' \in BOOLEAN /\ (misled' => mode' = "takeMany")
  BY Zenon DEF Kept
<1>2. /\ ListsInv' /\ Left' = Left - 1 /\ Left \in 1 .. 6
      /\ Placed(call, m_type, Left, h)
      /\ UNCHANGED <<call, block, last, src, session, next, initLate>> /\ late' = FALSE
      /\ m_selected' = TRUE /\ m_type' = m_type
  BY Zenon, GoesOn DEF Goes, PlainCommands
<1>3. /\ h = "CMD9" => call \in {"erase", "readRegister"}
      /\ h = "CMD12" => call = "readStop" /\ Left = 1
      /\ h = "CMD17" => call = "readBlock" /\ Left = 2
      /\ h = "CMD18" => call = "readStart" /\ Left = 1
      /\ h = "CMD24" => call = "writeBlock" /\ Left = 2
      /\ h = "CMD25" => call = "writeStart" /\ Left = 1
      /\ h = "CMD32" => call = "erase" /\ Left = 4
      /\ h = "CMD33" => call = "erase" /\ Left = 3
      /\ h = "CMD38" => call = "erase" /\ Left = 2
      /\ h = "ACMD23" => call = "writeStart" /\ Left = 2
      /\ call = "erase" /\ h = "CMD9" => Left = 6
      /\ call = "readRegister" => Left = 2
  BY <1>2 DEF Placed, PlainCommands, TypesInv, CallTypes, Calls, Reads, LinkTypes
<1>4. session # "closed" /\ ~busy /\ kind # "gone" /\ call # "begin"
  BY <1>3 DEF PlainCommands, SessionInv, Does
<1>5. BlockAt(Address) = block /\ BlockAt(LastAddress) = last
  BY Zenon, <1>4, AddressIsRight
<1>6. /\ h # "CMD12" => mode = "ready"
      /\ h = "CMD9" => mode' = "sendRegister" /\ at' = block
      /\ h = "CMD12" => mode' = "ready" /\ at' = 0
      /\ h = "CMD17" => mode' = "sendOne" /\ at' = block
      /\ h = "CMD18" => mode' = "sendMany" /\ at' = block
      /\ h = "CMD24" => mode' = "takeOne" /\ at' = block
      /\ h = "CMD25" => mode' = "takeMany" /\ at' = block
      /\ h \in {"CMD32", "CMD33", "CMD38", "ACMD23"} => mode' = mode /\ at' = at
      /\ h # "CMD38" => eraseFrom' = IF h = "CMD32" THEN block ELSE eraseFrom
      /\ h # "CMD38" => eraseTo' = IF h = "CMD33" THEN last ELSE eraseTo
      /\ h = "CMD38" => eraseFrom' = 0 /\ eraseTo' = 0
  BY <1>5 DEF Does, Knows, Obeys, PlainCommands, Transfers, Enter, Stay
<1>7. /\ h # "CMD38" => UNCHANGED <<busy, programming, store>>
      /\ h = "CMD38" => programming' = eraseFrom .. eraseTo /\ busy' = TRUE
      /\ h = "CMD38" => store' = [b \in Blocks |-> IF b \in eraseFrom .. eraseTo THEN Erased
                                                                            ELSE store[b]]
  BY Zenon DEF Does, Erases, flashVars
<1>8. /\ h # "CMD12" => block \in Blocks
      /\ call = "erase" => block .. last \subseteq Blocks
      /\ eraseFrom .. eraseTo \subseteq Blocks
  BY <1>3, SizesAssumption DEF SessionInv, PlainCommands, TypesInv, PlaceTypes, Blocks
<1>9. h = "CMD38" => eraseFrom = block /\ eraseTo = last
  BY <1>3, <1>4 DEF EraseInv
<1>10. TypesInv'
  <2>1. CallTypes' /\ GhostTypes' /\ BoundTypes'
    BY <1>1, <1>2 DEF TypesInv, CallTypes, GhostTypes, BoundTypes
  <2>2. LinkTypes'
    BY <1>2 DEF TypesInv, LinkTypes
  <2>3. PlaceTypes'
    <3>1. mode' \in {"ready", "sendRegister", "sendOne", "sendMany", "takeOne", "takeMany"}
      BY <1>6 DEF PlainCommands
    <3>2. at' \in 0 .. LastBlock + 1
      BY <1>6, <1>8, SizesAssumption DEF PlainCommands, TypesInv, PlaceTypes, Blocks
    <3>3. eraseFrom' \in Blocks /\ eraseTo' \in Blocks
      BY <1>3, <1>6, <1>8, SizesAssumption DEF SessionInv, TypesInv, PlaceTypes, Blocks
    <3> QED
      BY <1>1, <3>1, <3>2, <3>3 DEF TypesInv, PlaceTypes
  <2>4. FlashTypes'
    BY <1>7, <1>8 DEF TypesInv, FlashTypes, Contents
  <2> QED
    BY Zenon, <2>1, <2>2, <2>3, <2>4 DEF TypesInv
<1>11. SessionInv' /\ KindInv'
  BY <1>1, <1>2, <1>3, <1>4 DEF SessionInv, KindInv, NoCall, PlainCommands
<1>12. CardInv'
  <2>1. CASE h # "CMD38"
    BY <2>1, <1>1, <1>4, <1>7 DEF CardInv
  <2>2. CASE h = "CMD38"
    BY <2>2, <1>1, <1>3, <1>4, <1>6, <1>7, <1>9 DEF CardInv, DoubtInv
  <2> QED
    BY Zenon, <2>1, <2>2
<1>13. TakePlace'
  BY <1>1, <1>2, <1>3, <1>4, <1>6 DEF SessionInv, PlaceInv, TakePlace, NoCall,
     PlainCommands
<1>14. SendPlace'
  BY <1>2, <1>3, <1>6 DEF SendPlace, Sends, NoCall, PlainCommands
<1>15. DoubtInv' /\ WriteInv' /\ ReadInv'
  BY <1>1, <1>2, <1>3, <1>7 DEF DoubtInv, WriteInv, ReadInv, PlainCommands
<1>16. EraseInv'
  BY <1>1, <1>2, <1>3, <1>4, <1>6, <1>7, <1>8, <1>9 DEF EraseInv, PlainCommands
<1>17. AcknowledgedIsStored'
  <2>1. CASE h # "CMD38"
    BY <2>1, <1>1, <1>7 DEF AcknowledgedIsStored
  <2>2. CASE h = "CMD38"
    BY <2>2, <1>1, <1>3, <1>7, <1>9 DEF AcknowledgedIsStored, DoubtInv
  <2> QED
    BY Zenon, <2>1, <2>2
<1>20. MisledInv'
  BY Zenon, <1>0 DEF MisledInv
<1> QED
  BY Zenon, <1>20, <1>2, <1>10, <1>11, <1>12, <1>13, <1>14, <1>15, <1>16, <1>17 DEF PlaceInv

\* Lists of steps that begin() makes longer.
LEMMA JoinedLists ==
    ASSUME NEW a, NEW b, NEW c
    PROVE  /\ <<a>> \o <<b>> = <<a, b>>
           /\ <<a>> \o <<b, c>> = <<a, b, c>>
           /\ Append(<<a, b>>, c) = <<a, b, c>>
<1> DEFINE S == {a, b, c}
           s1 == <<a>>  t1 == <<b>>  u1 == <<c>>  s2 == <<a, b>>  t2 == <<b, c>>
           s3 == <<a, b, c>>
<1>1. /\ s1 \in Seq(S) /\ Len(s1) = 1 /\ s1[1] = a
      /\ t1 \in Seq(S) /\ Len(t1) = 1 /\ t1[1] = b
      /\ u1 \in Seq(S) /\ Len(u1) = 1 /\ u1[1] = c
  OBVIOUS
<1>2. /\ s2 \in Seq(S) /\ Len(s2) = 2 /\ s2[1] = a /\ s2[2] = b
      /\ t2 \in Seq(S) /\ Len(t2) = 2 /\ t2[1] = b /\ t2[2] = c
  OBVIOUS
<1>3. s3 \in Seq(S) /\ Len(s3) = 3 /\ s3[1] = a /\ s3[2] = b /\ s3[3] = c
  OBVIOUS
<1>4. c \in S
  OBVIOUS
<1> HIDE DEF S, s1, t1, u1, s2, t2, s3
<1>5. ASSUME NEW s \in Seq(S), NEW t \in Seq(S), NEW v \in Seq(S),
             Len(v) = Len(s) + Len(t),
             \A i \in 1 .. Len(v) : v[i] = IF i <= Len(s) THEN s[i] ELSE t[i - Len(s)]
      PROVE  s \o t = v
  <2>1. /\ s \o t \in Seq(S)
        /\ Len(s \o t) = Len(s) + Len(t)
        /\ \A i \in 1 .. Len(s) + Len(t) :
             (s \o t)[i] = IF i <= Len(s) THEN s[i] ELSE t[i - Len(s)]
    BY Zenon, <1>5, ConcatProperties
  <2> DEFINE w == s \o t
  <2>2. w \in Seq(S) /\ Len(w) = Len(v) /\ \A i \in 1 .. Len(w) : w[i] = v[i]
    BY <1>5, <2>1
  <2> HIDE DEF w
  <2>3. w = v
    BY <2>2, SeqEqual
  <2> QED
    BY Zenon, <2>3 DEF w
<1>6. s1 \o t1 = s2
  <2>1. Len(s2) = Len(s1) + Len(t1)
        /\ \A i \in 1 .. Len(s2) : s2[i] = IF i <= Len(s1) THEN s1[i] ELSE t1[i - Len(s1)]
    BY <1>1, <1>2
  <2> QED
    BY Zenon, <1>1, <1>2, <1>5, <2>1
<1>8. s1 \o t2 = s3
  <2>1. Len(s3) = Len(s1) + Len(t2)
        /\ \A i \in 1 .. Len(s3) : s3[i] = IF i <= Len(s1) THEN s1[i] ELSE t2[i - Len(s1)]
    BY <1>1, <1>2, <1>3
  <2> QED
    BY Zenon, <1>1, <1>2, <1>3, <1>5, <2>1
<1>9. s2 \o u1 = s3
  <2>1. Len(s3) = Len(s2) + Len(u1)
        /\ \A i \in 1 .. Len(s3) : s3[i] = IF i <= Len(s2) THEN s2[i] ELSE u1[i - Len(s2)]
    BY <1>1, <1>2, <1>3
  <2> QED
    BY Zenon, <1>1, <1>2, <1>3, <1>5, <2>1
<1>7. Append(s2, c) = s2 \o <<c>>
  BY <1>2, <1>4, AppendIsConcat
<1> QED
  BY Zenon, <1>6, <1>7, <1>8, <1>9 DEF s1, t1, u1, s2, t2, s3

\* What begin() has still to do after it has repeated a command, or told the card.
LEMMA BeginLists ==
    ASSUME ListsInv, call = "begin", steps # <<>>
    PROVE  /\ Head(steps) = "CMD0" =>
                Program("begin", m_type, Tail(steps)) /\ Len(Tail(steps)) = 3
           /\ Head(steps) = "CMD8" =>
                /\ Program("begin", "SD1", Tail(steps)) /\ Len(Tail(steps)) = 2
                /\ Program("begin", "SD2", Append(Tail(steps), "CMD58"))
                /\ Len(Append(Tail(steps), "CMD58")) = 3
           /\ Head(steps) = "ACMD41" =>
                /\ Program("begin", m_type, <<"CMD55">> \o steps)
                /\ Len(<<"CMD55">> \o steps) > 0
           /\ Head(steps) = "CMD58" =>
                /\ \A m \in {"SD2", "SDHC"} : Program("begin", m, Tail(steps))
                /\ Len(Tail(steps)) = 0
<1>1. /\ m_type \in {"unknown", "SD1", "SD2", "SDHC"}
      /\ m_type = "unknown" => steps \in newLists
      /\ m_type = "SD1" => steps \in oldLists
      /\ m_type = "SD2" => steps \in sd2Lists
      /\ m_type = "SDHC" => steps = <<>>
  BY Zenon DEF ListsInv, Program
<1>2. \A m, s : Program("begin", m, s) <=>
                  /\ m \in {"unknown", "SD1", "SD2", "SDHC"}
                  /\ m = "unknown" => s \in newLists
                  /\ m = "SD1" => s \in oldLists
                  /\ m = "SD2" => s \in sd2Lists
                  /\ m = "SDHC" => s = <<>>
  BY DEF Program, NoCall, Calls
<1>3. CASE steps = beginSteps /\ m_type = "unknown"
  <2>1. At(steps, 4, "CMD0", <<"CMD8", "CMD55", "ACMD41">>)
    BY <1>3 DEF At, beginSteps
  <2>2. Tail(steps) \in newLists
    BY Zenon, <2>1 DEF At, newLists
  <2> QED
    BY <1>2, <1>3, <2>1, <2>2 DEF At
<1>4. CASE steps = <<"CMD8", "CMD55", "ACMD41">>
  <2>1. At(steps, 3, "CMD8", <<"CMD55", "ACMD41">>)
    BY <1>4 DEF At
  <2>2. Tail(steps) \in oldLists
    BY Zenon, <2>1 DEF At, oldLists
  <2>3. Append(Tail(steps), "CMD58") = <<"CMD55", "ACMD41", "CMD58">>
    BY Zenon, <2>1, JoinedLists DEF At
  <2>4. Append(Tail(steps), "CMD58") \in sd2Lists
    BY Zenon, <2>3 DEF sd2Lists
  <2>5. Len(Append(Tail(steps), "CMD58")) = 3
    <3>1. Len(<<"CMD55", "ACMD41", "CMD58">>) = 3
      OBVIOUS
    <3> QED
      BY Zenon, <2>3, <3>1
  <2> QED
    BY <1>2, <2>1, <2>2, <2>4, <2>5 DEF At
<1>5. CASE steps = <<"ACMD41">> /\ m_type = "SD1"
  <2>1. Head(steps) = "ACMD41"
    BY <1>5
  <2>2. <<"CMD55">> \o steps = <<"CMD55", "ACMD41">>
    BY Zenon, <1>5, JoinedLists
  <2>3. <<"CMD55">> \o steps \in oldLists
    BY Zenon, <2>2 DEF oldLists
  <2>4. Len(<<"CMD55">> \o steps) = 2
    BY <2>2
  <2> QED
    BY <1>2, <1>5, <2>1, <2>3, <2>4
<1>6. CASE steps = <<"ACMD41", "CMD58">> /\ m_type = "SD2"
  <2>1. Head(steps) = "ACMD41"
    BY <1>6
  <2>2. <<"CMD55">> \o steps = <<"CMD55", "ACMD41", "CMD58">>
    BY Zenon, <1>6, JoinedLists
  <2>3. <<"CMD55">> \o steps \in sd2Lists
    BY Zenon, <2>2 DEF sd2Lists
  <2>4. Len(<<"CMD55">> \o steps) = 3
    <3>1. Len(<<"CMD55", "ACMD41", "CMD58">>) = 3
      OBVIOUS
    <3> QED
      BY Zenon, <2>2, <3>1
  <2> QED
    BY <1>2, <1>6, <2>1, <2>3, <2>4
<1>7. CASE steps = <<"CMD58">>
  <2>1. Head(steps) = "CMD58" /\ Tail(steps) = <<>> /\ Len(Tail(steps)) = 0
    BY <1>7
  <2>2. Tail(steps) \in sd2Lists
    BY Zenon, <2>1 DEF sd2Lists
  <2> QED
    BY <1>2, <2>1, <2>2
<1>8. CASE steps = <<"CMD55", "ACMD41">> \/ steps = <<"CMD55", "ACMD41", "CMD58">>
  <2>1. Head(steps) = "CMD55"
    BY <1>8
  <2> QED
    BY <2>1
<1> QED
  BY Zenon, <1>1, <1>3, <1>4, <1>5, <1>6, <1>7, <1>8 DEF newLists, oldLists, sd2Lists

\* begin() goes on.
LEMMA BeginGoes ==
    ASSUME IInv, call = "begin", Kept, GoOn(steps'), m_selected' = TRUE,
           m_type' \in {"unknown", "SD1", "SD2", "SDHC"},
           UNCHANGED <<eraseFrom, eraseTo, busy, programming, store>>,
           \/ mode' = mode /\ at' = at
           \/ ~busy /\ mode' \in {"idle", "ready"} /\ at' = 0,
           ListsInv', KindInv'
    PROVE  IInv'
<1> USE DEF IInv
<1>1. /\ UNCHANGED <<got, kind, acked, unsafe, strays, boots>>
      /\ app' \in BOOLEAN /\ refused' \in 0 .. MaxRefusals
  BY DEF Kept
<1>0. misled' \in BOOLEAN /\ (misled' => mode' = "takeMany")
  BY Zenon DEF Kept
<1>2. UNCHANGED <<call, block, last, src, session, next, initLate>> /\ late' = FALSE
  BY Zenon DEF GoOn
<1>3. TypesInv'
  <2>1. CallTypes' /\ FlashTypes' /\ GhostTypes' /\ BoundTypes'
    BY <1>1, <1>2 DEF TypesInv, CallTypes, FlashTypes, GhostTypes, BoundTypes
  <2>2. LinkTypes'
    BY <1>2 DEF TypesInv, LinkTypes
  <2>3. PlaceTypes'
    BY <1>1, SizesAssumption DEF TypesInv, PlaceTypes
  <2> QED
    BY Zenon, <2>1, <2>2, <2>3 DEF TypesInv
<1>4. SessionInv'
  BY <1>2 DEF SessionInv, NoCall
<1>5. CardInv'
  BY <1>1 DEF CardInv
<1>6. PlaceInv'
  BY <1>2 DEF SessionInv, PlaceInv, TakePlace, SendPlace, NoCall
<1>7. DoubtInv' /\ WriteInv' /\ EraseInv' /\ ReadInv' /\ AcknowledgedIsStored'
  BY <1>1, <1>2 DEF DoubtInv, WriteInv, EraseInv, ReadInv, AcknowledgedIsStored
<1>20. MisledInv'
  BY Zenon, <1>0 DEF MisledInv
<1> QED
  BY Zenon, <1>20, <1>3, <1>4, <1>5, <1>6, <1>7

\* begin() goes on with the steps s, having learnt no more of the card than is so.
Continues(s) ==
    /\ GoOn(s) /\ m_selected' = TRUE /\ Program("begin", m_type', s)
    /\ m_type' \in {"unknown", "SD1", "SD2", "SDHC"}
    /\ \/ mode' = mode /\ at' = at
       \/ ~busy /\ mode' \in {"idle", "ready"} /\ at' = 0
    /\ kind # "gone" =>
         /\ m_type' = "SD1" => kind = "SD1"
         /\ m_type' = "SD2" /\ Len(s) > 0 => kind \in {"SD2", "SDHC"}
         /\ m_type' \in {"SD2", "SDHC"} /\ Len(s) = 0 => m_type' = kind
         /\ mode' \in {"idle", "ready"} /\ ~busy

\* A command of begin().
LEMMA BeginCommand ==
    ASSUME IInv, call = "begin", Command
    PROVE  IInv'
<1> DEFINE h == Head(steps)
<1> USE DEF IInv
<1>1. PICK r \in Responses :
        /\ CardTakes(h, r)
        /\ CASE h = "CMD8" -> Identify(r)
             [] h = "CMD55" -> GoOn(Tail(steps)) /\ m_selected' = TRUE /\ UNCHANGED m_type
             [] h = "CMD58" /\ r = "ready" -> GoOn(Tail(steps)) /\ m_selected' = TRUE /\ ReadOcr
             [] h \notin {"CMD8", "CMD55", "CMD58"} /\ r = Wanted(h) ->
                  GoOn(Tail(steps)) /\ m_selected' = TRUE /\ UNCHANGED m_type
             [] h \in {"CMD0", "ACMD41"} /\ r # Wanted(h) -> Retry /\ UNCHANGED m_type
             [] OTHER -> Fail /\ UNCHANGED m_type
  BY Zenon DEF Command
<1>2. /\ steps # <<>> /\ IsCommand(h) /\ UNCHANGED <<got, kind, acked, unsafe, strays, boots>>
      /\ misled' = (mode' = "takeMany" /\ (misled \/ Misleads))
  BY DEF Command
<1>19. /\ app' \in BOOLEAN /\ refused' \in 0 .. MaxRefusals
       /\ Does(h, r) \/ Ignores(r) \/ (h = "CMD12" /\ Stops(r))
  BY Zenon, <1>1, CardAnswers
<1>4. Kept
  BY Zenon, <1>2, <1>19 DEF Kept
<1>21. misled' \in BOOLEAN /\ (misled' => mode' = "takeMany")
  BY Zenon, <1>2
<1>5. Placed(call, m_type, Left, h) /\ Left # 0 /\ call # NoCall
  BY Zenon, <1>2, CallFits DEF Command, NoCall
<1>6. h \in {"CMD0", "CMD8", "CMD55", "ACMD41", "CMD58"}
  BY <1>5 DEF Placed, TypesInv, LinkTypes
<1>3. app' \in BOOLEAN /\ refused' \in 0 .. MaxRefusals /\ (Does(h, r) \/ Ignores(r))
  BY <1>6, <1>19
<1>7. UNCHANGED <<eraseFrom, eraseTo, busy, programming, store>>
  BY <1>3, <1>6 DEF Ignores, Unmoved, Does, Obeys, Erases, Enter, Stay, Transfers, flashVars
<1>8. \/ Ignores(r) /\ mode' = mode /\ at' = at
      \/ /\ ~busy /\ kind # "gone"
         /\ h = "CMD0" => r = "idle" /\ mode' = "idle" /\ at' = 0
         /\ h = "CMD8" => r = (IF kind = "SD1" THEN "illegal" ELSE R1)
         /\ h \in {"CMD8", "CMD55", "CMD58"} => mode' = mode /\ at' = at
         /\ h = "CMD58" => r = R1
         /\ h = "ACMD41" => \/ r = "idle" /\ mode' = mode /\ at' = at
                            \/ r = "ready" /\ mode' = "ready" /\ at' = 0
  BY <1>3, <1>6 DEF Ignores, Unmoved, Does, Obeys, Enter, Stay, Transfers
<1>9. R1 # "illegal" /\ R1 \in {"idle", "ready"}
  BY DEF R1
<1>10. kind # "gone" /\ h # "CMD0" => ~busy /\ mode \in {"idle", "ready"}
  BY <1>5 DEF KindInv, Placed, TypesInv, LinkTypes
<1>11. ASSUME Fail, m_type' = m_type, mode' = mode, at' = at
       PROVE  IInv'
  <2>1. Fails
    BY <1>2, <1>3, <1>7, <1>11, <1>21 DEF Fails
  <2> QED
    BY Zenon, <1>5, <2>1, FailsStep
<1>12. ASSUME Retry, m_type' = m_type, mode' = mode, at' = at, h \in {"CMD0", "CMD8", "ACMD41"}
       PROVE  IInv'
  <2>1. CASE initLate
    BY Zenon, <1>11, <1>12, <2>1 DEF Retry
  <2>2. CASE ~initLate
    <3>1. GoOn(Again) /\ m_selected' = TRUE
      BY Zenon, <1>12, <2>2 DEF Retry
    <3>2. steps' = Again /\ call' = call /\ session' = session
      BY Zenon, <3>1 DEF GoOn
    <3>3. Program(call, m_type, Again) /\ Len(Again) > 0 /\ (h # "ACMD41" => Len(Again) = Left)
      <4>1. CASE h = "ACMD41"
        <5>1. Again = <<"CMD55">> \o steps
          BY Zenon, <4>1 DEF Again
        <5> QED
          BY Zenon, <1>2, <4>1, <5>1, BeginLists
      <4>2. CASE h # "ACMD41"
        <5>1. Again = steps
          BY Zenon, <4>2 DEF Again
        <5>2. Left > 0
          BY <1>5 DEF Placed
        <5> QED
          BY Zenon, <4>2, <5>1, <5>2 DEF ListsInv, Left
      <4> QED
        BY Zenon, <4>1, <4>2
    <3>4. ListsInv' /\ Left' > 0 /\ (h # "ACMD41" => Left' = Left)
      BY Zenon, <1>12, <3>2, <3>3 DEF ListsInv, Left
    <3>5. KindInv'
      BY <1>2, <1>5, <1>7, <1>10, <1>12, <3>2, <3>4 DEF KindInv, SessionInv, Placed
    <3>6. m_type' \in {"unknown", "SD1", "SD2", "SDHC"}
      BY <1>12 DEF TypesInv, LinkTypes
    <3>7. GoOn(steps')
      BY Zenon, <3>1, <3>2
    <3> QED
      BY Zenon, <1>4, <1>7, <1>12, <3>1, <3>4, <3>5, <3>6, <3>7, BeginGoes
  <2> QED
    BY Zenon, <2>1, <2>2
<1>13. ASSUME NEW s, Continues(s)
       PROVE  IInv'
  <2>1. steps' = s /\ call' = call /\ session' = session
    BY Zenon, <1>13 DEF GoOn, Continues
  <2>2. ListsInv' /\ Left' = Len(s)
    BY Zenon, <1>13, <2>1 DEF ListsInv, Left, Continues
  <2>3. KindInv'
    BY <1>2, <1>7, <1>13, <2>1, <2>2 DEF KindInv, SessionInv, Continues
  <2>4. GoOn(steps')
    BY Zenon, <1>13, <2>1 DEF Continues
  <2> QED
    BY Zenon, <1>4, <1>7, <1>13, <2>2, <2>3, <2>4, BeginGoes DEF Continues
<1>14. CASE h = "CMD0"
  <2>1. Wanted(h) = "idle"
    BY <1>14 DEF Wanted
  <2>2. CASE r = "idle"
    <3>1. GoOn(Tail(steps)) /\ m_selected' = TRUE /\ m_type' = m_type
      BY <1>1, <1>14, <2>1, <2>2
    <3>2. ~busy /\ mode' = "idle" /\ at' = 0
      BY <1>8, <1>14, <2>2 DEF Ignores
    <3>3. Program("begin", m_type, Tail(steps)) /\ Len(Tail(steps)) = 3
      BY Zenon, <1>2, <1>14, BeginLists
    <3>4. m_type = "unknown"
      BY <1>5, <1>14 DEF Placed, TypesInv, LinkTypes
    <3>9. Continues(Tail(steps))
      BY <3>1, <3>2, <3>3, <3>4 DEF Continues
    <3> QED
      BY Zenon, <1>13, <3>9
  <2>3. CASE r # "idle"
    <3>1. Retry /\ m_type' = m_type
      BY <1>1, <1>14, <2>1, <2>3
    <3>2. mode' = mode /\ at' = at
      BY <1>8, <1>14, <2>3
    <3> QED
      BY Zenon, <1>12, <1>14, <3>1, <3>2
  <2> QED
    BY Zenon, <2>2, <2>3
<1>15. CASE h = "CMD8"
  <2>1. Identify(r)
    BY <1>1, <1>15
  <2>2. mode' = mode /\ at' = at
    BY <1>8, <1>15
  <2>3. /\ Program("begin", "SD1", Tail(steps)) /\ Len(Tail(steps)) = 2
        /\ Program("begin", "SD2", Append(Tail(steps), "CMD58"))
        /\ Len(Append(Tail(steps), "CMD58")) = 3
    BY Zenon, <1>2, <1>15, BeginLists
  <2>4. CASE r = "illegal"
    <3>1. m_type' = "SD1" /\ GoOn(Tail(steps)) /\ m_selected' = TRUE
      BY <2>1, <2>4 DEF Identify, FoundSD1
    <3>2. kind # "gone" => kind = "SD1" /\ mode' \in {"idle", "ready"} /\ ~busy
      BY <1>8, <1>9, <1>10, <1>15, <2>2, <2>4 DEF Ignores
    <3>9. Continues(Tail(steps))
      BY <2>2, <2>3, <3>1, <3>2 DEF Continues
    <3> QED
      BY Zenon, <1>13, <3>9
  <2>5. CASE r = "idle"
    <3>1. m_type' = "SD2" /\ GoOn(Append(Tail(steps), "CMD58")) /\ m_selected' = TRUE
      BY <2>1, <2>5 DEF Identify, FoundSD1
    <3>2. kind # "gone" => kind \in {"SD2", "SDHC"} /\ mode' \in {"idle", "ready"} /\ ~busy
      BY <1>8, <1>10, <1>15, <2>2, <2>5 DEF Ignores, TypesInv, PlaceTypes
    <3>9. Continues(Append(Tail(steps), "CMD58"))
      BY <2>2, <2>3, <3>1, <3>2 DEF Continues
    <3> QED
      BY Zenon, <1>13, <3>9
  <2>6. CASE r \notin {"illegal", "idle"}
    <3>1. Retry /\ m_type' = m_type
      BY <2>1, <2>6 DEF Identify, FoundSD1
    <3> QED
      BY Zenon, <1>12, <1>15, <2>2, <3>1
  <2> QED
    BY Zenon, <2>4, <2>5, <2>6
<1>16. CASE h = "CMD55"
  <2>1. GoOn(Tail(steps)) /\ m_selected' = TRUE /\ m_type' = m_type
    BY <1>1, <1>16
  <2>2. mode' = mode /\ at' = at
    BY <1>8, <1>16
  <2>3. Program("begin", m_type, Tail(steps)) /\ Len(Tail(steps)) = Left - 1
    BY <1>2, <1>16, CallFits
  <2>4. Left \in 2 .. 3 /\ m_type \in {"SD1", "SD2"}
    BY <1>5, <1>16 DEF Placed, TypesInv, LinkTypes
  <2>5. kind # "gone" => /\ m_type = "SD1" => kind = "SD1"
                         /\ m_type = "SD2" => kind \in {"SD2", "SDHC"}
                         /\ mode \in {"idle", "ready"} /\ ~busy
    BY <1>10, <1>16, <2>4 DEF KindInv
  <2>6. Len(Tail(steps)) \in {1, 2}
    <3>1. Left = 2 \/ Left = 3
      BY <2>4
    <3>2. Left = 2 => Len(Tail(steps)) = 1
      BY <2>3
    <3>3. Left = 3 => Len(Tail(steps)) = 2
      BY <2>3
    <3> QED
      BY Zenon, <3>1, <3>2, <3>3
  <2>7. Program("begin", m_type', Tail(steps))
    BY Zenon, <2>1, <2>3
  <2>9. Continues(Tail(steps))
    BY <2>1, <2>2, <2>4, <2>5, <2>6, <2>7 DEF Continues
  <2> QED
    BY Zenon, <1>13, <2>9
<1>17. CASE h = "ACMD41"
  <2>1. Wanted(h) = "ready"
    BY <1>17 DEF Wanted
  <2>2. Left \in 1 .. 2 /\ m_type \in {"SD1", "SD2"} /\ (m_type = "SD2" => Left = 2)
    BY <1>5, <1>17 DEF Placed, TypesInv, LinkTypes
  <2>3. CASE r = "ready"
    <3>1. GoOn(Tail(steps)) /\ m_selected' = TRUE /\ m_type' = m_type
      BY <1>1, <1>17, <2>1, <2>3
    <3>2. \/ mode' = mode /\ at' = at
          \/ ~busy /\ mode' = "ready" /\ at' = 0
      BY <1>8, <1>17, <2>3
    <3>3. Program("begin", m_type, Tail(steps)) /\ Len(Tail(steps)) = Left - 1
      BY <1>2, <1>17, CallFits
    <3>4. kind # "gone" => /\ m_type = "SD1" => kind = "SD1"
                           /\ m_type = "SD2" => kind \in {"SD2", "SDHC"}
                           /\ mode \in {"idle", "ready"} /\ ~busy
      BY <1>10, <1>17, <2>2 DEF KindInv
    <3>6. m_type = "SD2" => Len(Tail(steps)) # 0
      BY <2>2, <3>3
    <3>7. Program("begin", m_type', Tail(steps))
      BY Zenon, <3>1, <3>3
    <3>9. Continues(Tail(steps))
      BY <2>2, <3>1, <3>2, <3>4, <3>6, <3>7 DEF Continues
    <3> QED
      BY Zenon, <1>13, <3>9
  <2>4. CASE r # "ready"
    <3>1. Retry /\ m_type' = m_type
      BY <1>1, <1>17, <2>1, <2>4
    <3>2. mode' = mode /\ at' = at
      BY <1>8, <1>17, <2>4
    <3> QED
      BY Zenon, <1>12, <1>17, <3>1, <3>2
  <2> QED
    BY Zenon, <2>3, <2>4
<1>18. CASE h = "CMD58"
  <2>1. mode' = mode /\ at' = at
    BY <1>8, <1>18
  <2>2. m_type = "SD2" /\ Left = 1
    BY <1>5, <1>18 DEF Placed, TypesInv, LinkTypes
  <2>3. CASE r = "ready"
    <3>1. GoOn(Tail(steps)) /\ m_selected' = TRUE /\ ReadOcr
      BY <1>1, <1>18, <2>3
    <3>2. m_type' = IF kind = "SDHC" THEN "SDHC" ELSE "SD2"
      BY <2>2, <3>1 DEF ReadOcr
    <3>3. (\A m \in {"SD2", "SDHC"} : Program("begin", m, Tail(steps))) /\ Len(Tail(steps)) = 0
      BY Zenon, <1>2, <1>18, BeginLists
    <3>4. kind # "gone" => kind \in {"SD2", "SDHC"}
      BY <2>2 DEF KindInv
    <3>9. Continues(Tail(steps))
      BY <1>10, <1>18, <2>1, <3>1, <3>2, <3>3, <3>4 DEF Continues
    <3> QED
      BY Zenon, <1>13, <3>9
  <2>4. CASE r # "ready"
    <3>1. Fail /\ m_type' = m_type
      BY <1>1, <1>18, <2>4
    <3> QED
      BY Zenon, <1>11, <2>1, <3>1
  <2> QED
    BY Zenon, <2>3, <2>4
<1> QED
  BY Zenon, <1>6, <1>14, <1>15, <1>16, <1>17, <1>18

\* A command, of any call.
LEMMA CommandStep ==
    ASSUME IInv, Command
    PROVE  IInv'
<1> DEFINE h == Head(steps)
<1>1. /\ steps # <<>> /\ IsCommand(h) /\ UNCHANGED <<got, kind, acked, unsafe, strays, boots>>
      /\ misled' = (mode' = "takeMany" /\ (misled \/ Misleads))
  BY DEF Command
<1>2. Placed(call, m_type, Left, h) /\ Left # 0 /\ call # NoCall
  BY Zenon, <1>1, CallFits, StepsAreOfCalls DEF IInv
<1>3. CASE call = "begin"
  BY Zenon, <1>3, BeginCommand
<1>4. CASE h \in PlainCommands
  <2>1. /\ Kept
        /\ \/ Fails
           \/ Goes /\ Unmoved /\ busy
           \/ Goes /\ Does(h, "ready")
    BY Zenon, <1>4, PlainCommand
  <2>2. call # "begin"
    BY <1>2, <1>4 DEF Placed, PlainCommands, IInv, ListsInv, Program
  <2> QED
    BY Zenon, <1>1, <1>2, <1>4, <2>1, <2>2, FailsStep, GoesUnmoved, GoesDone DEF Goes
<1>5. CASE call # "begin" /\ h \notin PlainCommands
  <2>1. PICK r \in Responses :
          /\ CardTakes(h, r)
          /\ CASE h = "CMD8" -> Identify(r)
               [] h = "CMD55" -> GoOn(Tail(steps)) /\ m_selected' = TRUE /\ UNCHANGED m_type
               [] h = "CMD58" /\ r = "ready" -> GoOn(Tail(steps)) /\ m_selected' = TRUE /\ ReadOcr
               [] h \notin {"CMD8", "CMD55", "CMD58"} /\ r = Wanted(h) ->
                    GoOn(Tail(steps)) /\ m_selected' = TRUE /\ UNCHANGED m_type
               [] h \in {"CMD0", "ACMD41"} /\ r # Wanted(h) -> Retry /\ UNCHANGED m_type
               [] OTHER -> Fail /\ UNCHANGED m_type
    BY Zenon DEF Command
  <2>4. h \in {"CMD55", "CMD58"}
    BY <1>1, <1>2, <1>5 DEF Placed, PlainCommands, IsCommand, IInv, TypesInv, CallTypes, Calls,
       Reads
  <2>8. /\ app' \in BOOLEAN /\ refused' \in 0 .. MaxRefusals
        /\ Does(h, r) \/ Ignores(r) \/ (h = "CMD12" /\ Stops(r))
    BY Zenon, <2>1, CardAnswers
  <2>2. app' \in BOOLEAN /\ refused' \in 0 .. MaxRefusals /\ (Does(h, r) \/ Ignores(r))
    BY <2>4, <2>8
  <2>3. Kept
    BY Zenon, <1>1, <2>2 DEF Kept
  <2>9. misled' \in BOOLEAN /\ (misled' => mode' = "takeMany")
    BY Zenon, <1>1
  <2>5. Unmoved
    BY <2>2, <2>4 DEF Ignores, Unmoved, Does, Obeys, Erases, Stay, Transfers, flashVars
  <2>6. CASE h = "CMD55" \/ r = "ready"
    <3>1. GoOn(Tail(steps)) /\ m_selected' = TRUE /\ m_type' = m_type
      BY <1>5, <2>1, <2>4, <2>6 DEF ReadOcr
    <3> QED
      BY Zenon, <1>1, <1>5, <2>3, <2>4, <2>5, <3>1, GoesUnmoved
  <2>7. CASE h = "CMD58" /\ r # "ready"
    <3>1. Fail /\ m_type' = m_type
      BY <2>1, <2>7
    <3>2. Fails
      <4>1. call # "writeBlock"
        BY <1>2, <2>4 DEF Placed
      <4> QED
        BY <1>1, <2>2, <2>5, <2>9, <3>1, <4>1 DEF Fails, Unmoved
    <3> QED
      BY Zenon, <1>2, <3>2, FailsStep
  <2> QED
    BY Zenon, <2>4, <2>6, <2>7
<1> QED
  BY Zenon, <1>3, <1>4, <1>5

-----------------------------------------------------------------------------
(* The theorems. *)

\* The invariant is inductive.
LEMMA NextHolds == IInv /\ [Next]_vars => IInv'
<1> SUFFICES ASSUME IInv, [Next]_vars PROVE IInv'
  OBVIOUS
<1>1. CASE Begin \/ Erase \/ Read \/ Write \/ IsBusy
  BY Zenon, <1>1, BeginStep, EraseStep, ReadStep, WriteStep, IsBusyStep
<1>2. CASE Driver
  BY Zenon, <1>2, ReturnStep, CommandStep, DataComesStep, NoDataStep, ReadCsdStep,
     WaitEndsStep, SendDataStep, SendStopStep DEF Driver
<1>3. CASE Time \/ CardReady
  BY Zenon, <1>3, TimeStep, CardReadyStep
<1>4. CASE DriverResets \/ PowerFails \/ CardIsPulled
  BY Zenon, <1>4, ResetStep, CardIsPulledStep
<1>5. CASE UNCHANGED vars
  <2>1. UNCHANGED <<call, steps, block, last, src, session, next, got, m_selected, m_type,
                    initLate, late, kind, mode, app, at, eraseFrom, eraseTo, busy, programming,
                    store, acked, unsafe, misled, strays, refused, boots>>
    BY <1>5 DEF vars, callVars, driverVars, placeVars, flashVars, ghostVars, boundVars
  <2>2. Left' = Left
    BY Zenon, <2>1 DEF Left
  <2>3. ListsInv'
    BY Zenon, <2>1 DEF IInv, ListsInv
  <2>4. CallTypes' /\ PlaceTypes' /\ FlashTypes' /\ GhostTypes' /\ BoundTypes'
    BY <2>1 DEF IInv, TypesInv, CallTypes, PlaceTypes, FlashTypes, GhostTypes, BoundTypes
  <2>5. LinkTypes'
    BY <2>1 DEF IInv, TypesInv, LinkTypes
  <2>6. SessionInv' /\ KindInv' /\ CardInv'
    BY <2>1, <2>2 DEF IInv, SessionInv, KindInv, CardInv
  <2>7. PlaceInv'
    BY <2>1, <2>2 DEF IInv, PlaceInv, TakePlace, SendPlace
  <2>8. DoubtInv' /\ WriteInv' /\ EraseInv' /\ ReadInv' /\ AcknowledgedIsStored'
    BY <2>1, <2>2 DEF IInv, DoubtInv, WriteInv, EraseInv, ReadInv, AcknowledgedIsStored
  <2>9. MisledInv'
    BY Zenon, <2>1 DEF IInv, MisledInv
  <2> QED
    BY Zenon, <2>9, <2>3, <2>4, <2>5, <2>6, <2>7, <2>8 DEF IInv, TypesInv
<1> QED
  BY Zenon, <1>1, <1>2, <1>3, <1>4, <1>5 DEF Next

\* The inductive invariant of the driver and the card together: what each call has still to
\* do, what the card then is, and what a call that ends has done.
THEOREM DriverInvariant == Spec => []IInv
<1> QED
  BY InitHolds, NextHolds, PTL DEF Spec

\* What a call reports is so: a block that a call has reported written or erased is on the
\* card, at its place, and a block reported read is the one asked for, however the card
\* refused, was busy, or lost its power, and whatever call failed before; only what was
\* written in a transfer that the card did not start is excepted.
THEOREM ReportsCorrect == Spec => []ReportsAreTrue
<1>1. IInv => ReportsAreTrue
  <2> SUFFICES ASSUME IInv PROVE ReportsAreTrue
    OBVIOUS
  <2>1. steps = <<>> => Left = 0
    BY Zenon, CallFits DEF IInv
  <2>2. ReadsAreRight
    BY Zenon, <2>1 DEF IInv, ReadInv, ReadsAreRight
  <2> QED
    BY Zenon, <2>2 DEF IInv, ReportsAreTrue
<1> QED
  BY <1>1, DriverInvariant, PTL

StepNames == {"CMD0", "CMD8", "CMD9", "CMD12", "CMD17", "CMD18", "CMD24", "CMD25", "CMD32",
              "CMD33", "CMD38", "CMD55", "CMD58", "ACMD23", "ACMD41", "csd", "data", "wait",
              "oneToken", "nextToken", "stopToken"}

\* The steps of a call are commands, blocks of data and waits.
LEMMA StepsAreTyped ==
    ASSUME NEW c, NEW m, NEW s, Program(c, m, s)
    PROVE  \A i \in DOMAIN s : IsCommand(s[i]) \/ s[i] \in Steps
<1>1. <<>> \in Seq(StepNames)
  OBVIOUS
<1>2. newLists \subseteq Seq(StepNames)
  BY DEF newLists, StepNames, beginSteps
<1>3. oldLists \subseteq Seq(StepNames)
  BY DEF oldLists, StepNames
<1>4. sd2Lists \subseteq Seq(StepNames)
  BY DEF sd2Lists, StepNames
<1>5. eraseLists \subseteq Seq(StepNames)
  BY DEF eraseLists, StepNames, eraseSteps
<1>6. readRegisterLists \subseteq Seq(StepNames)
  BY DEF readRegisterLists, StepNames, readRegisterSteps
<1>7. readOCRLists \subseteq Seq(StepNames)
  BY DEF readOCRLists, StepNames, readOCRSteps
<1>8. readBlockLists \subseteq Seq(StepNames)
  BY DEF readBlockLists, StepNames, readBlockSteps
<1>9. readStartLists \subseteq Seq(StepNames)
  BY DEF readStartLists, StepNames, readStartSteps
<1>10. readDataLists \subseteq Seq(StepNames)
  BY DEF readDataLists, StepNames, readDataSteps
<1>11. readStopLists \subseteq Seq(StepNames)
  BY DEF readStopLists, StepNames, readStopSteps
<1>12. writeBlockLists \subseteq Seq(StepNames)
  BY DEF writeBlockLists, StepNames, writeBlockSteps
<1>13. writeStartLists \subseteq Seq(StepNames)
  BY DEF writeStartLists, StepNames, writeStartSteps
<1>14. writeDataLists \subseteq Seq(StepNames)
  BY DEF writeDataLists, StepNames, writeDataSteps
<1>15. writeStopLists \subseteq Seq(StepNames)
  BY DEF writeStopLists, StepNames, writeStopSteps
<1>16. s \in Seq(StepNames)
  <2>1. CASE c = "begin"
    BY Zenon, <2>1, <1>1, <1>2, <1>3, <1>4 DEF Program
  <2>2. CASE c # "begin"
    BY Zenon, <2>2, <1>1, <1>5, <1>6, <1>7, <1>8, <1>9, <1>10, <1>11, <1>12, <1>13, <1>14, <1>15
       DEF Program, Calls, Reads
  <2> QED
    BY Zenon, <2>1, <2>2
<1>17. \A i \in DOMAIN s : s[i] \in StepNames
  BY <1>16
<1>18. \A x \in StepNames : IsCommand(x) \/ x \in Steps
  BY DEF StepNames, IsCommand, Steps
<1> QED
  BY Zenon, <1>17, <1>18

\* Between two calls the driver's idea of the card is right, and the bus is as the next call
\* takes it to be; every variable has its type.
THEOREM MatchCorrect == Spec => []DriverMatchesCard
<1>1. IInv => DriverMatchesCard
  <2> SUFFICES ASSUME IInv PROVE DriverMatchesCard
    OBVIOUS
  <2>1. TypeIsRight
    BY Zenon DEF IInv, KindInv, TypeIsRight
  <2>2. BusIsReleased
    <3>1. CASE m_selected
      BY <3>1 DEF IInv, SessionInv, BusIsReleased
    <3>2. CASE ~m_selected
      BY <3>2 DEF IInv, SessionInv, BusIsReleased, TypesInv, LinkTypes
    <3> QED
      BY Zenon, <3>1, <3>2
  <2>3. TypeOK
    BY Zenon, StepsAreTyped DEF IInv, ListsInv, MisledInv, TypesInv, CallTypes, LinkTypes, PlaceTypes,
       FlashTypes, GhostTypes, BoundTypes, TypeOK
  <2> QED
    BY Zenon, <2>1, <2>2, <2>3 DEF DriverMatchesCard
<1> QED
  BY <1>1, DriverInvariant, PTL
=============================================================================
