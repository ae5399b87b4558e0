--------------------------- MODULE LogSessionProofs ---------------------------
(***************************************************************************)
(* What LogSession says of the files on the card, for a card that holds    *)
(* any number of files of any size, and for any number of power failures:  *)
(* the logs are in order and whole, what was written is found again, and   *)
(* no step touches a log that has its name.  Before that, what the         *)
(* bisection of truncateTempfiles() finds, in TempFileRecovery: the search *)
(* stays around the end of the data, each probe narrows it, and what is    *)
(* kept lacks at most the last block.                                      *)
(***************************************************************************)
EXTENDS LogSession, TempFileRecovery, DataLemmas

-----------------------------------------------------------------------------
(* What the recovery finds: the bisection. *)

\* The arithmetic of one probe: the block probed splits the interval, and both
\* ways of halving it leave at most the block itself on the wrong side.
LEMMA Halving ==
    ASSUME NEW low \in Nat, NEW high \in Nat, low < high
    PROVE  /\ (high + low) \div 2 = low + (high - low) \div 2
           /\ (high - low) \div 2 \in Nat
           /\ 2 * ((high - low) \div 2) \in {high - low, high - low - 1}
  OBVIOUS

\* When the indices are neighbours around an end, a probe next to the upper one, or on the
\* lower one, is the end or one block short of it.
LEMMA Neighbours ==
    ASSUME NEW low \in Int, NEW high \in Int, NEW mid \in Int, NEW end \in Int,
           high = low + 1, low < end, end <= high
    PROVE  /\ mid <= high /\ high <= mid + 1 => mid \in {end - 1, end}
           /\ low = mid => mid \in {end - 1, end}
  OBVIOUS

Searching == step \in {"open", "probe", "found"}
Cut == cause \in {"logging", "cutting"}
Whole == cause \in {"erasing", "logging"}
End == EndSeen(dataEnd, chainEnd)

\* A file that was being erased or written is there as a whole: no block of it that is
\* probed is out of reach.
WholeInv ==
    Whole =>
        /\ Searching => size = FileBlockCount /\ chainEnd = FileBlockCount
        /\ step # "fatal"

\* While truncate() was cut off, the chain may be shorter than the entry says: a
\* block behind it cannot be sought, and the position before is read once more.
\* The search is then around the end that can be seen, or behind the chain for good.
EndInv ==
    Cut =>
        /\ \A b \in FileBlocks : b \in blank <=> ones /\ b >= dataEnd
        /\ Searching => chainEnd <= size
        /\ step \in {"probe", "found"} =>
             /\ End > 0
             /\ chainEnd < lowIndex \/ (lowIndex < End /\ End <= highIndex)
        /\ step = "found" =>
             IF chainEnd < lowIndex THEN chainEnd < fileIndex
                                    ELSE fileIndex \in {End - 1, End}

\* What has come of a log cut off while blocks were being written to it.
LoggedInv ==
    cause = "logging" =>
        LET end == EndSeen(dataEnd, FileBlockCount)
        IN  /\ step = "kept" => size \in {end - 1, end} /\ size < FileBlockCount
            /\ step = "removed" => end = 0

\* What is kept has a block at least, and was not probed at the end of the file.
SearchInv ==
    /\ RecoveryTypeOK
    /\ lowIndex < highIndex
    /\ step = "open" => lowIndex = 0 /\ highIndex = FileBlockCount
    /\ step = "probe" => highIndex - lowIndex >= 2
    /\ step = "found" => fileIndex \in 1 .. FileBlockCount - 1
    /\ WholeInv /\ EndInv /\ LoggedInv

LEMMA SearchInit == InitRecovery => SearchInv
<1> SUFFICES ASSUME InitRecovery PROVE SearchInv
  OBVIOUS
<1> USE FileBlockCountAssumption
<1>1. /\ cause \in Causes /\ dataEnd \in 0 .. FileBlockCount /\ ones \in BOOLEAN
      /\ size \in 0 .. FileBlockCount /\ chainEnd \in 0 .. size
      /\ blank \in SUBSET FileBlocks
      /\ step = "open" /\ lowIndex = 0 /\ highIndex = FileBlockCount
      /\ fileIndex = 0 /\ at = 0 /\ inside = FALSE
  BY DEF InitRecovery
<1>2. RecoveryTypeOK
  <2>1. /\ step \in {"open", "probe", "found", "kept", "removed", "fatal"}
        /\ chainEnd \in 0 .. FileBlockCount
        /\ lowIndex \in 0 .. FileBlockCount /\ highIndex \in 0 .. FileBlockCount
        /\ fileIndex \in 0 .. FileBlockCount /\ at \in 0 .. FileBlockCount
    BY <1>1
  <2>2. inside \in BOOLEAN
    BY <1>1
  <2>3. QED
    BY <1>1, <2>1, <2>2 DEF RecoveryTypeOK
<1>3. WholeInv /\ LoggedInv
  BY <1>1 DEF InitRecovery, WholeInv, LoggedInv, Whole
<1>4. EndInv
  <2>1. SUFFICES ASSUME Cut PROVE EndInv
    BY DEF EndInv
  <2>2. blank = {b \in FileBlocks : ones /\ b >= dataEnd}
    BY <2>1 DEF Cut, InitRecovery
  <2>3. \A b \in FileBlocks : b \in blank <=> ones /\ b >= dataEnd
    BY <2>2
  <2>4. chainEnd <= size
    BY <1>1
  <2>5. QED
    BY <1>1, <2>3, <2>4 DEF EndInv
<1>5. QED
  BY <1>1, <1>2, <1>3, <1>4 DEF SearchInv

\* The end that can be seen is in the chain, and the first read tells whether there is one.
LEMMA EndTyped ==
    ASSUME RecoveryTypeOK
    PROVE  /\ End \in 0 .. FileBlockCount /\ End <= chainEnd /\ chainEnd \in Int
           /\ dataEnd \in Int
  BY FileBlockCountAssumption DEF RecoveryTypeOK, End, EndSeen

\* What a block that can be sought reads as: erased, if it is behind the end.
LEMMA ReadsEnd ==
    ASSUME SearchInv, Cut, NEW i \in FileBlocks, i <= chainEnd
    PROVE  \A erase \in ReadsErased(i, FALSE) : erase \in BOOLEAN /\ (erase <=> i >= End)
<1> TAKE erase \in ReadsErased(i, FALSE)
<1>1. /\ i \in Int /\ dataEnd \in Int /\ chainEnd \in Int /\ ones \in BOOLEAN
      /\ i \in blank <=> ones /\ i >= dataEnd
  BY FileBlockCountAssumption DEF SearchInv, RecoveryTypeOK, FileBlocks, EndInv
<1>2. CASE i >= chainEnd
  <2>1. i >= End
    BY <1>1, <1>2 DEF End, EndSeen
  <2>2. erase = TRUE
    BY <1>2 DEF ReadsErased
  <2>3. QED
    BY <2>1, <2>2
<1>3. CASE ~(i >= chainEnd)
  <2>1. erase \in {i \in blank}
    BY <1>3 DEF ReadsErased
  <2>2. i \in blank <=> i >= End
    BY <1>1, <1>3 DEF End, EndSeen
  <2>3. QED
    BY <2>1, <2>2
<1>4. QED
  BY <1>2, <1>3

\* A probe stays inside the file, keeps the indices apart and brings them closer
\* until they are neighbours.
LEMMA ProbeStep ==
    ASSUME SearchInv, Probe
    PROVE  /\ fileIndex' \in 1 .. FileBlockCount - 1
           /\ lowIndex < fileIndex' /\ fileIndex' < highIndex
           /\ lowIndex' \in 0 .. FileBlockCount /\ highIndex' \in 0 .. FileBlockCount
           /\ lowIndex' < highIndex'
           /\ LowerHigh => /\ lowIndex' = lowIndex
                           /\ fileIndex' <= highIndex' /\ highIndex' <= fileIndex' + 1
           /\ RaiseLow => lowIndex' = fileIndex' /\ highIndex' = highIndex
           /\ highIndex' - lowIndex' < highIndex - lowIndex
           /\ step' = "probe" => highIndex' - lowIndex' >= 2
           /\ step' = "found" => highIndex' = lowIndex' + 1
           /\ step' \in {"probe", "found"}
<1> USE FileBlockCountAssumption
<1>1. /\ lowIndex \in Nat /\ highIndex \in Nat
      /\ lowIndex < highIndex /\ highIndex <= FileBlockCount /\ highIndex - lowIndex >= 2
  BY DEF SearchInv, RecoveryTypeOK, Probe
<1> DEFINE half == (highIndex - lowIndex) \div 2
<1>2. /\ fileIndex' = lowIndex + half
      /\ half \in Nat
      /\ 2 * half \in {highIndex - lowIndex, highIndex - lowIndex - 1}
  BY <1>1, Halving DEF Probe
<1>3. /\ LowerHigh \/ RaiseLow
      /\ LowerHigh => highIndex' = highIndex - half /\ lowIndex' = lowIndex
      /\ RaiseLow => lowIndex' = lowIndex + half /\ highIndex' = highIndex
  BY DEF Probe, LowerHigh, RaiseLow
<1>4. step' = IF highIndex' - lowIndex' >= 2 THEN "probe" ELSE "found"
  BY DEF Probe, StillSearching
<1> HIDE DEF half
<1>5. half >= 1 /\ half < highIndex - lowIndex
  BY <1>1, <1>2
<1>6. QED
  BY <1>1, <1>2, <1>3, <1>4, <1>5

\* A probe keeps the end that can be seen between the indices, or goes behind the chain.
LEMMA ProbeCut ==
    ASSUME SearchInv, Probe
    PROVE  EndInv'
<1> USE FileBlockCountAssumption
<1>1. UNCHANGED <<ones, cause, dataEnd, size, chainEnd, blank>>
  BY DEF Probe, diskVars
<1>2. SUFFICES ASSUME Cut PROVE EndInv'
  BY <1>1 DEF EndInv, Cut
<1>3. /\ \A b \in FileBlocks : b \in blank <=> ones /\ b >= dataEnd
      /\ chainEnd <= size /\ End > 0
      /\ chainEnd < lowIndex \/ (lowIndex < End /\ End <= highIndex)
  BY <1>2 DEF SearchInv, EndInv, Probe, Searching
<1>4. /\ End \in Int /\ chainEnd \in Int /\ End <= chainEnd
      /\ lowIndex \in Int /\ highIndex \in Int
  BY EndTyped DEF SearchInv, RecoveryTypeOK
<1>5. PICK i : i = fileIndex'
  OBVIOUS
<1>6. i \in Int /\ i \in FileBlocks /\ lowIndex < i /\ i < highIndex
  BY <1>5, ProbeStep DEF FileBlocks
<1>7. PICK erase \in ReadsErased(at', i > chainEnd /\ inside) :
        IF erase THEN LowerHigh ELSE RaiseLow
  BY <1>5, Zenon DEF Probe
<1>8. erase \in BOOLEAN
  <2>1. ReadsErased(at', i > chainEnd /\ inside) \in {{TRUE}, BOOLEAN, {at' \in blank}}
    BY DEF ReadsErased
  <2>2. (at' \in blank) \in BOOLEAN
    OBVIOUS
  <2>3. QED
    BY <1>7, <2>1, <2>2
<1>9. i <= chainEnd => (erase <=> i >= End)
  <2>1. SUFFICES ASSUME i <= chainEnd PROVE erase <=> i >= End
    OBVIOUS
  <2>2. at' = i
    BY <1>5, <2>1, Zenon DEF Probe
  <2>3. (i > chainEnd /\ inside) = FALSE
    BY <1>4, <1>6, <2>1
  <2>4. erase \in ReadsErased(i, FALSE)
    BY <1>7, <2>2, <2>3
  <2>5. QED
    BY <1>2, <1>6, <2>1, <2>4, ReadsEnd
<1>10. /\ step' = "found" => highIndex' = lowIndex' + 1
       /\ step' \in {"probe", "found"}
  BY ProbeStep
<1>11. End' = End
  BY <1>1 DEF End, EndSeen
<1>12. SUFFICES /\ chainEnd < lowIndex' \/ (lowIndex' < End /\ End <= highIndex')
                /\ step' = "found" =>
                     IF chainEnd < lowIndex' THEN chainEnd < i ELSE i \in {End - 1, End}
  BY <1>1, <1>3, <1>5, <1>10, <1>11 DEF EndInv
<1>13. CASE erase
  <2>1. LowerHigh
    BY <1>7, <1>13
  <2>2. lowIndex' = lowIndex /\ i <= highIndex' /\ highIndex' <= i + 1 /\ highIndex' \in Int
    BY <1>5, <2>1, ProbeStep
  <2>3. CASE chainEnd < lowIndex
    BY <1>4, <1>6, <2>2, <2>3
  <2>4. CASE ~(chainEnd < lowIndex)
    <3>1. i >= End
      BY <1>4, <1>6, <1>9, <1>13
    <3>2. lowIndex < End /\ End <= highIndex'
      BY <1>3, <1>4, <1>6, <2>2, <2>4, <3>1
    <3>3. step' = "found" => i \in {End - 1, End}
      BY <1>4, <1>6, <1>10, <2>2, <3>2, Neighbours
    <3>4. QED
      BY <2>2, <2>4, <3>2, <3>3
  <2>5. QED
    BY <2>3, <2>4
<1>14. CASE ~erase
  <2>1. RaiseLow
    BY <1>7, <1>14
  <2>2. lowIndex' = i /\ highIndex' = highIndex
    BY <1>5, <2>1, ProbeStep
  <2>3. CASE chainEnd < i
    BY <2>2, <2>3
  <2>4. CASE ~(chainEnd < i)
    <3>1. i < End
      BY <1>4, <1>6, <1>9, <1>14, <2>4
    <3>2. End <= highIndex
      BY <1>3, <1>4, <1>6, <3>1
    <3>3. step' = "found" => i \in {End - 1, End}
      BY <1>4, <1>6, <1>10, <2>2, <3>1, <3>2, Neighbours
    <3>4. QED
      BY <2>2, <2>4, <3>1, <3>2, <3>3
  <2>5. QED
    BY <2>3, <2>4
<1>15. QED
  BY <1>8, <1>13, <1>14

\* The first block tells whether there is an end to search for.
LEMMA OpenCut ==
    ASSUME SearchInv, OpenTemp, Cut
    PROVE  step' = IF End = 0 THEN "removed" ELSE "probe"
<1>1. 0 \in FileBlocks /\ 0 <= chainEnd /\ End \in Nat
  BY EndTyped, FileBlockCountAssumption DEF SearchInv, RecoveryTypeOK, FileBlocks
<1>2. PICK erase \in ReadsErased(0, FALSE) : step' = IF erase THEN "removed" ELSE "probe"
  BY DEF OpenTemp
<1>3. erase \in BOOLEAN /\ (erase <=> 0 >= End)
  BY <1>1, ReadsEnd
<1>4. 0 >= End <=> End = 0
  BY <1>1
<1>5. QED
  BY <1>2, <1>3, <1>4

\* What truncate() makes of the file: cut where the search found its end, unless the chain
\* does not reach as far.
LEMMA TruncateStep ==
    ASSUME SearchInv, Truncate
    PROVE  /\ UNCHANGED <<ones, cause, dataEnd, blank, lowIndex, highIndex>>
           /\ \/ step' = "kept" /\ size' = fileIndex /\ fileIndex <= chainEnd
              \/ step' = "fatal" /\ ~(fileIndex <= size /\ fileIndex <= chainEnd)
           /\ fileIndex \in 1 .. FileBlockCount - 1
           /\ Cut => /\ chainEnd <= size
                     /\ step' = "kept" => fileIndex \in {End - 1, End}
           /\ Whole => size = FileBlockCount /\ chainEnd = FileBlockCount /\ step' = "kept"
<1>1. /\ UNCHANGED <<ones, cause, dataEnd, blank, lowIndex, highIndex>>
      /\ step = "found" /\ Searching
      /\ \/ step' = "kept" /\ size' = fileIndex /\ fileIndex <= chainEnd
         \/ step' = "fatal" /\ ~(fileIndex <= size /\ fileIndex <= chainEnd)
  BY DEF Truncate, Searching
<1>2. /\ fileIndex \in 1 .. FileBlockCount - 1 /\ chainEnd \in Int /\ lowIndex \in Int
  BY <1>1 DEF SearchInv, RecoveryTypeOK
<1>3. ASSUME Cut
      PROVE  chainEnd <= size /\ (step' = "kept" => fileIndex \in {End - 1, End})
  <2>1. /\ chainEnd <= size
        /\ IF chainEnd < lowIndex THEN chainEnd < fileIndex ELSE fileIndex \in {End - 1, End}
    BY <1>1, <1>3 DEF SearchInv, EndInv
  <2>2. QED
    BY <1>1, <1>2, <2>1
<1>4. ASSUME Whole
      PROVE  size = FileBlockCount /\ chainEnd = FileBlockCount /\ step' = "kept"
  <2>1. size = FileBlockCount /\ chainEnd = FileBlockCount
    BY <1>1, <1>4 DEF SearchInv, WholeInv
  <2>2. QED
    BY <1>1, <1>2, <2>1, FileBlockCountAssumption
<1>5. QED
  BY <1>1, <1>2, <1>3, <1>4

LEMMA SearchNext == SearchInv /\ [NextRecovery]_recoveryVars => SearchInv'
<1> SUFFICES ASSUME SearchInv, [NextRecovery]_recoveryVars PROVE SearchInv'
  OBVIOUS
<1> USE FileBlockCountAssumption
<1>1. CASE OpenTemp
  <2>1. /\ step = "open" /\ step' \in {"removed", "probe"}
        /\ UNCHANGED <<ones, cause, dataEnd, size, chainEnd, blank, lowIndex, highIndex,
                       fileIndex, at>>
        /\ inside' = (chainEnd > 0)
    BY <1>1 DEF OpenTemp, diskVars
  <2>2. lowIndex = 0 /\ highIndex = FileBlockCount
    BY <2>1 DEF SearchInv
  <2>3. RecoveryTypeOK'
    BY <2>1 DEF SearchInv, RecoveryTypeOK
  <2>4. WholeInv'
    BY <2>1 DEF SearchInv, WholeInv, Whole, Searching
  <2>5. End' = End /\ Cut' = Cut
    BY <2>1 DEF End, EndSeen, Cut
  <2>6. EndInv'
    <3>1. SUFFICES ASSUME Cut PROVE EndInv'
      BY <2>5 DEF EndInv
    <3>2. /\ \A b \in FileBlocks : b \in blank <=> ones /\ b >= dataEnd
          /\ chainEnd <= size
      BY <2>1, <3>1 DEF SearchInv, EndInv, Searching
    <3>3. End \in 0 .. FileBlockCount
      BY EndTyped DEF SearchInv
    <3>4. step' = "probe" => End > 0
      BY <1>1, <3>1, <3>3, OpenCut
    <3>5. QED
      BY <2>1, <2>2, <2>5, <3>2, <3>3, <3>4 DEF EndInv
  <2>7. LoggedInv'
    <3>1. SUFFICES ASSUME cause = "logging", step' = "removed"
                   PROVE  EndSeen(dataEnd, FileBlockCount) = 0
      BY <2>1 DEF LoggedInv, EndSeen
    <3>2. Cut /\ Whole /\ Searching
      BY <2>1, <3>1 DEF Cut, Whole, Searching
    <3>3. chainEnd = FileBlockCount
      BY <3>2 DEF SearchInv, WholeInv
    <3>4. End = 0
      BY <1>1, <3>1, <3>2, OpenCut
    <3>5. QED
      BY <3>3, <3>4 DEF End
  <2>8. QED
    BY <2>1, <2>2, <2>3, <2>4, <2>6, <2>7 DEF SearchInv
<1>2. CASE Probe
  <2>1. /\ step = "probe" /\ step' \in {"probe", "found"}
        /\ UNCHANGED <<ones, cause, dataEnd, size, chainEnd, blank>>
    BY <1>2, ProbeStep DEF Probe, diskVars
  <2>2. at' \in 0 .. FileBlockCount /\ inside' \in BOOLEAN
    <3>1. at \in 0 .. FileBlockCount /\ inside \in BOOLEAN
      BY DEF SearchInv, RecoveryTypeOK
    <3>2. \/ at' = fileIndex' /\ inside' = (fileIndex' < chainEnd)
          \/ at' = at /\ inside' = inside
      BY <1>2 DEF Probe
    <3>3. fileIndex' \in 0 .. FileBlockCount
      BY <1>2, ProbeStep
    <3>4. (fileIndex' < chainEnd) \in BOOLEAN
      OBVIOUS
    <3>5. at' \in 0 .. FileBlockCount
      BY <3>1, <3>2, <3>3
    <3>6. inside' \in BOOLEAN
      BY <3>1, <3>2, <3>4, Zenon
    <3>7. QED
      BY <3>5, <3>6
  <2>3. /\ fileIndex' \in 1 .. FileBlockCount - 1
        /\ lowIndex' \in 0 .. FileBlockCount /\ highIndex' \in 0 .. FileBlockCount
        /\ lowIndex' < highIndex'
        /\ step' = "probe" => highIndex' - lowIndex' >= 2
    BY <1>2, ProbeStep
  <2>4. RecoveryTypeOK'
    BY <2>1, <2>2, <2>3 DEF SearchInv, RecoveryTypeOK
  <2>5. WholeInv' /\ LoggedInv'
    BY <2>1 DEF SearchInv, WholeInv, LoggedInv, Whole, Searching
  <2>6. EndInv'
    BY <1>2, ProbeCut
  <2>7. QED
    BY <2>1, <2>3, <2>4, <2>5, <2>6 DEF SearchInv
<1>3. CASE Truncate
  <2>1. /\ UNCHANGED <<ones, cause, dataEnd, blank, lowIndex, highIndex>>
        /\ \/ step' = "kept" /\ size' = fileIndex /\ fileIndex <= chainEnd
           \/ step' = "fatal" /\ ~(fileIndex <= size /\ fileIndex <= chainEnd)
        /\ fileIndex \in 1 .. FileBlockCount - 1
        /\ Cut => /\ chainEnd <= size
                  /\ step' = "kept" => fileIndex \in {End - 1, End}
        /\ Whole => size = FileBlockCount /\ chainEnd = FileBlockCount /\ step' = "kept"
    BY <1>3, TruncateStep
  <2>2. RecoveryTypeOK'
    BY <1>3, <2>1 DEF Truncate, SearchInv, RecoveryTypeOK
  <2>3. WholeInv'
    BY <2>1 DEF WholeInv, Whole, Searching
  <2>4. EndInv'
    BY <2>1 DEF SearchInv, EndInv, Cut, Searching
  <2>5. LoggedInv'
    <3>1. SUFFICES ASSUME cause = "logging" PROVE LoggedInv'
      BY <2>1 DEF LoggedInv
    <3>2. step' = "kept" /\ size' \in {End - 1, End} /\ chainEnd = FileBlockCount
      BY <2>1, <3>1 DEF Cut, Whole
    <3>3. size' < FileBlockCount
      BY <2>1, <3>2
    <3>4. QED
      BY <2>1, <3>2, <3>3 DEF LoggedInv, End, EndSeen
  <2>6. QED
    BY <2>1, <2>2, <2>3, <2>4, <2>5 DEF SearchInv
<1>4. CASE UNCHANGED recoveryVars
  <2>1. UNCHANGED <<ones, cause, dataEnd, size, chainEnd, blank, step, lowIndex, highIndex,
                    fileIndex, at, inside>>
    BY <1>4 DEF recoveryVars, diskVars
  <2>2. WholeInv' /\ EndInv' /\ LoggedInv'
    BY <2>1 DEF SearchInv, WholeInv, EndInv, LoggedInv, Whole, Cut, Searching, End, EndSeen
  <2>3. QED
    BY <2>1, <2>2 DEF SearchInv, RecoveryTypeOK
<1>5. QED
  BY <1>1, <1>2, <1>3, <1>4 DEF NextRecovery, Recovered

\* For a file of any length, every variable keeps its type and the search its
\* invariant.
THEOREM SearchInvariant == SpecRecovery => []SearchInv
<1>1. QED
  BY SearchInit, SearchNext, PTL DEF SpecRecovery

THEOREM TypeCorrect == SpecRecovery => []RecoveryTypeOK
<1>1. SearchInv => RecoveryTypeOK
  BY DEF SearchInv
<1>2. QED
  BY <1>1, SearchInvariant, PTL

\* The end that can be seen of an interrupted log never leaves the interval being searched,
\* on a card of either kind.
THEOREM SearchBrackets == SpecRecovery => []EndIsBracketed
<1>1. SearchInv => EndIsBracketed
  <2>1. SUFFICES ASSUME SearchInv, cause = "logging", step \in {"probe", "found"}
                 PROVE  /\ lowIndex < EndSeen(dataEnd, FileBlockCount)
                        /\ EndSeen(dataEnd, FileBlockCount) <= highIndex
    BY DEF EndIsBracketed
  <2>2. Cut /\ Whole /\ Searching
    BY <2>1 DEF Cut, Whole, Searching
  <2>3. chainEnd = FileBlockCount
    BY <2>1, <2>2 DEF SearchInv, WholeInv
  <2>4. chainEnd < lowIndex \/ (lowIndex < End /\ End <= highIndex)
    BY <2>1, <2>2 DEF SearchInv, EndInv
  <2>5. ~(chainEnd < lowIndex)
    BY <2>1, <2>3, FileBlockCountAssumption DEF SearchInv, RecoveryTypeOK
  <2>6. QED
    BY <2>3, <2>4, <2>5 DEF End
<1>2. QED
  BY <1>1, SearchInvariant, PTL

\* Recovery keeps every written block but perhaps the last; nothing else on a card that
\* erases to ones, and the rest of the file on one that erases to zeros.
THEOREM RecoveryKeeps == SpecRecovery => []KeepsAllButTheLast
<1>1. SearchInv => KeepsAllButTheLast
  <2>1. SUFFICES ASSUME SearchInv, cause = "logging" PROVE KeepsAllButTheLast
    BY DEF KeepsAllButTheLast
  <2>2. step # "fatal"
    BY <2>1 DEF SearchInv, WholeInv, Whole
  <2>3. PICK end : end = EndSeen(dataEnd, FileBlockCount)
    OBVIOUS
  <2>4. /\ step = "kept" => size \in {end - 1, end} /\ size < FileBlockCount
        /\ step = "removed" => end = 0
    BY <2>1, <2>3 DEF SearchInv, LoggedInv
  <2>5. /\ end = IF ones /\ dataEnd < FileBlockCount THEN dataEnd ELSE FileBlockCount
        /\ dataEnd \in 0 .. FileBlockCount /\ size \in 0 .. FileBlockCount
        /\ ones \in BOOLEAN
    BY <2>1, <2>3 DEF SearchInv, RecoveryTypeOK, EndSeen
  <2>6. step = "kept" =>
          /\ size >= dataEnd - 1
          /\ IF ones THEN size <= dataEnd ELSE size = FileBlockCount - 1
    BY <2>4, <2>5, FileBlockCountAssumption
  <2>7. step = "removed" => dataEnd = 0 /\ ones
    BY <2>4, <2>5, FileBlockCountAssumption
  <2>8. QED
    BY <2>2, <2>6, <2>7 DEF KeepsAllButTheLast
<1>2. QED
  BY <1>1, SearchInvariant, PTL

\* No probe repeats: whatever the file holds, the interval shrinks at each one.
THEOREM SearchNarrows == SpecRecovery => ProbeNarrows
<1>1. SearchInv /\ [NextRecovery]_recoveryVars =>
        [step = "probe" => \/ highIndex' - lowIndex' < highIndex - lowIndex
                         \/ step' = "found"]_recoveryVars
  BY ProbeStep DEF NextRecovery, OpenTemp, Truncate, Recovered, Ended
<1>2. QED
  BY <1>1, SearchInvariant, PTL DEF SpecRecovery, ProbeNarrows

\* What the log session takes the recovery to do is what the bisection does, for a
\* file of any length, on a card of either kind, wherever the power failure cut it off:
\* while it was created, erased, written, or cut to its length.
THEOREM RecoveryForeseen == SpecRecovery => ResultIsForeseen
<1> DEFINE results == RecoveryResults(cause, dataEnd, chainEnd)
           Foreseen == /\ step' = "removed" => Removed \in results
                       /\ step' = "fatal" => Fatal \in results
                       /\ step' = "kept" => size' \in results
<1>1. ASSUME SearchInv, OpenTemp PROVE Foreseen
  <2>1. step' \in {"removed", "probe"} /\ cause \in Causes
    BY <1>1 DEF OpenTemp, SearchInv, RecoveryTypeOK
  <2>2. SUFFICES ASSUME step' = "removed" PROVE Removed \in results
    BY <2>1
  <2>3. CASE Cut
    <3>1. End = 0
      BY <1>1, <2>2, <2>3, OpenCut
    <3>2. QED
      BY <2>3, <3>1 DEF RecoveryResults, Cut, End
  <2>4. CASE ~Cut
    BY <2>1, <2>4 DEF RecoveryResults, Cut, Causes
  <2>5. QED
    BY <2>3, <2>4
<1>2. ASSUME SearchInv, Truncate PROVE Foreseen
  <2>1. cause \in Causes /\ chainEnd \in 0 .. FileBlockCount /\ End \in Int
    BY <1>2, EndTyped DEF SearchInv, RecoveryTypeOK
  <2>2. /\ \/ step' = "kept" /\ size' = fileIndex /\ fileIndex <= chainEnd
           \/ step' = "fatal" /\ ~(fileIndex <= size /\ fileIndex <= chainEnd)
        /\ fileIndex \in 1 .. FileBlockCount - 1
        /\ Cut => /\ chainEnd <= size
                  /\ step' = "kept" => fileIndex \in {End - 1, End}
        /\ Whole => step' = "kept"
    BY <1>2, TruncateStep
  <2>3. CASE step' = "kept"
    <3>1. CASE Cut
      <4>1. fileIndex \in {End - 1, End} \cap 1 .. FileBlockCount - 1
        BY <2>2, <2>3, <3>1
      <4>2. End # 0
        BY <4>1
      <4>3. fileIndex \in results
        BY <3>1, <4>1, <4>2 DEF RecoveryResults, Cut, End
      <4>4. QED
        BY <2>2, <2>3, <4>3
    <3>2. CASE ~Cut
      BY <2>1, <2>2, <2>3, <3>2 DEF RecoveryResults, Cut, Causes
    <3>3. QED
      BY <3>1, <3>2
  <2>4. CASE step' = "fatal"
    <3>1. cause \in {"creating", "cutting"}
      BY <2>1, <2>2, <2>4 DEF Whole, Causes
    <3>2. cause = "cutting" => chainEnd < FileBlockCount
      <4>1. ASSUME cause = "cutting" PROVE chainEnd < FileBlockCount
        <5>1. chainEnd <= size /\ size \in Int
          BY <1>2, <2>2, <4>1 DEF Cut, SearchInv, RecoveryTypeOK
        <5>2. chainEnd < fileIndex
          BY <2>1, <2>2, <2>4, <5>1
        <5>3. QED
          BY <2>1, <2>2, <5>2, FileBlockCountAssumption
      <4>2. QED
        BY <4>1
    <3>3. QED
      BY <2>4, <3>1, <3>2 DEF RecoveryResults
  <2>5. QED
    BY <2>2, <2>3, <2>4
<1>3. ASSUME SearchInv, Probe PROVE Foreseen
  BY <1>3, ProbeStep
<1>4. ASSUME SearchInv, [NextRecovery]_recoveryVars PROVE [Foreseen]_recoveryVars
  <2> HIDE DEF Foreseen
  <2>1. QED
    BY <1>1, <1>2, <1>3, <1>4 DEF NextRecovery, Recovered
<1>5. QED
  BY <1>4, SearchInvariant, PTL DEF SpecRecovery, ResultIsForeseen

-----------------------------------------------------------------------------
(* The invariant, by parts. *)

\* An entry belongs to a file that was created, the temporary one to the last.  It is
\* there in the phases that work on it and not when it is about to be created.
EntriesInv ==
    /\ \A n \in Names : dir[n] # NoEntry => dir[n].file \in 1 .. created
    /\ Exists(Tmp) => TmpFile = created
    /\ pc \in {"remove", "delete", "free", "resize", "link", "erase", "wait", "log",
               "stop", "rename", "renamed"} => Exists(Tmp)
    /\ pc = "create" => ~Exists(Tmp) /\ ~recovering
    /\ pc = "name" => (recovering <=> Exists(Tmp))

\* Of a file not yet created nothing is known.
FreshInv ==
    \A f \in Files : f > created =>
        /\ reach[f] = 0 /\ erased[f] = 0 /\ written[f] = 0
        /\ made[f] = 0 /\ recovered[f] = 0 /\ f \notin aliased

\* The erase calls come out even, and nothing is written before the last.
EraseInv ==
    \A f \in Files :
        /\ erased[f] = FileBlockCount \/ erased[f] % (EraseSize + 1) = 0
        /\ erased[f] < FileBlockCount => made[f] = 0

\* The numbers given are those up to some number, and the search has passed only them.
NumbersInv ==
    /\ \A m \in Numbers : \A n \in Logs : Value(m) <= Value(n) => m \in Logs
    /\ \A m \in Numbers : Value(m) < Value(binName) => m \in Logs
    /\ pc # "fatal" => binName # LastNumber
    /\ pc \in {"create", "link", "erase", "wait", "log", "stop", "rename"} =>
         binName \notin Logs
    /\ pc \in {"free", "resize"} /\ ~recovering => binName \notin Logs
    /\ pc = "renamed" => dir[binName] = dir[Tmp]

\* A log has the temporary file in common only after a rename that was cut off.
AliasInv ==
    Exists(Tmp) =>
        \A n \in Logs :
            dir[n].file = TmpFile =>
                TmpFile \in aliased \/ (pc = "renamed" /\ n = binName)

\* The temporary file while logData() works on it ...
LoggingInv ==
    /\ pc \in {"link", "erase", "wait", "log", "stop"} =>
         /\ dir[Tmp].size = FileBlockCount
         /\ made[TmpFile] = written[TmpFile]
         /\ ~recovering
    /\ pc \in {"erase", "wait", "log", "stop"} => reach[TmpFile] = FileBlockCount
    /\ pc \in {"link", "erase", "wait"} => made[TmpFile] = 0
    /\ pc = "log" => made[TmpFile] < FileBlockCount
    /\ pc \in {"wait", "log", "stop"} => erased[TmpFile] = FileBlockCount

\* ... and while it is cut or removed.
CuttingInv ==
    /\ pc \in {"free", "resize"} =>
         /\ keep + recovered[TmpFile] >= made[TmpFile]
         /\ erased[TmpFile] = FileBlockCount /\ WrittenOnly(TmpFile) =>
              keep <= written[TmpFile]
    /\ pc = "resize" => reach[TmpFile] = keep
    /\ pc \in {"remove", "delete"} => made[TmpFile] <= recovered[TmpFile] /\ recovering
    /\ pc = "boot" => recovering

\* What its entry promises when it is given its name.
PromiseInv ==
    (pc = "name" /\ recovering) \/ pc \in {"rename", "renamed"} =>
        (erased[TmpFile] = FileBlockCount =>
            /\ dir[Tmp].size <= reach[TmpFile]
            /\ WrittenOnly(TmpFile) => dir[Tmp].size <= written[TmpFile])

\* What the temporary file holds whatever happens next, and what every other file does.
HeldInv ==
    Exists(Tmp) =>
        /\ written[TmpFile] + recovered[TmpFile] >= made[TmpFile]
        /\ reach[TmpFile] + recovered[TmpFile] >= made[TmpFile]
        /\ dir[Tmp].size + recovered[TmpFile] >= made[TmpFile]

Found(f) ==
    made[f] > recovered[f] =>
        /\ reach[f] >= made[f] - recovered[f]
        /\ \E n \in Logs : dir[n].file = f /\ dir[n].size >= made[f] - recovered[f]

FoundInv == \A f \in Files : f # TmpFile => Found(f)

IInv ==
    /\ TypeOK /\ EntriesInv /\ FreshInv /\ EraseInv /\ NumbersInv /\ AliasInv
    /\ LoggingInv /\ CuttingInv /\ PromiseInv /\ HeldInv /\ FoundInv
    /\ NamesInOrder /\ LogsPromiseNoMore

-----------------------------------------------------------------------------
(* The numbers in names. *)

\* The name of the temporary file has no digits.
LEMMA TmpIsNoNumber == Tmp \notin Numbers
<1> SUFFICES ASSUME Tmp \in Numbers PROVE FALSE
  OBVIOUS
<1>1. DOMAIN Tmp = 1 .. 3
  BY DEF Numbers
<1>2. DOMAIN Tmp = {}
  BY DEF Tmp
<1>3. QED
  BY <1>1, <1>2

\* Digits and number of a name.
LEMMA DigitsTyped ==
    ASSUME NEW d \in Numbers
    PROVE  /\ d[1] \in 0 .. Radix - 1 /\ d[2] \in 0 .. Radix - 1 /\ d[3] \in 0 .. Radix - 1
           /\ d[1] \in Nat /\ d[2] \in Nat /\ d[3] \in Nat /\ Radix \in Nat
           /\ Value(d) \in Nat
<1>1. /\ d[1] \in 0 .. Radix - 1 /\ d[2] \in 0 .. Radix - 1 /\ d[3] \in 0 .. Radix - 1
      /\ d[1] \in Nat /\ d[2] \in Nat /\ d[3] \in Nat /\ Radix \in Nat
  BY NamesAssumption DEF Numbers
<1>2. d[1] * Radix + d[2] \in Nat
  BY <1>1
<1>3. QED
  BY <1>1, <1>2 DEF Value

\* A number to a base determines its last digit and the rest.
LEMMA LastDigit ==
    ASSUME NEW r \in Nat \ {0}, NEW a \in Nat, NEW b \in Nat,
           NEW x \in 0 .. r - 1, NEW y \in 0 .. r - 1,
           a * r + x = b * r + y
    PROVE  a = b /\ x = y
<1>1. r * (a - b) = y - x
  <2>1. r * (a - b) = a * r - b * r /\ a * r \in Nat /\ b * r \in Nat
    OBVIOUS
  <2>2. QED
    BY <2>1
<1>2. a - b = 0
  BY <1>1, SmallMultiple
<1>3. QED
  BY <1>1, <1>2

\* Different names have different numbers.
LEMMA ValueDetermines ==
    ASSUME NEW m \in Numbers, NEW n \in Numbers, Value(m) = Value(n)
    PROVE  m = n
<1> DEFINE High(d) == d[1] * Radix + d[2]
           Unique(a, b, x, y) == a * Radix + x = b * Radix + y => a = b /\ x = y
<1>1. Radix \in Nat \ {0}
  BY NamesAssumption
<1>2. High(m) \in Nat /\ High(n) \in Nat
  BY DigitsTyped
<1>3. High(m) * Radix + m[3] = High(n) * Radix + n[3]
  BY DEF Value
<1>4. /\ m[1] \in Nat /\ m[2] \in 0 .. Radix - 1 /\ m[3] \in 0 .. Radix - 1
      /\ n[1] \in Nat /\ n[2] \in 0 .. Radix - 1 /\ n[3] \in 0 .. Radix - 1
  BY DigitsTyped, Zenon
<1>5. ASSUME NEW a \in Nat, NEW b \in Nat,
             NEW x \in 0 .. Radix - 1, NEW y \in 0 .. Radix - 1
      PROVE  Unique(a, b, x, y)
  BY <1>1, <1>5, LastDigit
<1>6. Unique(High(m), High(n), m[3], n[3]) /\ Unique(m[1], n[1], m[2], n[2])
  <2> HIDE DEF High, Unique
  <2>1. QED
    BY <1>2, <1>4, <1>5, Zenon
<1>7. High(m) = High(n) /\ m[3] = n[3]
  <2> HIDE DEF High
  <2>1. QED
    BY <1>3, <1>6
<1>8. m[1] = n[1] /\ m[2] = n[2]
  BY <1>6, <1>7
<1>9. QED
  BY <1>7, <1>8 DEF Numbers

\* The search begins at zero, not at the last name.
LEMMA FirstName ==
    FirstNumber \in Numbers /\ Value(FirstNumber) = 0 /\ FirstNumber # LastNumber
<1>1. Radix \in Nat /\ Radix > 1
  BY NamesAssumption
<1>2. /\ FirstNumber \in [1 .. 3 -> 0 .. Radix - 1]
      /\ FirstNumber[1] = 0 /\ FirstNumber[2] = 0 /\ FirstNumber[3] = 0
  BY <1>1 DEF FirstNumber
<1>3. LastNumber[3] = Radix - 1
  BY DEF LastNumber
<1>4. QED
  BY <1>1, <1>2, <1>3 DEF Numbers, Value

\* The name tried next has the next number.
LEMMA NextName ==
    ASSUME NEW d \in Numbers, d # LastNumber
    PROVE  NextNumber(d) \in Numbers /\ Value(NextNumber(d)) = Value(d) + 1
<1>1. Radix \in Nat /\ Radix > 1
  BY NamesAssumption
<1>2. CASE d[3] # Radix - 1
  <2>1. /\ NextNumber(d) \in Numbers /\ NextNumber(d)[1] = d[1]
        /\ NextNumber(d)[2] = d[2] /\ NextNumber(d)[3] = d[3] + 1
    BY <1>1, <1>2, DigitsTyped DEF NextNumber, Numbers
  <2>2. (d[1] * Radix + d[2]) * Radix \in Nat
    BY DigitsTyped
  <2>3. QED
    BY <2>1, <2>2, DigitsTyped DEF Value
<1>3. CASE d[3] = Radix - 1 /\ d[2] # Radix - 1
  <2>1. /\ NextNumber(d) \in Numbers /\ NextNumber(d)[1] = d[1]
        /\ NextNumber(d)[2] = d[2] + 1 /\ NextNumber(d)[3] = 0
    BY <1>1, <1>3, DigitsTyped DEF NextNumber, Numbers
  <2>2. (d[1] * Radix + (d[2] + 1)) * Radix = (d[1] * Radix + d[2]) * Radix + Radix
    BY DigitsTyped
  <2>3. (d[1] * Radix + d[2]) * Radix \in Nat
    BY DigitsTyped
  <2>4. QED
    BY <1>3, <2>1, <2>2, <2>3, DigitsTyped DEF Value
<1>4. CASE d[3] = Radix - 1 /\ d[2] = Radix - 1
  <2>1. d[1] # Radix - 1
    <3>1. SUFFICES ASSUME d[1] = Radix - 1 PROVE FALSE
      OBVIOUS
    <3>2. LastNumber \in [1 .. 3 -> 0 .. Radix - 1]
      BY <1>1 DEF LastNumber
    <3>3. LastNumber[1] = d[1] /\ LastNumber[2] = d[2] /\ LastNumber[3] = d[3]
      BY <1>4, <3>1 DEF LastNumber
    <3>4. d = LastNumber
      BY <3>2, <3>3 DEF Numbers
    <3>5. QED
      BY <3>4
  <2>2. /\ NextNumber(d) \in Numbers /\ NextNumber(d)[1] = d[1] + 1
        /\ NextNumber(d)[2] = 0 /\ NextNumber(d)[3] = 0
    BY <1>1, <1>4, <2>1, DigitsTyped DEF NextNumber, Numbers
  <2>3. (d[1] * Radix + (Radix - 1)) * Radix + Radix = (d[1] * Radix + Radix) * Radix
    <3>1. \A a, r \in Nat : (a + (r - 1)) * r + r = (a + r) * r
      OBVIOUS
    <3>2. d[1] * Radix \in Nat
      BY DigitsTyped
    <3>3. QED
      BY <1>1, <3>1, <3>2, Zenon
  <2>4. (d[1] + 1) * Radix = d[1] * Radix + Radix
    BY DigitsTyped
  <2>5. (d[1] * Radix + (Radix - 1)) * Radix \in Int
    BY DigitsTyped
  <2>6. Value(NextNumber(d)) = (d[1] * Radix + Radix) * Radix
    <3>1. ((d[1] + 1) * Radix + 0) * Radix + 0 = ((d[1] + 1) * Radix) * Radix
      BY DigitsTyped
    <3>2. QED
      BY <2>2, <2>4, <3>1 DEF Value
  <2>7. QED
    BY <1>1, <1>4, <2>2, <2>3, <2>5, <2>6 DEF Value
<1>5. QED
  BY <1>2, <1>3, <1>4

-----------------------------------------------------------------------------
(* The temporary file. *)

\* While it has an entry it is the file created last.
LEMMA TempIsThere ==
    ASSUME TypeOK, EntriesInv, Exists(Tmp)
    PROVE  /\ TmpFile \in Files /\ TmpFile = created /\ TmpFile \in Nat
           /\ dir[Tmp] \in [file : 0 .. MaxFiles, size : 0 .. FileBlockCount]
           /\ dir[Tmp].size \in 0 .. FileBlockCount /\ dir[Tmp] # NoEntry
<1> USE FileBlockCountAssumption, NamesAssumption
<1>1. Tmp \in Names
  BY DEF Names
<1>2. dir[Tmp] \in [file : 0 .. MaxFiles, size : 0 .. FileBlockCount]
  BY <1>1 DEF TypeOK
<1>3. dir[Tmp] # NoEntry
  BY DEF Exists
<1>4. TmpFile \in 1 .. created /\ TmpFile = created
  BY <1>1, <1>3 DEF EntriesInv, TmpFile
<1>5. created \in 0 .. MaxFiles
  BY DEF TypeOK
<1>6. QED
  BY <1>2, <1>3, <1>4, <1>5 DEF Files

\* What the recovery decides, whatever logData() was doing when the power failed: it
\* removes a file only if it owes nothing, and keeps at most what was written if the card
\* erases to ones.
LEMMA Outcome ==
    ASSUME IInv, RecoverTempFile
    PROVE  /\ pc = "boot" /\ Exists(Tmp) /\ pc' \in {"remove", "fatal", "free"}
           /\ pc' # "free" => UNCHANGED <<keep, recovered>>
           /\ pc' = "remove" => made[TmpFile] <= recovered[TmpFile]
           /\ pc' = "free" =>
                /\ keep' \in 0 .. dir[Tmp].size
                /\ recovered' = [recovered EXCEPT ![TmpFile] = @ + 1]
                /\ keep' + recovered[TmpFile] + 1 >= made[TmpFile]
                /\ erased[TmpFile] = FileBlockCount /\ ones => keep' <= written[TmpFile]
<1> DEFINE w == written[TmpFile]
           c == reach[TmpFile]
           e == EndSeen(w, c)
           results == RecoveryResults(CauseFound, w, c)
<1>1. pc = "boot" /\ Exists(Tmp) /\ FindEnd
  BY DEF RecoverTempFile
<1>2. TmpFile \in Files
  BY <1>1, TempIsThere DEF IInv
<1>3. /\ w \in Nat /\ c \in Nat /\ erased[TmpFile] \in 0 .. FileBlockCount
      /\ made[TmpFile] \in 0 .. FileBlockCount /\ recovered[TmpFile] \in Nat
      /\ ones \in BOOLEAN
  BY <1>2, FileBlockCountAssumption DEF IInv, TypeOK
<1>4. /\ e \in Nat /\ made[TmpFile] <= e + recovered[TmpFile]
      /\ ones => e <= w
  BY <1>1, <1>3 DEF IInv, HeldInv, EndSeen
<1>5. erased[TmpFile] < FileBlockCount => made[TmpFile] = 0
  BY <1>2 DEF IInv, EraseInv
<1>6. CASE erased[TmpFile] < FileBlockCount
  <2>1. CauseFound \in {"erasing", "creating"}
    BY <1>3, <1>6, FileBlockCountAssumption DEF CauseFound
  <2>2. \A r \in results : r = Removed \/ r = Fatal \/ r \in Nat
    BY <2>1, FileBlockCountAssumption DEF RecoveryResults
  <2>3. QED
    BY <1>1, <1>3, <1>5, <1>6, <2>2, FileBlockCountAssumption
    DEF FindEnd, Removed, Fatal
<1>7. CASE erased[TmpFile] >= FileBlockCount
  <2>1. CauseFound \in {"logging", "cutting"}
    BY <1>3, <1>7, FileBlockCountAssumption DEF CauseFound
  <2>2. \A r \in results :
          \/ r = Fatal
          \/ r = Removed /\ e = 0
          \/ r \in {e - 1, e} /\ r \in Nat
    BY <2>1, <1>3, FileBlockCountAssumption DEF RecoveryResults
  <2> HIDE DEF results, e, w, c
  <2>3. PICK result \in results :
          \/ result = Removed /\ pc' = "remove" /\ UNCHANGED <<keep, recovered>>
          \/ result = Fatal /\ pc' = "fatal" /\ UNCHANGED <<keep, recovered>>
          \/ /\ result \in 0 .. dir[Tmp].size
             /\ pc' = "free" /\ keep' = result
             /\ recovered' = [recovered EXCEPT ![TmpFile] = @ + 1]
    BY <1>1 DEF FindEnd, results, w, c
  <2>4. CASE result = Removed
    BY <1>1, <1>3, <1>4, <2>2, <2>3, <2>4 DEF Removed, Fatal
  <2>5. CASE result = Fatal
    BY <1>1, <2>3, <2>5 DEF Removed, Fatal
  <2>6. CASE result \in 0 .. dir[Tmp].size
    <3>1. result # Fatal /\ result # Removed /\ result \in {e - 1, e} /\ result \in Nat
      BY <2>2, <2>6 DEF Removed, Fatal
    <3>2. result + recovered[TmpFile] + 1 >= made[TmpFile] /\ (ones => result <= w)
      BY <1>3, <1>4, <3>1 DEF w
    <3>3. QED
      BY <1>1, <2>3, <2>6, <3>1, <3>2 DEF w
  <2>7. QED
    BY <2>3, <2>4, <2>5, <2>6
<1>8. QED
  BY <1>3, <1>6, <1>7, FileBlockCountAssumption

-----------------------------------------------------------------------------
(* What a step can change. *)

\* The card stays, and a file once recovered does.
LEMMA CardStays ==
    ASSUME IInv, Next
    PROVE  /\ ones' = ones
           /\ \A f \in Files : recovered'[f] = 0 => recovered[f] = 0
<1>1. recovered \in [Files -> Nat]
  BY DEF IInv, TypeOK
<1>2. CASE RecoverTempFile
  BY <1>1, <1>2 DEF RecoverTempFile, FindEnd, cardVars
<1>3. CASE ~RecoverTempFile
  BY <1>3 DEF Next, ProgramStep, NoTempFile, FreeFile, DeleteEntry, FreeTail, Resize,
     TryNextName, NameFound, CreateFile, LinkClusters, EraseBlocks, StartWriting,
     FirstMessage, WriteBlock, StopLogging, CloseFile, CallFails, RenameAtOnce,
     WriteNewEntry, RemoveOldEntry, PowerFails, Blinking, vars, cardVars, seenVars
<1>4. QED
  BY <1>2, <1>3

\* Only the temporary file is erased, written, linked and cut.
FilesAreLeft ==
    \A f \in Files : f # TmpFile =>
        /\ reach'[f] = reach[f] /\ erased'[f] = erased[f] /\ written'[f] = written[f]
        /\ made'[f] = made[f] /\ recovered'[f] = recovered[f]
        /\ f \in aliased' <=> f \in aliased

\* The only entry of a log that is written is the one of a rename.
LogIsNamed ==
    /\ pc = "rename" /\ dir[binName] = NoEntry /\ dir'[binName] = dir[Tmp]
    /\ \A n \in Numbers : n # binName => dir'[n] = dir[n]

LogsAreLeft == \A n \in Numbers : dir'[n] = dir[n]

\* Every other file stays as it is ...
LEMMA FilesFrame ==
    ASSUME IInv, Next PROVE FilesAreLeft
<1> USE DEF FilesAreLeft
<1>1. /\ reach \in [Files -> 0 .. FileBlockCount] /\ erased \in [Files -> 0 .. FileBlockCount]
      /\ written \in [Files -> 0 .. FileBlockCount] /\ made \in [Files -> 0 .. FileBlockCount]
      /\ recovered \in [Files -> Nat]
  BY DEF IInv, TypeOK
<1>2. CASE FreeFile \/ FreeTail \/ LinkClusters
  BY <1>1, <1>2 DEF FreeFile, FreeTail, LinkClusters, seenVars
<1>3. CASE Resize
  BY <1>1, <1>3 DEF Resize, seenVars
<1>4. CASE EraseBlocks \/ WriteBlock
  BY <1>1, <1>4 DEF EraseBlocks, WriteBlock, seenVars
<1>5. CASE RecoverTempFile
  BY <1>1, <1>5 DEF RecoverTempFile, FindEnd, cardVars
<1>6. CASE CallFails \/ PowerFails
  BY <1>6 DEF CallFails, PowerFails, RenameCutOff, cardVars
<1>7. CASE CreateFile \/ DeleteEntry \/ RenameAtOnce \/ WriteNewEntry \/ RemoveOldEntry
  BY <1>7 DEF CreateFile, DeleteEntry, RenameAtOnce, WriteNewEntry, RemoveOldEntry, seenVars
<1>8. CASE NoTempFile \/ TryNextName \/ NameFound \/ StartWriting \/ FirstMessage
           \/ StopLogging \/ CloseFile \/ Blinking
  BY <1>8 DEF NoTempFile, TryNextName, NameFound, StartWriting, FirstMessage,
              StopLogging, CloseFile, Blinking, vars, cardVars, seenVars
<1>9. QED
  BY <1>2, <1>3, <1>4, <1>5, <1>6, <1>7, <1>8, Zenon DEF Next, ProgramStep

\* ... and so does every log, whatever step is taken.
LEMMA LogsFrame ==
    ASSUME IInv, Next
    PROVE  LogsAreLeft \/ ((RenameAtOnce \/ WriteNewEntry) /\ LogIsNamed)
<1> USE DEF LogsAreLeft
<1>1. /\ dir \in [Names -> [file : 0 .. MaxFiles, size : 0 .. FileBlockCount]]
      /\ binName \in Numbers
  BY DEF IInv, TypeOK
<1>2. Tmp \notin Numbers /\ Tmp \in Names /\ Numbers \subseteq Names
  BY TmpIsNoNumber DEF Names
<1>3. CASE RenameAtOnce \/ WriteNewEntry
  <2>1. pc = "rename" /\ dir[binName] = NoEntry
    BY <1>3 DEF RenameAtOnce, WriteNewEntry, Exists
  <2>2. \/ dir' = [dir EXCEPT ![binName] = dir[Tmp], ![Tmp] = NoEntry]
        \/ dir' = [dir EXCEPT ![binName] = dir[Tmp]]
    BY <1>3 DEF RenameAtOnce, WriteNewEntry
  <2>3. QED
    BY <1>1, <1>2, <1>3, <2>1, <2>2 DEF LogIsNamed
<1>4. CASE DeleteEntry \/ RemoveOldEntry \/ Resize \/ CreateFile
  <2>1. \E e : dir' = [dir EXCEPT ![Tmp] = e]
    BY <1>4 DEF DeleteEntry, RemoveOldEntry, Resize, CreateFile
  <2>2. QED
    BY <1>1, <1>2, <2>1
<1>5. CASE FreeFile \/ FreeTail \/ LinkClusters \/ EraseBlocks \/ WriteBlock
  BY <1>5 DEF FreeFile, FreeTail, LinkClusters, EraseBlocks, WriteBlock
<1>6. CASE NoTempFile \/ TryNextName \/ NameFound \/ StartWriting \/ FirstMessage
           \/ StopLogging \/ CloseFile \/ Blinking \/ RecoverTempFile \/ CallFails \/ PowerFails
  BY <1>6 DEF NoTempFile, TryNextName, NameFound, StartWriting, FirstMessage, StopLogging,
              CloseFile, Blinking, RecoverTempFile, CallFails, PowerFails, vars, cardVars
<1>7. QED
  BY <1>3, <1>4, <1>5, <1>6, Zenon DEF Next, ProgramStep

\* With the entries of the logs the set of logs stays.
LEMMA SameLogs ==
    ASSUME LogsAreLeft PROVE Logs' = Logs
  BY DEF LogsAreLeft, Logs, NoEntry

\* A rename adds one.
LEMMA OneMoreLog ==
    ASSUME IInv, LogIsNamed
    PROVE  /\ binName \in Numbers /\ binName \notin Logs /\ Logs' = Logs \cup {binName}
           /\ Exists(Tmp) /\ dir'[binName] = dir[Tmp] /\ dir[Tmp].file = TmpFile
           /\ \A n \in Logs : dir'[n] = dir[n]
<1>1. Exists(Tmp)
  BY DEF LogIsNamed, IInv, EntriesInv
<1>2. binName \in Numbers /\ dir'[binName] # NoEntry /\ dir[binName] = NoEntry
  BY <1>1 DEF IInv, TypeOK, LogIsNamed, Exists
<1>3. \A n \in Numbers : n # binName => dir'[n] = dir[n]
  BY DEF LogIsNamed
<1>4. Logs' = Logs \cup {binName} /\ binName \notin Logs
  BY <1>2, <1>3 DEF Logs, NoEntry
<1>5. QED
  BY <1>1, <1>2, <1>3, <1>4 DEF Logs, LogIsNamed, TmpFile

-----------------------------------------------------------------------------
(* The parts of the invariant, step by step. *)

\* The types, a group of actions at a time by what they write.
LEMMA TypeStep ==
    ASSUME IInv, Next PROVE TypeOK'
<1> USE FileBlockCountAssumption, EraseAssumption, NamesAssumption
<1>1. TypeOK /\ EntriesInv
  BY DEF IInv
<1>2. Exists(Tmp) => TmpFile \in Files /\ dir[Tmp].size \in 0 .. FileBlockCount
  BY <1>1, TempIsThere
<1>3. CASE NoTempFile \/ NameFound \/ StartWriting \/ FirstMessage \/ StopLogging \/ Blinking
  BY <1>1, <1>3 DEF NoTempFile, NameFound, StartWriting, FirstMessage, StopLogging,
                    Blinking, TypeOK, Pcs, vars, cardVars, ramVars, seenVars
<1>4. CASE RecoverTempFile
  <2>1. /\ pc' \in Pcs /\ keep' \in 0 .. FileBlockCount /\ recovered' \in [Files -> Nat]
    BY <1>1, <1>2, <1>4, Outcome DEF TypeOK, Pcs
  <2>2. UNCHANGED <<cardVars, recovering, binName, made, aliased, failures>>
    BY <1>4 DEF RecoverTempFile
  <2>3. QED
    BY <1>1, <2>1, <2>2 DEF TypeOK, cardVars
<1>5. CASE FreeFile \/ LinkClusters
  <2>1. reach' \in [Files -> 0 .. FileBlockCount]
    BY <1>1, <1>5 DEF FreeFile, LinkClusters, TypeOK
  <2>2. QED
    BY <1>1, <1>5, <2>1 DEF FreeFile, LinkClusters, TypeOK, Pcs, seenVars
<1>6. CASE DeleteEntry \/ RemoveOldEntry
  <2>1. NoEntry \in [file : 0 .. MaxFiles, size : 0 .. FileBlockCount]
    BY DEF NoEntry
  <2>2. dir' \in [Names -> [file : 0 .. MaxFiles, size : 0 .. FileBlockCount]]
    BY <1>1, <1>6, <2>1 DEF DeleteEntry, RemoveOldEntry, TypeOK
  <2>3. QED
    BY <1>1, <1>6, <2>2 DEF DeleteEntry, RemoveOldEntry, AfterRename, TypeOK, Pcs, seenVars
<1>7. CASE FreeTail
  BY <1>1, <1>7 DEF FreeTail, TypeOK, Pcs, seenVars
<1>8. CASE Resize
  <2>1. dir' \in [Names -> [file : 0 .. MaxFiles, size : 0 .. FileBlockCount]]
    BY <1>1, <1>8 DEF Resize, TypeOK, Names
  <2>2. written' \in [Files -> 0 .. FileBlockCount]
    BY <1>1, <1>8 DEF Resize, TypeOK
  <2>3. QED
    BY <1>1, <1>8, <2>1, <2>2 DEF Resize, TypeOK, Pcs, seenVars
<1>9. CASE TryNextName
  <2>1. pc # "fatal" /\ binName' = NextNumber(binName)
    BY <1>9 DEF TryNextName
  <2>2. binName' \in Numbers
    BY <1>1, <2>1, NextName DEF IInv, NumbersInv, TypeOK
  <2>3. QED
    BY <1>1, <1>9, <2>2 DEF TryNextName, TypeOK, Pcs, cardVars, seenVars
<1>10. CASE CreateFile
  <2>1. created' \in 0 .. MaxFiles
    BY <1>1, <1>10 DEF CreateFile, TypeOK
  <2>2. [file |-> created', size |-> FileBlockCount]
          \in [file : 0 .. MaxFiles, size : 0 .. FileBlockCount]
    BY <2>1
  <2>3. dir' \in [Names -> [file : 0 .. MaxFiles, size : 0 .. FileBlockCount]]
    BY <1>1, <1>10, <2>2 DEF CreateFile, TypeOK
  <2>4. QED
    BY <1>1, <1>10, <2>1, <2>3 DEF CreateFile, TypeOK, Pcs, seenVars
<1>11. CASE EraseBlocks
  <2>1. Exists(Tmp)
    BY <1>1, <1>11 DEF EraseBlocks, EntriesInv
  <2>2. erased[TmpFile] \in 0 .. FileBlockCount
    BY <1>1, <1>2, <2>1 DEF TypeOK
  <2>3. EndErase + 1 \in 0 .. FileBlockCount
    BY <1>11, <2>2 DEF EndErase
  <2>4. erased' \in [Files -> 0 .. FileBlockCount]
    BY <1>1, <1>11, <2>3 DEF EraseBlocks, TypeOK
  <2>5. QED
    BY <1>1, <1>11, <2>4 DEF EraseBlocks, TypeOK, ramVars, seenVars
<1>12. CASE WriteBlock
  <2>1. /\ TmpFile \in Files /\ made[TmpFile] = written[TmpFile]
        /\ made[TmpFile] < FileBlockCount
    BY <1>1, <1>2, <1>12 DEF WriteBlock, EntriesInv, IInv, LoggingInv
  <2>2. made[TmpFile] + 1 \in 0 .. FileBlockCount /\ written[TmpFile] + 1 \in 0 .. FileBlockCount
    BY <1>1, <2>1 DEF TypeOK
  <2>3. /\ made' \in [Files -> 0 .. FileBlockCount]
        /\ written' \in [Files -> 0 .. FileBlockCount]
    BY <1>1, <1>12, <2>2 DEF WriteBlock, TypeOK
  <2>4. QED
    BY <1>1, <1>12, <2>3 DEF WriteBlock, TypeOK, Pcs
<1>13. CASE CloseFile
  <2>1. Exists(Tmp)
    BY <1>1, <1>13 DEF CloseFile, EntriesInv
  <2>2. LengthToKeep \in 0 .. FileBlockCount
    BY <1>1, <1>2, <2>1 DEF LengthToKeep, TypeOK
  <2>3. QED
    BY <1>1, <1>13, <2>2 DEF CloseFile, TypeOK, Pcs, cardVars, seenVars
<1>14. CASE RenameAtOnce \/ WriteNewEntry
  <2>1. Tmp \in Names /\ dir[Tmp] \in [file : 0 .. MaxFiles, size : 0 .. FileBlockCount]
    BY <1>1 DEF TypeOK, Names
  <2>2. dir' \in [Names -> [file : 0 .. MaxFiles, size : 0 .. FileBlockCount]]
    BY <1>1, <1>14, <2>1 DEF RenameAtOnce, WriteNewEntry, TypeOK, NoEntry
  <2>3. QED
    BY <1>1, <1>14, <2>2 DEF RenameAtOnce, WriteNewEntry, AfterRename, TypeOK, Pcs, seenVars
<1>15. CASE CallFails \/ PowerFails
  <2>1. pc = "renamed" => TmpFile \in Files
    BY <1>1, <1>2 DEF EntriesInv
  <2>2. aliased' \subseteq Files
    BY <1>1, <1>15, <2>1 DEF CallFails, PowerFails, RenameCutOff, TypeOK
  <2>3. binName' \in Numbers /\ failures' \in 0 .. MaxFailures
    BY <1>1, <1>15, FirstName DEF CallFails, PowerFails, TypeOK
  <2>4. QED
    BY <1>1, <1>15, <2>2, <2>3 DEF CallFails, PowerFails, TypeOK, Pcs, cardVars
<1>16. QED
  BY <1>3, <1>4, <1>5, <1>6, <1>7, <1>8, <1>9, <1>10, <1>11, <1>12, <1>13, <1>14, <1>15,
     Zenon DEF Next, ProgramStep

\* Entries appear and go with the phases of the program.
LEMMA EntriesStep ==
    ASSUME IInv, Next PROVE EntriesInv'
<1> USE DEF EntriesInv, Exists, TmpFile
<1>1. TypeOK /\ EntriesInv /\ created \in Nat
  BY NamesAssumption DEF IInv, TypeOK
<1>2. /\ dir \in [Names -> [file : 0 .. MaxFiles, size : 0 .. FileBlockCount]]
      /\ Tmp \in Names /\ binName \in Names /\ binName # Tmp
  BY <1>1, TmpIsNoNumber DEF TypeOK, Names
<1>3. CASE NoTempFile \/ NameFound \/ StartWriting \/ FirstMessage \/ StopLogging \/ Blinking
           \/ FreeFile \/ FreeTail \/ LinkClusters \/ EraseBlocks \/ WriteBlock \/ CloseFile
           \/ TryNextName \/ CallFails \/ PowerFails
  BY <1>1, <1>3 DEF NoTempFile, NameFound, StartWriting, FirstMessage, StopLogging, Blinking,
                    FreeFile, FreeTail, LinkClusters, EraseBlocks, WriteBlock, CloseFile,
                    TryNextName, CallFails, PowerFails, vars, cardVars, ramVars
<1>4. CASE RecoverTempFile
  <2>1. pc' \in {"remove", "fatal", "free"} /\ dir[Tmp] # NoEntry
    BY <1>4, Outcome
  <2>2. UNCHANGED <<dir, created>>
    BY <1>4 DEF RecoverTempFile, cardVars
  <2>3. QED
    BY <1>1, <2>1, <2>2
<1>5. CASE DeleteEntry \/ RemoveOldEntry
  BY <1>1, <1>2, <1>5 DEF DeleteEntry, RemoveOldEntry, AfterRename
<1>6. CASE Resize
  BY <1>1, <1>2, <1>6 DEF Resize, NoEntry
<1>7. CASE CreateFile
  <2>1. /\ \A n \in Names : n # Tmp => dir'[n] = dir[n]
        /\ dir'[Tmp].file = created' /\ created' = created + 1 /\ pc' = "link"
    BY <1>2, <1>7 DEF CreateFile
  <2>2. QED
    BY <1>1, <2>1 DEF NoEntry
<1>8. CASE RenameAtOnce
  BY <1>1, <1>2, <1>8 DEF RenameAtOnce, AfterRename
<1>9. CASE WriteNewEntry
  BY <1>1, <1>2, <1>9 DEF WriteNewEntry
<1>10. QED
  BY <1>3, <1>4, <1>5, <1>6, <1>7, <1>8, <1>9, Zenon DEF Next, ProgramStep

\* The number of files only grows; what a step changes is of the last one.
LEMMA FreshStep ==
    ASSUME IInv, Next PROVE FreshInv'
<1>1. TypeOK /\ EntriesInv /\ FreshInv /\ created \in Nat
  BY NamesAssumption DEF IInv, TypeOK
<1>2. created' \in Nat /\ created' >= created
  <2>1. CASE CreateFile
    BY <1>1, <2>1 DEF CreateFile
  <2>2. CASE ~CreateFile
    BY <1>1, <2>2 DEF Next, ProgramStep, NoTempFile, RecoverTempFile, FreeFile, DeleteEntry,
       FreeTail, Resize, TryNextName, NameFound, LinkClusters, EraseBlocks, StartWriting,
       FirstMessage, WriteBlock, StopLogging, CloseFile, CallFails, RenameAtOnce,
       WriteNewEntry, RemoveOldEntry, PowerFails, Blinking, vars, cardVars
  <2>3. QED
    BY <2>1, <2>2
<1>3. \A f \in Files : f > created => f # TmpFile
  <2>1. TmpFile = 0 \/ TmpFile = created
    BY <1>1 DEF EntriesInv, Exists, NoEntry, TmpFile
  <2>2. QED
    BY <1>1, <2>1 DEF Files
<1>4. FilesAreLeft
  BY FilesFrame
<1>5. QED
  BY <1>1, <1>2, <1>3, <1>4 DEF FreshInv, FilesAreLeft, Files

\* A whole turn of a counter leaves what it shows.
LEMMA OneTurn ==
    ASSUME NEW m \in Nat \ {0}, NEW x \in Nat, x % m = 0 PROVE (x + m) % m = 0
<1>1. (x + m * 1) % m = x % m
  BY ModShift
<1>2. QED
  BY <1>1

\* Each erase call erases EraseSize + 1 blocks or what is left.
LEMMA EraseStep ==
    ASSUME IInv, Next PROVE EraseInv'
<1> USE FileBlockCountAssumption, EraseAssumption DEF EraseInv
<1>1. TypeOK /\ EntriesInv /\ EraseInv
  BY DEF IInv
<1>2. \A f \in Files : erased[f] \in 0 .. FileBlockCount
  BY <1>1 DEF TypeOK
<1>3. CASE EraseBlocks
  <2>1. /\ TmpFile \in Files /\ made[TmpFile] = 0 /\ made' = made
        /\ erased' = [erased EXCEPT ![TmpFile] = EndErase + 1]
    <3>1. Exists(Tmp)
      BY <1>1, <1>3 DEF EraseBlocks, EntriesInv
    <3>2. QED
      BY <1>1, <1>3, <3>1, TempIsThere DEF EraseBlocks, IInv, LoggingInv, seenVars
  <2>2. EndErase + 1 = FileBlockCount \/ (EndErase + 1) % (EraseSize + 1) = 0
    <3>1. MoreToErase /\ erased[TmpFile] \in Nat
      BY <1>2, <1>3, <2>1 DEF EraseBlocks
    <3>2. erased[TmpFile] % (EraseSize + 1) = 0
      BY <1>1, <2>1, <3>1 DEF MoreToErase
    <3>3. (erased[TmpFile] + (EraseSize + 1)) % (EraseSize + 1) = 0
      <4>1. EraseSize + 1 \in Nat \ {0}
        OBVIOUS
      <4>2. QED
        BY <3>1, <3>2, <4>1, OneTurn, Zenon
    <3>4. QED
      BY <3>1, <3>3 DEF EndErase
  <2>3. erased \in [Files -> 0 .. FileBlockCount]
    BY <1>1 DEF TypeOK
  <2>4. QED
    BY <1>1, <2>1, <2>2, <2>3
<1>4. CASE WriteBlock
  <2>1. /\ TmpFile \in Files /\ erased[TmpFile] = FileBlockCount /\ erased' = erased
        /\ made' = [made EXCEPT ![TmpFile] = @ + 1]
    <3>1. Exists(Tmp)
      BY <1>1, <1>4 DEF WriteBlock, EntriesInv
    <3>2. QED
      BY <1>1, <1>4, <3>1, TempIsThere DEF WriteBlock, IInv, LoggingInv
  <2>2. made \in [Files -> 0 .. FileBlockCount]
    BY <1>1 DEF TypeOK
  <2>3. QED
    BY <1>1, <2>1, <2>2
<1>5. CASE ~EraseBlocks /\ ~WriteBlock
  <2>1. UNCHANGED <<erased, made>>
    BY <1>5 DEF Next, ProgramStep, NoTempFile, RecoverTempFile, FreeFile, DeleteEntry,
       FreeTail, Resize, TryNextName, NameFound, CreateFile, LinkClusters, StartWriting,
       FirstMessage, StopLogging, CloseFile, CallFails, RenameAtOnce, WriteNewEntry,
       RemoveOldEntry, PowerFails, Blinking, vars, cardVars, seenVars
  <2>2. QED
    BY <1>1, <2>1
<1>6. QED
  BY <1>3, <1>4, <1>5

\* Names are given without a gap, and the search stops at the first that is free.
LEMMA NumbersStep ==
    ASSUME IInv, Next PROVE NumbersInv'
<1>1. TypeOK /\ EntriesInv /\ NumbersInv /\ binName \in Numbers
  BY DEF IInv, TypeOK
<1>2. \A n \in Numbers : Value(n) \in Nat
  BY DigitsTyped
<1>3. CASE LogsAreLeft
  <2>1. Logs' = Logs
    BY <1>3, SameLogs
  <2>2. \A m \in Numbers : \A n \in Logs' : Value(m) <= Value(n) => m \in Logs'
    BY <1>1, <2>1 DEF NumbersInv
  <2>3. CASE TryNextName
    <3>1. /\ pc = "name" /\ binName # LastNumber /\ binName \in Logs
          /\ binName' = NextNumber(binName)
          /\ pc' = IF binName' = LastNumber THEN "fatal" ELSE "name"
      BY <1>1, <2>3 DEF TryNextName, NumbersInv, Logs, Exists
    <3>2. binName' \in Numbers /\ Value(binName') = Value(binName) + 1
      BY <1>1, <3>1, NextName
    <3>3. ASSUME NEW m \in Numbers, Value(m) < Value(binName') PROVE m \in Logs
      <4>1. Value(m) <= Value(binName)
        BY <1>1, <1>2, <3>2, <3>3
      <4>2. QED
        BY <1>1, <3>1, <4>1 DEF NumbersInv
    <3>4. QED
      BY <2>1, <2>2, <3>1, <3>3 DEF NumbersInv
  <2>4. CASE PowerFails
    <3>1. pc' = "boot" /\ binName' = FirstNumber
      BY <2>4 DEF PowerFails
    <3>2. \A m \in Numbers : ~(Value(m) < Value(binName'))
      BY <1>2, <3>1, FirstName
    <3>3. QED
      BY <2>2, <3>1, <3>2, FirstName DEF NumbersInv
  <2>5. CASE ~TryNextName /\ ~PowerFails
    <3>1. binName' = binName
      BY <2>5 DEF Next, ProgramStep, NoTempFile, RecoverTempFile, FreeFile, DeleteEntry,
         FreeTail, Resize, NameFound, CreateFile, LinkClusters, EraseBlocks, StartWriting,
         FirstMessage, WriteBlock, StopLogging, CloseFile, CallFails, RenameAtOnce,
         WriteNewEntry, RemoveOldEntry, Blinking, vars, ramVars
    <3>2. pc' # "fatal" => pc # "fatal"
      BY <2>5 DEF Next, ProgramStep, NoTempFile, RecoverTempFile, FreeFile, DeleteEntry,
         FreeTail, Resize, NameFound, CreateFile, LinkClusters, EraseBlocks, StartWriting,
         FirstMessage, WriteBlock, StopLogging, CloseFile, CallFails, RenameAtOnce,
         WriteNewEntry, RemoveOldEntry, Blinking, vars, ramVars
    <3>3. /\ pc' \in {"create", "link", "erase", "wait", "log", "stop", "rename"} =>
               binName \notin Logs
          /\ pc' \in {"free", "resize"} /\ ~recovering' => binName \notin Logs
      BY <1>1, <2>5 DEF NumbersInv, CuttingInv, IInv, Logs, Exists, Next, ProgramStep,
         NoTempFile, RecoverTempFile, FindEnd, FreeFile, DeleteEntry,
         FreeTail, Resize, NameFound, CreateFile, LinkClusters, EraseBlocks, StartWriting,
         FirstMessage, WriteBlock, StopLogging, CloseFile, CallFails, RenameAtOnce,
         WriteNewEntry, RemoveOldEntry, AfterRename, Blinking, vars, ramVars
    <3>4. pc' = "renamed" => pc = "renamed" /\ dir' = dir
      <4>1. ~WriteNewEntry
        <5>1. SUFFICES ASSUME WriteNewEntry PROVE FALSE
          OBVIOUS
        <5>2. Exists(Tmp) /\ dir' = [dir EXCEPT ![binName] = dir[Tmp]] /\ dir[binName] = NoEntry
          BY <1>1, <5>1 DEF WriteNewEntry, EntriesInv, Exists
        <5>3. dir'[binName] # dir[binName]
          BY <1>1, <5>2 DEF TypeOK, Names, Exists
        <5>4. QED
          BY <1>1, <1>3, <5>3 DEF LogsAreLeft
      <4>2. QED
        BY <2>5, <4>1 DEF Next, ProgramStep, NoTempFile, RecoverTempFile, FindEnd, FreeFile,
           DeleteEntry, FreeTail, Resize, NameFound, CreateFile, LinkClusters, EraseBlocks,
           StartWriting, FirstMessage, WriteBlock, StopLogging, CloseFile, CallFails,
           RenameAtOnce, RemoveOldEntry, AfterRename, Blinking, vars, cardVars, ramVars
    <3>5. QED
      BY <1>1, <2>1, <2>2, <3>1, <3>2, <3>3, <3>4 DEF NumbersInv
  <2>6. QED
    BY <2>3, <2>4, <2>5
<1>4. CASE (RenameAtOnce \/ WriteNewEntry) /\ LogIsNamed
  <2>1. Logs' = Logs \cup {binName} /\ dir'[binName] = dir[Tmp] /\ binName' = binName
    BY <1>4, OneMoreLog DEF RenameAtOnce, WriteNewEntry
  <2>2. pc = "rename" /\ (pc' = "name" \/ (WriteNewEntry /\ pc' = "renamed"))
    BY <1>4 DEF RenameAtOnce, WriteNewEntry, AfterRename
  <2>3. \A m \in Numbers : Value(m) <= Value(binName) => m \in Logs'
    <3>1. SUFFICES ASSUME NEW m \in Numbers, Value(m) <= Value(binName) PROVE m \in Logs'
      OBVIOUS
    <3>2. CASE Value(m) = Value(binName)
      BY <1>1, <2>1, <3>2, ValueDetermines
    <3>3. CASE Value(m) < Value(binName)
      BY <1>1, <2>1, <3>3 DEF NumbersInv
    <3>4. QED
      BY <1>1, <1>2, <3>1, <3>2, <3>3
  <2>4. \A m \in Numbers : \A n \in Logs' : Value(m) <= Value(n) => m \in Logs'
    BY <1>1, <2>1, <2>3 DEF NumbersInv
  <2>5. \A m \in Numbers : Value(m) < Value(binName) => m \in Logs'
    BY <1>1, <2>1 DEF NumbersInv
  <2>6. WriteNewEntry => dir'[Tmp] = dir[Tmp]
    BY <1>1, TmpIsNoNumber DEF WriteNewEntry, TypeOK, Names
  <2>7. QED
    BY <1>1, <2>1, <2>2, <2>4, <2>5, <2>6 DEF NumbersInv
<1>5. QED
  BY <1>3, <1>4, LogsFrame

\* What becomes of the temporary entry.
TempStays == TmpFile' = TmpFile /\ Exists(Tmp)' = Exists(Tmp)

TempGoes ==
    /\ DeleteEntry \/ RenameAtOnce \/ RemoveOldEntry
    /\ ~Exists(Tmp)' /\ TmpFile' = 0

TempComes ==
    /\ CreateFile
    /\ ~Exists(Tmp) /\ TmpFile = 0 /\ TmpFile' = created + 1 /\ TmpFile' \in Files
    /\ dir'[Tmp].size = FileBlockCount

\* It stays, unless a file is created, removed or renamed.
LEMMA TempFrame ==
    ASSUME IInv, Next PROVE TempStays \/ TempGoes \/ TempComes
<1> USE DEF Exists, TmpFile
<1>1. /\ dir \in [Names -> [file : 0 .. MaxFiles, size : 0 .. FileBlockCount]]
      /\ Tmp \in Names /\ binName \in Names /\ binName # Tmp /\ EntriesInv
      /\ created \in 0 .. MaxFiles
  BY TmpIsNoNumber DEF IInv, TypeOK, Names
<1>2. CASE DeleteEntry \/ RenameAtOnce \/ RemoveOldEntry
  BY <1>1, <1>2 DEF DeleteEntry, RenameAtOnce, RemoveOldEntry, NoEntry, TempGoes
<1>3. CASE CreateFile
  <2>1. dir'[Tmp] = [file |-> created + 1, size |-> FileBlockCount]
    BY <1>1, <1>3 DEF CreateFile
  <2>2. dir[Tmp] = NoEntry /\ created + 1 \in 1 .. MaxFiles
    BY <1>1, <1>3, NamesAssumption DEF CreateFile
  <2>3. QED
    BY <1>3, <2>1, <2>2 DEF TempComes, NoEntry, Files
<1>4. CASE Resize
  <2>1. Exists(Tmp) /\ TmpFile \in 1 .. created
    BY <1>1, <1>4 DEF EntriesInv, Resize
  <2>2. dir'[Tmp].file = dir[Tmp].file /\ dir'[Tmp] # NoEntry
    BY <1>1, <1>4, <2>1 DEF Resize, NoEntry
  <2>3. QED
    BY <2>1, <2>2 DEF TempStays
<1>5. CASE WriteNewEntry
  BY <1>1, <1>5 DEF WriteNewEntry, TempStays
<1>6. CASE NoTempFile \/ NameFound \/ StartWriting \/ FirstMessage \/ StopLogging \/ Blinking
           \/ FreeFile \/ FreeTail \/ LinkClusters \/ EraseBlocks \/ WriteBlock \/ CloseFile
           \/ TryNextName \/ CallFails \/ PowerFails \/ RecoverTempFile
  <2>1. dir' = dir
    BY <1>6 DEF NoTempFile, NameFound, StartWriting, FirstMessage, StopLogging, Blinking,
       FreeFile, FreeTail, LinkClusters, EraseBlocks, WriteBlock, CloseFile,
       TryNextName, CallFails, PowerFails, RecoverTempFile, vars, cardVars
  <2>2. QED
    BY <2>1 DEF TempStays
<1>7. QED
  BY <1>2, <1>3, <1>4, <1>5, <1>6, Zenon DEF Next, ProgramStep

\* Only the cut-off rename leaves the temporary file under two names.
LEMMA AliasStep ==
    ASSUME IInv, Next PROVE AliasInv'
<1>1. TypeOK /\ EntriesInv /\ AliasInv /\ created \in Nat
  BY NamesAssumption DEF IInv, TypeOK
<1>2. CASE TempGoes
  BY <1>2 DEF TempGoes, AliasInv
<1>3. CASE TempComes
  <2>1. LogsAreLeft
    <3>1. ~RenameAtOnce /\ ~WriteNewEntry
      BY <1>3 DEF TempComes, CreateFile, RenameAtOnce, WriteNewEntry
    <3>2. QED
      BY <3>1, LogsFrame
  <2>2. \A n \in Logs' : dir'[n].file \in 1 .. created
    BY <1>1, <2>1, SameLogs DEF EntriesInv, LogsAreLeft, Logs, Names
  <2>3. QED
    BY <1>1, <1>3, <2>2 DEF TempComes, AliasInv
<1>4. CASE TempStays /\ WriteNewEntry
  <2>1. pc = "rename" /\ pc' = "renamed" /\ binName' = binName /\ aliased' = aliased
    BY <1>4 DEF WriteNewEntry, seenVars
  <2>2. LogIsNamed \/ LogsAreLeft
    BY LogsFrame
  <2>3. \A n \in Logs' : n = binName \/ (n \in Logs /\ dir'[n] = dir[n])
    <3>1. CASE LogIsNamed
      BY <3>1, OneMoreLog
    <3>2. CASE LogsAreLeft
      BY <3>2, SameLogs DEF LogsAreLeft, Logs
    <3>3. QED
      BY <2>2, <3>1, <3>2
  <2>4. QED
    BY <1>1, <1>4, <2>1, <2>3 DEF TempStays, AliasInv
<1>5. CASE TempStays /\ ~WriteNewEntry
  <2>1. LogsAreLeft
    <3>1. ~RenameAtOnce
      <4>1. SUFFICES ASSUME RenameAtOnce PROVE FALSE
        OBVIOUS
      <4>2. Exists(Tmp) /\ dir' = [dir EXCEPT ![binName] = dir[Tmp], ![Tmp] = NoEntry]
        BY <1>1, <4>1 DEF RenameAtOnce, EntriesInv
      <4>3. dir'[Tmp] = NoEntry
        BY <1>1, <4>2 DEF TypeOK, Names
      <4>4. QED
        BY <1>5, <4>2, <4>3 DEF TempStays, Exists
    <3>2. QED
      BY <1>5, <3>1, LogsFrame
  <2>2. Logs' = Logs
    BY <2>1, SameLogs
  <2>3. TmpFile \in aliased => TmpFile \in aliased'
    BY FilesFrame, <1>5 DEF Next, ProgramStep, FilesAreLeft, NoTempFile, RecoverTempFile,
       FreeFile, DeleteEntry, FreeTail, Resize, TryNextName, NameFound, CreateFile,
       LinkClusters, EraseBlocks, StartWriting, FirstMessage, WriteBlock, StopLogging,
       CloseFile, CallFails, RenameCutOff, RenameAtOnce, RemoveOldEntry, PowerFails,
       Blinking, vars, seenVars
  <2>4. pc = "renamed" => TmpFile \in aliased' \/ (pc' = "renamed" /\ binName' = binName)
                          \/ RemoveOldEntry
    BY <1>5 DEF Next, ProgramStep, NoTempFile, RecoverTempFile,
       FreeFile, DeleteEntry, FreeTail, Resize, TryNextName, NameFound, CreateFile,
       LinkClusters, EraseBlocks, StartWriting, FirstMessage, WriteBlock, StopLogging,
       CloseFile, CallFails, RenameCutOff, RenameAtOnce, PowerFails, Blinking, vars, ramVars
  <2>5. RemoveOldEntry => ~Exists(Tmp)'
    BY <1>1 DEF RemoveOldEntry, TypeOK, Names, Exists
  <2>6. ASSUME Exists(Tmp)', NEW n \in Logs', dir'[n].file = TmpFile'
        PROVE  TmpFile' \in aliased' \/ (pc' = "renamed" /\ n = binName')
    <3>1. n \in Logs /\ n \in Numbers /\ dir'[n] = dir[n]
      BY <2>1, <2>2, <2>6 DEF Logs, LogsAreLeft
    <3>2. TmpFile \in aliased \/ (pc = "renamed" /\ n = binName)
      BY <1>1, <1>5, <2>6, <3>1 DEF TempStays, AliasInv
    <3>3. QED
      BY <1>5, <2>3, <2>4, <2>5, <2>6, <3>2 DEF TempStays
  <2>7. QED
    BY <2>6 DEF AliasInv
<1>6. QED
  BY <1>2, <1>3, <1>4, <1>5, TempFrame

\* With one block left over, the calls would not have come out even.
LEMMA OneOver == (FileBlockCount - 1) % (EraseSize + 1) # 0
<1>1. FileBlockCount - 1 \in Nat /\ EraseSize + 1 \in Nat \ {0}
  BY FileBlockCountAssumption, EraseAssumption
<1>2. SUFFICES ASSUME (FileBlockCount - 1) % (EraseSize + 1) = 0 PROVE FALSE
  OBVIOUS
<1>3. (((FileBlockCount - 1) % (EraseSize + 1)) + 1) % (EraseSize + 1)
        = ((FileBlockCount - 1) + 1) % (EraseSize + 1)
  <2>1. (EraseSize + 1) % (EraseSize + 1) = 0 /\ 1 \in Nat
    BY EraseAssumption
  <2>2. QED
    BY <1>1, <2>1, ModAdd, Zenon
<1>4. (FileBlockCount - 1) + 1 = FileBlockCount /\ 0 + 1 = 1 /\ 1 % (EraseSize + 1) = 1
  BY FileBlockCountAssumption, EraseAssumption
<1>5. QED
  BY <1>2, <1>3, <1>4, EraseAssumption

\* What the temporary file is known to be in each phase, an action at a time.
LEMMA LoggingStep ==
    ASSUME IInv, Next PROVE LoggingInv'
<1> USE FileBlockCountAssumption DEF LoggingInv
<1>1. TypeOK /\ EntriesInv /\ FreshInv /\ EraseInv /\ LoggingInv
  BY DEF IInv
<1>2. Exists(Tmp) =>
        /\ TmpFile \in Files /\ reach[TmpFile] \in 0 .. FileBlockCount
        /\ made[TmpFile] \in 0 .. FileBlockCount /\ written[TmpFile] \in 0 .. FileBlockCount
        /\ erased[TmpFile] \in 0 .. FileBlockCount
  BY <1>1, TempIsThere DEF TypeOK
<1>3. CASE CreateFile
  <2>1. TmpFile' \in Files /\ TmpFile' > created /\ dir'[Tmp].size = FileBlockCount
    <3>1. TempComes
      <4>1. Exists(Tmp)' /\ ~Exists(Tmp)
        BY <1>1, <1>3 DEF CreateFile, TypeOK, Names, Exists, NoEntry
      <4>2. QED
        BY <4>1, TempFrame DEF TempStays, TempGoes
    <3>2. QED
      BY <1>1, <3>1, NamesAssumption DEF TempComes, TypeOK
  <2>2. pc' = "link" /\ UNCHANGED <<recovering, made, written>>
    BY <1>3 DEF CreateFile, seenVars
  <2>3. ~recovering
    BY <1>1, <1>3 DEF CreateFile, EntriesInv
  <2>4. QED
    BY <1>1, <2>1, <2>2, <2>3 DEF FreshInv
<1>4. CASE LinkClusters
  <2>1. Exists(Tmp) /\ pc = "link" /\ pc' = "erase"
    BY <1>1, <1>4 DEF LinkClusters, EntriesInv
  <2>2. reach'[TmpFile] = FileBlockCount
    BY <1>1, <1>2, <1>4, <2>1 DEF LinkClusters, TypeOK
  <2>3. UNCHANGED <<dir, made, written, recovering>>
    BY <1>4 DEF LinkClusters, seenVars
  <2>4. QED
    BY <1>1, <2>1, <2>2, <2>3 DEF TmpFile
<1>5. CASE EraseBlocks
  BY <1>1, <1>5 DEF EraseBlocks, ramVars, seenVars, TmpFile
<1>6. CASE StartWriting
  <2>1. Exists(Tmp) /\ pc = "erase" /\ pc' = "wait" /\ ~MoreToErase
    BY <1>1, <1>6 DEF StartWriting, EntriesInv
  <2>2. erased[TmpFile] = FileBlockCount
    <3>1. SUFFICES ASSUME erased[TmpFile] = FileBlockCount - 1
                   PROVE  FALSE
      BY <1>2, <2>1 DEF MoreToErase
    <3>2. (FileBlockCount - 1) % (EraseSize + 1) = 0
      BY <1>1, <1>2, <2>1, <3>1 DEF EraseInv
    <3>3. QED
      BY <3>2, OneOver
  <2>3. UNCHANGED <<cardVars, recovering, seenVars>>
    BY <1>6 DEF StartWriting
  <2>4. QED
    BY <1>1, <2>1, <2>2, <2>3 DEF cardVars, seenVars, TmpFile
<1>7. CASE FirstMessage \/ StopLogging
  BY <1>1, <1>7 DEF FirstMessage, StopLogging, cardVars, seenVars, TmpFile
<1>8. CASE WriteBlock
  <2>1. Exists(Tmp) /\ pc = "log"
    BY <1>1, <1>8 DEF WriteBlock, EntriesInv
  <2>2. /\ made'[TmpFile] = made[TmpFile] + 1 /\ written'[TmpFile] = written[TmpFile] + 1
        /\ pc' = IF written'[TmpFile] = FileBlockCount THEN "stop" ELSE "log"
        /\ UNCHANGED <<dir, reach, erased, recovering>>
    BY <1>1, <1>2, <1>8, <2>1 DEF WriteBlock, TypeOK
  <2>3. QED
    BY <1>1, <1>2, <2>1, <2>2 DEF TmpFile
<1>9. CASE RecoverTempFile
  <2>1. pc' \in {"remove", "fatal", "free"}
    BY <1>9, Outcome
  <2>2. QED
    BY <2>1
<1>10. CASE NoTempFile \/ FreeFile \/ DeleteEntry \/ FreeTail \/ Resize \/ TryNextName
            \/ NameFound \/ CloseFile \/ CallFails \/ RenameAtOnce \/ WriteNewEntry
            \/ RemoveOldEntry \/ PowerFails
  <2>1. pc' \notin {"link", "erase", "wait", "log", "stop"}
    BY <1>10 DEF NoTempFile, FreeFile, DeleteEntry, FreeTail, Resize, TryNextName, NameFound,
       CloseFile, CallFails, RenameAtOnce, WriteNewEntry, RemoveOldEntry, PowerFails,
       AfterRename
  <2>2. QED
    BY <2>1
<1>11. CASE Blinking
  BY <1>1, <1>11 DEF Blinking, vars, cardVars, ramVars, seenVars, TmpFile
<1>12. QED
  BY <1>3, <1>4, <1>5, <1>6, <1>7, <1>8, <1>9, <1>10, <1>11, Zenon DEF Next, ProgramStep

\* Cutting it keeps what it owes, and no more than was written.
LEMMA CuttingStep ==
    ASSUME IInv, Next PROVE CuttingInv'
<1> USE FileBlockCountAssumption DEF CuttingInv
<1>1. TypeOK /\ EntriesInv /\ LoggingInv /\ CuttingInv /\ HeldInv
  BY DEF IInv
<1>2. Exists(Tmp) =>
        /\ TmpFile \in Files /\ reach[TmpFile] \in 0 .. FileBlockCount
        /\ made[TmpFile] \in 0 .. FileBlockCount /\ written[TmpFile] \in 0 .. FileBlockCount
        /\ recovered[TmpFile] \in Nat
  BY <1>1, TempIsThere DEF TypeOK
<1>3. CASE RecoverTempFile
  <2>1. /\ Exists(Tmp) /\ pc = "boot" /\ recovering /\ recovered \in [Files -> Nat]
        /\ UNCHANGED <<cardVars, recovering, made>>
    BY <1>1, <1>3, Outcome DEF RecoverTempFile, TypeOK
  <2>2. pc' = "free" => recovered'[TmpFile] = recovered[TmpFile] + 1
    BY <1>2, <1>3, <2>1, Outcome
  <2>3. pc' = "free" => (WrittenOnly(TmpFile)' <=> ones)
    BY <1>2, <2>1, <2>2 DEF WrittenOnly, TmpFile, cardVars
  <2>4. QED
    BY <1>2, <1>3, <2>1, <2>2, <2>3, Outcome DEF TmpFile, cardVars
<1>4. CASE CloseFile
  <2>1. /\ Exists(Tmp) /\ pc = "stop" /\ UNCHANGED <<cardVars, recovering, seenVars>>
        /\ pc' = "rename" \/ (pc' = "free" /\ keep' = written[TmpFile])
    BY <1>1, <1>4 DEF CloseFile, EntriesInv, LengthToKeep
  <2>2. QED
    BY <1>1, <1>2, <2>1 DEF HeldInv, TmpFile, cardVars, seenVars
<1>5. CASE FreeTail
  <2>1. Exists(Tmp) /\ pc = "free"
    BY <1>1, <1>5 DEF FreeTail, EntriesInv
  <2>2. /\ pc' = "fatal" \/ (pc' = "resize" /\ reach'[TmpFile] = keep)
        /\ UNCHANGED <<ones, dir, erased, written, recovering, keep, seenVars>>
    BY <1>1, <1>2, <1>5, <2>1 DEF FreeTail, TypeOK
  <2>3. QED
    BY <1>1, <2>1, <2>2 DEF TmpFile, seenVars, WrittenOnly
<1>6. CASE FreeFile
  BY <1>1, <1>6 DEF FreeFile, TmpFile, seenVars
<1>7. CASE PowerFails
  BY <1>7 DEF PowerFails
<1>8. CASE NoTempFile \/ DeleteEntry \/ Resize \/ TryNextName \/ NameFound \/ CreateFile
           \/ LinkClusters \/ EraseBlocks \/ StartWriting \/ FirstMessage \/ WriteBlock
           \/ StopLogging \/ CallFails \/ RenameAtOnce \/ WriteNewEntry
           \/ RemoveOldEntry \/ Blinking
  <2>1. pc' \notin {"free", "resize", "remove", "delete", "boot"}
    BY <1>8 DEF NoTempFile, DeleteEntry, Resize, TryNextName, NameFound, CreateFile,
       LinkClusters, EraseBlocks, StartWriting, FirstMessage, WriteBlock, StopLogging,
       CallFails, RenameAtOnce, WriteNewEntry, RemoveOldEntry, AfterRename,
       Blinking, vars, ramVars
  <2>2. QED
    BY <2>1
<1>9. QED
  BY <1>3, <1>4, <1>5, <1>6, <1>7, <1>8, Zenon DEF Next, ProgramStep

\* What has been cut to its length promises no more than it holds.
LEMMA PromiseStep ==
    ASSUME IInv, Next PROVE PromiseInv'
<1> USE FileBlockCountAssumption DEF PromiseInv
<1>1. TypeOK /\ EntriesInv /\ LoggingInv /\ CuttingInv /\ PromiseInv
  BY DEF IInv
<1>2. Exists(Tmp) =>
        /\ TmpFile \in Files /\ written[TmpFile] \in 0 .. FileBlockCount
        /\ keep \in 0 .. FileBlockCount
  BY <1>1, TempIsThere DEF TypeOK
<1>3. CASE Resize
  <2>1. Exists(Tmp) /\ pc = "resize"
    BY <1>1, <1>3 DEF Resize, EntriesInv
  <2>2. /\ dir'[Tmp].size = keep /\ TmpFile' = TmpFile /\ UNCHANGED <<ones, reach, erased, recovered>>
        /\ written'[TmpFile] = IF keep < written[TmpFile] THEN keep ELSE written[TmpFile]
    BY <1>1, <1>2, <1>3, <2>1 DEF Resize, TypeOK, Names, TmpFile, seenVars
  <2>3. QED
    BY <1>1, <1>2, <2>1, <2>2 DEF CuttingInv, WrittenOnly
<1>4. CASE CloseFile
  BY <1>1, <1>4 DEF CloseFile, LoggingInv, TmpFile, cardVars, seenVars
<1>5. CASE TryNextName \/ NameFound \/ Blinking
  BY <1>1, <1>5 DEF TryNextName, NameFound, Blinking, EntriesInv, TmpFile,
                    vars, cardVars, ramVars, seenVars, WrittenOnly
<1>6. CASE WriteNewEntry
  <2>1. dir'[Tmp] = dir[Tmp] /\ pc = "rename" /\ UNCHANGED <<ones, reach, erased, written, recovered>>
    BY <1>1, <1>6, TmpIsNoNumber DEF WriteNewEntry, TypeOK, Names, seenVars
  <2>2. QED
    BY <1>1, <2>1 DEF TmpFile, WrittenOnly
<1>7. CASE RecoverTempFile
  BY <1>7, Outcome
<1>8. CASE NoTempFile \/ FreeFile \/ DeleteEntry \/ FreeTail \/ CreateFile \/ LinkClusters
           \/ EraseBlocks \/ StartWriting \/ FirstMessage \/ WriteBlock \/ StopLogging
           \/ CallFails \/ RenameAtOnce \/ RemoveOldEntry \/ PowerFails
  <2>1. pc' \notin {"rename", "renamed"} /\ (pc' = "name" => ~recovering')
    BY <1>8 DEF NoTempFile, FreeFile, DeleteEntry, FreeTail, CreateFile, LinkClusters,
       EraseBlocks, StartWriting, FirstMessage, WriteBlock, StopLogging, CallFails,
       RenameAtOnce, RemoveOldEntry, PowerFails, AfterRename, ramVars
  <2>2. QED
    BY <2>1
<1>9. QED
  BY <1>3, <1>4, <1>5, <1>6, <1>7, <1>8, Zenon DEF Next, ProgramStep

\* Whatever is done to the temporary file, it does not come to lack more of what was
\* written than the recoveries have cost.
LEMMA HeldStep ==
    ASSUME IInv, Next PROVE HeldInv'
<1> USE FileBlockCountAssumption DEF HeldInv
<1>1. TypeOK /\ EntriesInv /\ FreshInv /\ LoggingInv /\ CuttingInv /\ HeldInv
  BY DEF IInv
<1>2. Exists(Tmp) =>
        /\ TmpFile \in Files /\ reach[TmpFile] \in 0 .. FileBlockCount
        /\ made[TmpFile] \in 0 .. FileBlockCount /\ written[TmpFile] \in 0 .. FileBlockCount
        /\ recovered[TmpFile] \in Nat /\ dir[Tmp].size \in 0 .. FileBlockCount
        /\ keep \in 0 .. FileBlockCount
  BY <1>1, TempIsThere DEF TypeOK
<1>3. CASE TempGoes
  BY <1>3 DEF TempGoes
<1>4. CASE TempComes
  <2>1. UNCHANGED <<reach, written, made, recovered>> /\ TmpFile' \in Files /\ TmpFile' > created
    BY <1>1, <1>4, NamesAssumption DEF TempComes, CreateFile, seenVars, TypeOK
  <2>2. QED
    BY <1>1, <1>4, <2>1 DEF FreshInv, TempComes
<1>5. CASE TempStays /\ FreeFile
  <2>1. Exists(Tmp) /\ reach'[TmpFile] = 0 /\ made[TmpFile] <= recovered[TmpFile]
    BY <1>1, <1>2, <1>5 DEF FreeFile, EntriesInv, CuttingInv, TypeOK
  <2>2. UNCHANGED <<dir, written, made, recovered>>
    BY <1>5 DEF FreeFile, seenVars
  <2>3. QED
    BY <1>1, <1>2, <1>5, <2>1, <2>2 DEF TempStays
<1>6. CASE TempStays /\ FreeTail
  <2>1. /\ Exists(Tmp) /\ keep + recovered[TmpFile] >= made[TmpFile]
        /\ reach'[TmpFile] = keep \/ reach' = reach
    BY <1>1, <1>2, <1>6 DEF FreeTail, EntriesInv, CuttingInv, TypeOK
  <2>2. UNCHANGED <<dir, written, made, recovered>>
    BY <1>6 DEF FreeTail, seenVars
  <2>3. QED
    BY <1>1, <1>2, <1>6, <2>1, <2>2 DEF TempStays
<1>7. CASE TempStays /\ Resize
  <2>1. /\ Exists(Tmp) /\ keep + recovered[TmpFile] >= made[TmpFile]
        /\ dir'[Tmp].size = keep
        /\ written'[TmpFile] = IF keep < written[TmpFile] THEN keep ELSE written[TmpFile]
    BY <1>1, <1>2, <1>7 DEF Resize, EntriesInv, CuttingInv, TypeOK, Names
  <2>2. UNCHANGED <<reach, made, recovered>>
    BY <1>7 DEF Resize, seenVars
  <2>3. QED
    BY <1>1, <1>2, <1>7, <2>1, <2>2 DEF TempStays
<1>8. CASE TempStays /\ LinkClusters
  <2>1. Exists(Tmp) /\ made[TmpFile] = 0 /\ reach'[TmpFile] = FileBlockCount
    BY <1>1, <1>2, <1>8 DEF LinkClusters, EntriesInv, LoggingInv, TypeOK
  <2>2. UNCHANGED <<dir, written, made, recovered>>
    BY <1>8 DEF LinkClusters, seenVars
  <2>3. QED
    BY <1>1, <1>2, <1>8, <2>1, <2>2 DEF TempStays
<1>9. CASE TempStays /\ WriteBlock
  <2>1. /\ Exists(Tmp) /\ made[TmpFile] < FileBlockCount
        /\ reach[TmpFile] = FileBlockCount /\ dir[Tmp].size = FileBlockCount
        /\ made'[TmpFile] = made[TmpFile] + 1 /\ written'[TmpFile] = written[TmpFile] + 1
    BY <1>1, <1>2, <1>9 DEF WriteBlock, EntriesInv, LoggingInv, TypeOK
  <2>2. UNCHANGED <<dir, reach, recovered>>
    BY <1>9 DEF WriteBlock
  <2>3. QED
    BY <1>1, <1>2, <1>9, <2>1, <2>2 DEF TempStays
<1>10. CASE TempStays /\ RecoverTempFile
  <2>1. /\ Exists(Tmp) /\ UNCHANGED <<dir, reach, written, made>>
        /\ recovered' = recovered \/ recovered' = [recovered EXCEPT ![TmpFile] = @ + 1]
    BY <1>10, Outcome DEF RecoverTempFile, cardVars
  <2>2. recovered'[TmpFile] \in {recovered[TmpFile], recovered[TmpFile] + 1}
    BY <1>1, <1>2, <2>1 DEF TypeOK
  <2>3. QED
    BY <1>1, <1>2, <1>10, <2>1, <2>2 DEF TempStays
<1>11. CASE TempStays /\ WriteNewEntry
  <2>1. dir'[Tmp] = dir[Tmp] /\ UNCHANGED <<reach, written, made, recovered>>
    BY <1>1, <1>11, TmpIsNoNumber DEF WriteNewEntry, TypeOK, Names, seenVars
  <2>2. QED
    BY <1>1, <1>11, <2>1 DEF TempStays
<1>12. CASE TempStays /\ (NoTempFile \/ TryNextName \/ NameFound \/ EraseBlocks \/ StartWriting
                          \/ FirstMessage \/ StopLogging \/ CloseFile \/ CallFails
                          \/ PowerFails \/ Blinking)
  <2>1. UNCHANGED <<dir, reach, written, made, recovered>>
    BY <1>12 DEF NoTempFile, TryNextName, NameFound, EraseBlocks, StartWriting, FirstMessage,
       StopLogging, CloseFile, CallFails, PowerFails, Blinking, vars, cardVars, seenVars
  <2>2. QED
    BY <1>1, <1>12, <2>1 DEF TempStays
<1>13. TempStays => ~CreateFile /\ ~DeleteEntry /\ ~RenameAtOnce /\ ~RemoveOldEntry
  BY <1>1, TmpIsNoNumber DEF TempStays, CreateFile, DeleteEntry, RenameAtOnce, RemoveOldEntry,
     TypeOK, EntriesInv, Names, Exists, NoEntry
<1>14. QED
  BY <1>3, <1>4, <1>5, <1>6, <1>7, <1>8, <1>9, <1>10, <1>11, <1>12, <1>13, TempFrame,
     Zenon DEF Next, ProgramStep

\* No step loses the log in which a file is found.
LEMMA LogsRemain ==
    ASSUME IInv, Next
    PROVE  \A n \in Logs : n \in Logs' /\ dir'[n] = dir[n]
<1>1. CASE LogsAreLeft
  BY <1>1, SameLogs DEF LogsAreLeft, Logs
<1>2. CASE LogIsNamed
  BY <1>2, OneMoreLog
<1>3. QED
  BY <1>1, <1>2, LogsFrame

\* What was written is found again: the temporary file hands over what it holds.
LEMMA FoundStep ==
    ASSUME IInv, Next PROVE FoundInv'
<1>1. TypeOK /\ EntriesInv /\ NumbersInv /\ CuttingInv /\ HeldInv /\ FoundInv
  BY DEF IInv
<1>2. ASSUME NEW f \in Files, f # TmpFile PROVE Found(f)'
  <2>1. Found(f)
    BY <1>1, <1>2 DEF FoundInv
  <2>2. made'[f] = made[f] /\ recovered'[f] = recovered[f] /\ reach'[f] = reach[f]
    BY <1>2, FilesFrame DEF FilesAreLeft
  <2>3. QED
    BY <2>1, <2>2, LogsRemain DEF Found
<1>3. ASSUME NEW f \in Files, f = TmpFile, f # TmpFile' PROVE Found(f)'
  <2>1. Exists(Tmp)
    BY <1>3 DEF Exists, TmpFile, NoEntry, Files
  <2>2. /\ made[f] \in Nat /\ recovered[f] \in Nat
        /\ reach[f] \in Nat /\ dir[Tmp].size \in Nat
    BY <1>1, <1>3, <2>1, TempIsThere, FileBlockCountAssumption DEF TypeOK
  <2>3. TempGoes
    BY <1>3, <2>1, TempFrame DEF TempStays, TempComes
  <2>4. CASE DeleteEntry
    <3>1. made[f] <= recovered[f] /\ UNCHANGED <<made, recovered>>
      BY <1>1, <1>3, <2>4 DEF DeleteEntry, CuttingInv, seenVars
    <3>2. QED
      BY <2>2, <3>1 DEF Found
  <2>5. CASE RenameAtOnce \/ RemoveOldEntry
    <3>1. UNCHANGED <<reach, made, recovered>>
      BY <2>5 DEF RenameAtOnce, RemoveOldEntry, seenVars
    <3>2. binName \in Logs' /\ dir'[binName] = dir[Tmp]
      <4>1. CASE RenameAtOnce
        <5>1. dir'[binName] = dir[Tmp] /\ binName \in Numbers
          BY <1>1, <4>1, TmpIsNoNumber DEF RenameAtOnce, TypeOK, Names
        <5>2. QED
          BY <2>1, <5>1 DEF Logs, Exists, NoEntry
      <4>2. CASE RemoveOldEntry
        <5>1. dir[binName] = dir[Tmp] /\ binName \in Numbers
          BY <1>1, <4>2 DEF RemoveOldEntry, NumbersInv, TypeOK
        <5>2. binName \in Logs
          BY <2>1, <5>1 DEF Logs, Exists
        <5>3. QED
          BY <5>1, <5>2, LogsRemain
      <4>3. QED
        BY <2>5, <4>1, <4>2
    <3>3. /\ dir[Tmp].file = f
          /\ reach[f] + recovered[f] >= made[f]
          /\ dir[Tmp].size + recovered[f] >= made[f]
      BY <1>1, <1>3, <2>1 DEF HeldInv, TmpFile
    <3>4. /\ reach[f] >= made[f] - recovered[f]
          /\ dir[Tmp].size >= made[f] - recovered[f]
      BY <2>2, <3>3
    <3>5. QED
      BY <3>1, <3>2, <3>3, <3>4 DEF Found
  <2>6. QED
    BY <2>3, <2>4, <2>5 DEF TempGoes
<1>4. QED
  BY <1>2, <1>3 DEF FoundInv

\* The file that is given a name is the last, and so is its name.
LEMMA OrderStep ==
    ASSUME IInv, Next PROVE NamesInOrder'
<1>1. TypeOK /\ EntriesInv /\ NumbersInv /\ NamesInOrder /\ created \in Nat
  BY NamesAssumption DEF IInv, TypeOK
<1>2. CASE LogsAreLeft
  BY <1>1, <1>2, SameLogs DEF NamesInOrder, LogsAreLeft, Logs
<1>3. CASE LogIsNamed
  <2>1. /\ Logs' = Logs \cup {binName} /\ binName \in Numbers /\ binName \notin Logs
        /\ \A n \in Logs : dir'[n] = dir[n]
        /\ dir'[binName].file = created
    BY <1>1, <1>3, OneMoreLog, TempIsThere
  <2>2. ASSUME NEW m \in Logs', NEW n \in Logs', Value(m) < Value(n)
        PROVE  dir'[m].file <= dir'[n].file
    <3>1. CASE m \in Logs /\ n \in Logs
      BY <1>1, <2>1, <2>2, <3>1 DEF NamesInOrder
    <3>2. CASE m \in Logs /\ n = binName
      <4>1. dir[m].file \in 1 .. created
        BY <1>1, <3>2 DEF EntriesInv, Logs, Names
      <4>2. QED
        BY <1>1, <2>1, <3>2, <4>1
    <3>3. CASE m = binName
      <4>1. Value(m) \in Nat /\ Value(n) \in Nat /\ n \in Numbers
        BY <2>1, <3>3, DigitsTyped DEF Logs
      <4>2. n \in Logs
        BY <2>1, <2>2, <3>3, <4>1
      <4>3. Value(binName) <= Value(n)
        BY <2>2, <3>3, <4>1
      <4>4. QED
        BY <1>1, <2>1, <4>2, <4>3 DEF NumbersInv
    <3>4. QED
      BY <2>1, <3>1, <3>2, <3>3
  <2>3. QED
    BY <2>2 DEF NamesInOrder
<1>4. QED
  BY <1>2, <1>3, LogsFrame

\* A log that shares no file is out of reach of what is done to the temporary one.
LEMMA LogsPromiseStep ==
    ASSUME IInv, Next PROVE LogsPromiseNoMore'
<1>1. TypeOK /\ EntriesInv /\ AliasInv /\ PromiseInv /\ LogsPromiseNoMore
  BY DEF IInv
<1>2. FilesAreLeft
  BY FilesFrame
<1> DEFINE Honest(n, f) ==
               f \notin aliased /\ erased[f] >= FileBlockCount =>
                   /\ dir[n].size <= reach[f]
                   /\ WrittenOnly(f) => dir[n].size <= written[f]
<1>3. ASSUME NEW n \in Logs, NEW f, f = dir[n].file PROVE Honest(n, f)'
  <2>1. n \in Logs' /\ dir'[n] = dir[n] /\ Honest(n, f)
    BY <1>1, <1>3, LogsRemain DEF LogsPromiseNoMore
  <2>2. f \in Files /\ f # 0
    <3>1. f \in 1 .. created /\ created \in 0 .. MaxFiles
      BY <1>1, <1>3 DEF EntriesInv, Logs, Names, TypeOK
    <3>2. QED
      BY <3>1, NamesAssumption DEF Files
  <2>3. CASE f # TmpFile
    BY <1>2, <2>1, <2>2, <2>3, CardStays DEF FilesAreLeft, WrittenOnly
  <2>4. CASE f = TmpFile
    <3>1. Exists(Tmp)
      BY <2>2, <2>4 DEF Exists, TmpFile, NoEntry
    <3>2. f \in aliased \/ (pc = "renamed" /\ n = binName)
      BY <1>1, <1>3, <2>4, <3>1 DEF AliasInv
    <3>3. aliased \subseteq aliased'
      BY DEF Next, ProgramStep, NoTempFile, RecoverTempFile, FreeFile, DeleteEntry, FreeTail,
         Resize, TryNextName, NameFound, CreateFile, LinkClusters, EraseBlocks, StartWriting,
         FirstMessage, WriteBlock, StopLogging, CloseFile, CallFails, RenameCutOff,
         RenameAtOnce, WriteNewEntry, RemoveOldEntry, PowerFails, Blinking, vars, seenVars
    <3>4. pc = "renamed" => UNCHANGED <<reach, erased, written>>
      BY DEF Next, ProgramStep, NoTempFile, RecoverTempFile, FreeFile, DeleteEntry, FreeTail,
         Resize, TryNextName, NameFound, CreateFile, LinkClusters, EraseBlocks, StartWriting,
         FirstMessage, WriteBlock, StopLogging, CloseFile, CallFails,
         RenameAtOnce, WriteNewEntry, RemoveOldEntry, PowerFails, Blinking, vars, cardVars
    <3>5. QED
      BY <2>1, <2>2, <3>2, <3>3, <3>4, CardStays DEF WrittenOnly
  <2>5. QED
    BY <2>3, <2>4
<1>4. ASSUME LogIsNamed, NEW n, n = binName, NEW f, f = TmpFile PROVE Honest(n, f)'
  <2>1. pc = "rename" /\ dir'[n] = dir[Tmp] /\ f \in Files /\ Exists(Tmp)
    BY <1>1, <1>4, OneMoreLog, TempIsThere DEF LogIsNamed
  <2>2. erased[f] \in 0 .. FileBlockCount
    BY <1>1, <2>1 DEF TypeOK
  <2>3. erased[f] >= FileBlockCount =>
          /\ dir[Tmp].size <= reach[f]
          /\ WrittenOnly(f) => dir[Tmp].size <= written[f]
    BY <1>1, <1>4, <2>1, <2>2, FileBlockCountAssumption DEF PromiseInv
  <2>4. UNCHANGED <<reach, erased, written>>
    <3>1. ~LogsAreLeft
      BY <1>1, <1>4, <2>1 DEF LogsAreLeft, LogIsNamed, TypeOK, Exists
    <3>2. QED
      BY <3>1, LogsFrame DEF RenameAtOnce, WriteNewEntry
  <2>5. QED
    BY <2>1, <2>3, <2>4, CardStays DEF WrittenOnly
<1>5. ASSUME NEW n \in Logs' PROVE Honest(n, dir[n].file)'
  <2>1. PICK f : f = dir'[n].file
    OBVIOUS
  <2>2. Honest(n, f)'
    <3>1. CASE n \in Logs
      BY <1>3, <2>1, <3>1, LogsRemain
    <3>2. CASE n \notin Logs
      <4>1. LogIsNamed /\ n = binName
        BY <3>2, LogsFrame, SameLogs, OneMoreLog
      <4>2. f = TmpFile
        BY <2>1, <4>1, OneMoreLog
      <4>3. QED
        BY <1>4, <4>1, <4>2
    <3>3. QED
      BY <3>1, <3>2
  <2>3. QED
    BY <2>1, <2>2
<1>6. QED
  BY <1>5 DEF LogsPromiseNoMore

-----------------------------------------------------------------------------
(* The theorems. *)

\* An empty card satisfies the invariant, every step keeps it, and it is enough.
LEMMA InvInit == Init => IInv
<1> SUFFICES ASSUME Init PROVE IInv
  OBVIOUS
<1> USE FileBlockCountAssumption, EraseAssumption, NamesAssumption
<1>1. /\ dir = [n \in Names |-> NoEntry] /\ created = 0 /\ pc = "boot" /\ recovering = TRUE
      /\ binName = FirstNumber /\ aliased = {} /\ failures = 0 /\ keep = 0
      /\ reach = [f \in Files |-> 0] /\ erased = [f \in Files |-> 0]
      /\ written = [f \in Files |-> 0] /\ made = [f \in Files |-> 0]
      /\ recovered = [f \in Files |-> 0] /\ ones \in BOOLEAN
  BY DEF Init
<1>2. Tmp \in Names /\ ~Exists(Tmp) /\ TmpFile = 0 /\ Logs = {}
  BY <1>1 DEF Names, Exists, TmpFile, NoEntry, Logs
<1>3. TypeOK
  <2>1. NoEntry \in [file : 0 .. MaxFiles, size : 0 .. FileBlockCount]
    BY DEF NoEntry
  <2>2. dir \in [Names -> [file : 0 .. MaxFiles, size : 0 .. FileBlockCount]]
    BY <1>1, <2>1
  <2>3. 0 \in 0 .. FileBlockCount /\ 0 \in 0 .. MaxFiles /\ 0 \in 0 .. MaxFailures
    OBVIOUS
  <2>4. QED
    BY <1>1, <2>2, <2>3, FirstName DEF TypeOK, Pcs
<1>4. EntriesInv /\ AliasInv /\ HeldInv /\ LoggingInv /\ CuttingInv /\ PromiseInv
  BY <1>1, <1>2 DEF EntriesInv, AliasInv, HeldInv, LoggingInv, CuttingInv, PromiseInv
<1>5. FreshInv /\ FoundInv
  BY <1>1 DEF FreshInv, FoundInv, Found
<1>6. EraseInv
  <2>1. 0 % (EraseSize + 1) = 0
    OBVIOUS
  <2>2. QED
    BY <1>1, <2>1 DEF EraseInv
<1>7. NumbersInv
  <2>1. \A m \in Numbers : ~(Value(m) < 0)
    BY DigitsTyped
  <2>2. QED
    BY <1>1, <1>2, <2>1, FirstName DEF NumbersInv
<1>8. NamesInOrder /\ LogsPromiseNoMore
  BY <1>2 DEF NamesInOrder, LogsPromiseNoMore
<1>9. QED
  BY <1>3, <1>4, <1>5, <1>6, <1>7, <1>8 DEF IInv

LEMMA InvStep == IInv /\ [Next]_vars => IInv'
<1>1. ASSUME IInv, Next PROVE IInv'
  <2>1. TypeOK' /\ EntriesInv' /\ FreshInv' /\ EraseInv' /\ NumbersInv' /\ AliasInv'
    BY <1>1, TypeStep, EntriesStep, FreshStep, EraseStep, NumbersStep, AliasStep
  <2>2. LoggingInv' /\ CuttingInv' /\ PromiseInv' /\ HeldInv' /\ FoundInv'
    BY <1>1, LoggingStep, CuttingStep, PromiseStep, HeldStep, FoundStep
  <2>3. NamesInOrder' /\ LogsPromiseNoMore'
    BY <1>1, OrderStep, LogsPromiseStep
  <2>4. QED
    BY <2>1, <2>2, <2>3 DEF IInv
<1>2. ASSUME IInv, UNCHANGED vars PROVE IInv'
  <2> USE <1>2 DEF vars, cardVars, ramVars, seenVars
  <2>1. TmpFile' = TmpFile /\ Exists(Tmp)' = Exists(Tmp) /\ Logs' = Logs
    BY DEF TmpFile, Exists, Logs
  <2>2. TypeOK' /\ EntriesInv' /\ FreshInv' /\ EraseInv' /\ NumbersInv' /\ AliasInv'
    BY <2>1 DEF IInv, TypeOK, EntriesInv, FreshInv, EraseInv, NumbersInv, AliasInv, Exists
  <2>3. LoggingInv' /\ CuttingInv' /\ PromiseInv' /\ HeldInv'
    BY <2>1 DEF IInv, LoggingInv, CuttingInv, PromiseInv, HeldInv, WrittenOnly
  <2>4. FoundInv' /\ NamesInOrder' /\ LogsPromiseNoMore'
    BY <2>1 DEF IInv, FoundInv, Found, NamesInOrder, LogsPromiseNoMore, WrittenOnly
  <2>5. QED
    BY <2>2, <2>3, <2>4 DEF IInv
<1>3. QED
  BY <1>1, <1>2

\* The invariant holds in every state, however often the power fails.
THEOREM SessionInvariant == Spec => []IInv
<1>1. QED
  BY InvInit, InvStep, PTL DEF Spec

LEMMA InvIsEnough == IInv => LogsAreFound
<1> SUFFICES ASSUME IInv PROVE LogsAreFound
  OBVIOUS
<1>1. TypeOK /\ NamesInOrder /\ LogsPromiseNoMore /\ EntriesInv /\ LoggingInv /\ FoundInv
  BY DEF IInv
<1>2. ErasedBeforeWriting
  BY <1>1, FileBlockCountAssumption DEF ErasedBeforeWriting, LoggingInv
<1>3. NothingWrittenIsLost
  <2>1. SUFFICES ASSUME pc = "wait", NEW f \in Files, made[f] > recovered[f]
                 PROVE  /\ reach[f] >= made[f] - recovered[f]
                        /\ \E n \in Logs :
                             dir[n].file = f /\ dir[n].size >= made[f] - recovered[f]
    BY DEF NothingWrittenIsLost
  <2>2. f # TmpFile
    <3>1. made[TmpFile] = 0 /\ recovered[f] \in Nat
      BY <1>1, <2>1 DEF LoggingInv, TypeOK
    <3>2. QED
      BY <2>1, <3>1
  <2>3. QED
    BY <1>1, <2>1, <2>2 DEF FoundInv, Found
<1>4. QED
  BY <1>1, <1>2, <1>3 DEF LogsAreFound, LogsAreWhole

\* When logging starts the logs of all earlier sessions are there: their names in the order
\* of their recording, no entry promising more than the file has and, on a card that erases to
\* ones or without a recovery, than logData() wrote, and every block that was written, but
\* for one at the end for each time that truncateTempfiles() cut the file.
THEOREM LogsFound == Spec => []LogsAreFound
<1>1. QED
  BY SessionInvariant, InvIsEnough, PTL

\* No step of the program and no power failure touches the entry of a log that has its
\* name, nor its blocks, but through a temporary file that is the same file.
THEOREM LogsUntouched == Spec => LogsStay
<1> DEFINE Stay == \A n \in Logs :
                     /\ dir'[n] = dir[n]
                     /\ LET f == dir[n].file IN
                          f # TmpFile => reach'[f] = reach[f] /\ written'[f] = written[f]
<1>1. ASSUME IInv, Next PROVE Stay
  <2>1. \A n \in Logs : dir[n].file \in Files
    <3>1. \A n \in Logs : dir[n].file \in 1 .. created /\ created \in 0 .. MaxFiles
      BY <1>1 DEF IInv, EntriesInv, Logs, Names, TypeOK
    <3>2. QED
      BY <3>1, NamesAssumption DEF Files
  <2>2. FilesAreLeft
    BY <1>1, FilesFrame
  <2>3. QED
    BY <1>1, <2>1, <2>2, LogsRemain DEF FilesAreLeft
<1>2. IInv /\ [Next]_vars => [Stay]_vars
  BY <1>1
<1> HIDE DEF Stay
<1>3. Spec => [][Stay]_vars
  BY SessionInvariant, <1>2, PTL DEF Spec
<1>4. QED
  BY <1>3 DEF Stay, LogsStay

===============================================================================
