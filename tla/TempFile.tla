------------------------------- MODULE TempFile -------------------------------
(***************************************************************************)
(* The temporary file of the logger: its size, the ways in which a power   *)
(* failure can leave it, and what truncateTempfiles() makes of each.  What *)
(* RecoveryResults says is checked against the bisection itself in         *)
(* TempFileRecovery, and used by LogSession.                               *)
(***************************************************************************)
EXTENDS Integers

CONSTANT FileBlockCount     \* FILE_BLOCK_COUNT

\* The code has 2^22, and in its comments 256 and more.  With one block the bisection
\* would have nothing to search, and cut the file to no block.
ASSUME FileBlockCountAssumption == FileBlockCount \in Nat \ {0, 1}

\* What a card puts in the blocks it erases: ones or zeros, as its vendor chose.
VARIABLE ones

\* What the logger was doing to the file when the power failed.
Causes == {"creating", "erasing", "logging", "cutting"}

Removed == -1
Fatal == -2

\* The end that can be told from what precedes it, in a file erased as a whole: on a card
\* that erases to ones the end of the data, on one that erases to zeros that of the chain,
\* for a block of zeros looks like one that was written.
EndSeen(written, reach) == IF ones /\ written < reach THEN written ELSE reach

\* The file is kept with a number of blocks, or removed, or the LED blinks for
\* ever.  While blocks were being written there always is an answer, at most one block
\* short of the end seen, and never the whole file.
RecoveryResults(cause, written, reach) ==
    LET end == EndSeen(written, reach)
        found == IF end = 0 THEN {Removed}
                 ELSE {end - 1, end} \cap 1 .. FileBlockCount - 1
    IN  CASE cause = "creating" -> {Removed, Fatal} \cup 1 .. FileBlockCount - 1
          [] cause = "erasing" -> {Removed} \cup 1 .. FileBlockCount - 1
          [] cause = "logging" -> found
          [] cause = "cutting" -> found \cup (IF reach < FileBlockCount THEN {Fatal} ELSE {})
=============================================================================
