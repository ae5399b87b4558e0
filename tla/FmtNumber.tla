----------------------------- MODULE FmtNumber -----------------------------
(***************************************************************************)
(* SdFat's conversions of numbers to text: fmtDec(), fmtHex() and          *)
(* fmtNum() write a number digit by digit, the last one first; fmtDec()    *)
(* divides by ten with shifts and sums, or on an AVR by a product with 51. *)
(***************************************************************************)
EXTENDS Integers, Sequences

CONSTANTS
    Numbers,        \* the numbers that are formatted
    AvrLimit        \* bound: those below it also as on an AVR

ASSUME NumberAssumption == \A m \in Numbers : m \in Nat /\ m \div 65536 < 65536

VARIABLES
    number,         \* to be formatted
    how,            \* fmtDec(), also on an AVR, or fmtNum() to one of three bases
    n,              \* what is left of it
    written,        \* the digits written so far
    formatted,      \* all of it is written
    \* observation only
    low, scale      \* the number they stand for, and base ^ Len(written)

formatVars == <<number, how, n, written, formatted, low, scale>>

Shifted == {"dec", "avr"}
Divided == {"oct", "ten", "hex"}
Radix == IF how = "oct" THEN 8 ELSE IF how = "hex" THEN 16 ELSE 10

InitFormat ==
    /\ number \in Numbers /\ how \in Shifted \cup Divided
    /\ how = "avr" => number < AvrLimit
    /\ n = number /\ written = <<>> /\ formatted = FALSE
    /\ low = 0 /\ scale = 1

-----------------------------------------------------------------------------
(* The quotient and the remainder of a division by ten.                    *)

Half(m) == m \div 2 + m \div 4
Sixteenth(m) == Half(m) + Half(m) \div 16
Eighths16(m) == Sixteenth(m) + Sixteenth(m) \div 256
Eighths32(m) == Eighths16(m) + Eighths16(m) \div 65536

\* q is a tenth of m, or one less: the remainder tells.
Corrected(m, q) ==
    IF m - 10 * q > 9 THEN [quot |-> q + 1, rem |-> m - 10 * q - 10]
    ELSE [quot |-> q, rem |-> m - 10 * q]

Tenth16(m) == Corrected(m, Eighths16(m) \div 8)

\* Mutant: the 16-bit code is used for a 32-bit number.
Tenth32Short(m) == Corrected(m, Eighths16(m) \div 8)
Tenth32(m) == Corrected(m, Eighths32(m) \div 8)

\* m * (51/256) * (256/255) / 2, with eight bits behind the point.
Product(m) == 51 * m + 51
Product16(m) ==
    LET w == Product(m) + Product(m) \div 256 IN (w + w \div 65536) \div 2
Product32(m) ==
    LET w == Product(m) + Product(m) \div 256
        v == w + w \div 65536
    IN  (v + (v \div 65536) \div 65536) \div 2
Rounded(p) == [quot |-> p \div 256, rem |-> ((p % 256) * 10) \div 256]

-----------------------------------------------------------------------------
(* The digits.                                                             *)

Write(r) ==
    /\ written' = <<r>> \o written
    /\ low' = low + r * scale /\ scale' = scale * Radix
    /\ UNCHANGED <<number, how>>

WriteTenth(t) ==
    /\ n' = t.quot /\ Write(t.rem)
    /\ UNCHANGED formatted

\* fmtDec(): 32 bits as long as there are more than 16.
Digit32 ==
    /\ ~formatted /\ how \in Shifted /\ n >= 65536
    /\ WriteTenth(IF how = "avr" THEN Rounded(Product32(n)) ELSE Tenth32(n))

Digit16 ==
    /\ ~formatted /\ how \in Shifted /\ n < 65536 /\ n > 9
    /\ WriteTenth(IF how = "avr" THEN Rounded(Product16(n)) ELSE Tenth16(n))

LastDigit ==
    /\ ~formatted /\ how \in Shifted /\ n <= 9
    /\ Write(n)
    /\ n' = 0 /\ formatted' = TRUE

\* fmtNum() and fmtHex() divide.
DigitOfBase ==
    /\ ~formatted /\ how \in Divided
    /\ Write(n - Radix * (n \div Radix))
    /\ n' = n \div Radix
    /\ formatted' = (n' = 0)

NextFormat == Digit32 \/ Digit16 \/ LastDigit \/ DigitOfBase
SpecFormat == InitFormat /\ [][NextFormat]_formatVars

\* What has been written of a number, and what is left of it, are the number, and every
\* digit is one: no quotient or remainder of a division without division is wrong.
DigitsAreRight ==
    /\ n * scale + low = number
    /\ formatted => low = number
    /\ written \in Seq(0 .. Radix - 1)
=============================================================================
