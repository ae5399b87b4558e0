------------------------------ MODULE FmtFloat ------------------------------
(***************************************************************************)
(* The text of a float: written by fmtFloat(), with and without exponent,  *)
(* or by ostream's putDouble(), and read by scanFloat() or by istream's    *)
(* getDouble().  A float is a decimal fraction here, exact in Places       *)
(* places: what is checked is how digits are rounded, carried and read.    *)
(***************************************************************************)
EXTENDS Integers, Sequences, FiniteSets, SequencesExt

CONSTANTS
    Values,         \* the values that are printed, in units of the last place
    Places,         \* bound: decimal places of a value
    Precisions,     \* digits printed behind the point, fewer than Places
    MaxDigits,      \* bound: digits that scanFloat() uses, nine in the code
    FracLimit       \* bound: getDouble() uses no digit behind it, 2^32 / 10 in the code

One == 10 ^ Places

\* The characters of a text besides its digits.
Point == 10
Minus == 11
Plus == 12
Exp == 13
Blank == 14
End == 15

VARIABLES
    value, neg,     \* what is printed, and its sign
    prec,           \* digits behind the point
    printer,        \* fmtFloat(), with an exponent, putDouble(), or that with showpoint, showpos
    scanner,        \* scanFloat() or getDouble()
    text,           \* the text
    scanned         \* what is read from it

how == <<value, neg, prec, printer, scanner>>
floatVars == <<how, text, scanned>>
Refused == [ok |-> FALSE, neg |-> FALSE, fract |-> 0, exp |-> 0, end |-> 0]
NotScanned == [Refused EXCEPT !.end = -1]

InitFloat ==
    /\ value \in Values /\ neg \in BOOLEAN /\ (value = 0 => ~neg)
    /\ prec \in Precisions
    /\ printer \in {"fixed", "exp", "stream", "point"} /\ scanner \in {"scan", "stream"}
    /\ text = <<>> /\ scanned = NotScanned

-----------------------------------------------------------------------------
(* fmtFloat() and putDouble().                                             *)

Decimal[m \in Nat] == IF m <= 9 THEN <<m>> ELSE Append(Decimal[m \div 10], m % 10)
Padded(m, width) ==
    [i \in 1 .. width - Len(Decimal[m]) |-> 0] \o Decimal[m]

Round(p) == 5 * 10 ^ (Places - p - 1)

\* The part before the point and the one behind it, of a value that has been rounded.
Written(v, p) ==
    Decimal[v \div One] \o
    (IF p = 0 THEN <<>> ELSE <<Point>> \o Padded(((v % One) * 10 ^ p) \div One, p))

\* Mutant: the value is cut off instead of rounded.
FixedCut(v, p) == Written(v, p)
Fixed(v, p) == Written(v + Round(p), p)

\* One digit before the point, or "10": ten itself is not reduced.
Reduced[v \in Nat] ==
    IF v > 10 * One THEN [Reduced[v \div 10] EXCEPT !.exp = @ + 1]
    ELSE [mantissa |-> v, exp |-> 0]
Normal[v \in Nat] ==
    IF 0 < v /\ v < One THEN [Normal[v * 10] EXCEPT !.exp = @ - 1] ELSE Reduced[v]

Carried(m) ==
    IF m.mantissa > 10 * One THEN [mantissa |-> m.mantissa \div 10, exp |-> m.exp + 1] ELSE m
WithExponent(v, p) ==
    LET m == IF v = 0 THEN [mantissa |-> 0, exp |-> 0]
             ELSE Carried([Normal[v] EXCEPT !.mantissa = @ + Round(p)])
    IN  Written(m.mantissa, p) \o <<Exp, IF m.exp < 0 THEN Minus ELSE Plus>> \o
        Padded(IF m.exp < 0 THEN -m.exp ELSE m.exp, 2)

SignOf == IF neg THEN <<Minus>> ELSE IF printer = "point" THEN <<Plus>> ELSE <<>>
LastPoint == IF printer = "point" /\ prec = 0 THEN <<Point>> ELSE <<>>

FormatFloat ==
    /\ text = <<>>
    /\ text' = SignOf \o (IF printer = "exp" THEN WithExponent(value, prec) ELSE Fixed(value, prec))
                \o LastPoint \o <<End>>
    /\ UNCHANGED <<how, scanned>>

-----------------------------------------------------------------------------
(* scanFloat() and getDouble().                                            *)

Digit == 0 .. 9
EXP_LIMIT == 100

\* The first place from i on with a character that is not in the set.
Past(s, i, set) == CHOOSE j \in i .. Len(s) : s[j] \notin set /\ \A k \in i .. j - 1 : s[k] \in set

Sign(s, i) == IF s[i] \in {Minus, Plus} THEN i + 1 ELSE i
NumberOf(ds) == FoldLeft(LAMBDA a, d : 10 * a + d, 0, ds)

\* The digits from i on end at a second point, which scanFloat() does not accept.
Digits(s, i) ==
    LET j == Past(s, i, Digit) IN IF s[j] = Point THEN Past(s, j + 1, Digit) ELSE j

\* Digits that count: as many as there is room for.
Used(ds) ==
    IF scanner = "stream"
      THEN Cardinality({k \in DOMAIN ds : NumberOf(SubSeq(ds, 1, k - 1)) < FracLimit})
      ELSE IF Len(ds) < MaxDigits THEN Len(ds) ELSE MaxDigits
Mantissa(s, i, j) ==
    LET ds == SelectSeq(SubSeq(s, i, j - 1), LAMBDA c : c # Point)
        used == Used(ds)
    IN  [digits |-> Len(ds), fract |-> NumberOf(SubSeq(ds, 1, used)),
         exp |-> Past(s, i, Digit) - i - used]

\* The exponent at i, without which the number ends there.
Exponent(s, i) ==
    LET a == IF s[i] = Exp THEN Sign(s, i + 1) ELSE i
        b == IF s[i] = Exp THEN Past(s, a, Digit) ELSE i
        e == NumberOf(SubSeq(s, a, b - 1))
    IN  [ok |-> b - a < 2 \/ NumberOf(SubSeq(s, a, b - 2)) <= EXP_LIMIT,
         exp |-> IF a > i + 1 /\ s[a - 1] = Minus THEN -e ELSE e,
         end |-> IF b > a THEN b ELSE i]

\* scanFloat() passes over leading zeros, and after zeros alone does not move its end.
Scan(s) ==
    LET start == Sign(s, Past(s, 1, {Blank}))
        first == IF scanner = "stream" THEN start ELSE Past(s, start, {0})
        last == Digits(s, first)
        m == Mantissa(s, first, last)
        e == Exponent(s, last)
        moved == scanner = "stream" \/ e.end > last \/ last > first
    IN  IF (scanner = "scan" /\ s[last] = Point) \/ (m.digits = 0 /\ first = start) \/ ~e.ok
          THEN Refused
          ELSE [ok |-> TRUE, neg |-> s[start - 1] = Minus, fract |-> m.fract,
                exp |-> m.exp + e.exp, end |-> IF moved THEN e.end ELSE 1]

ScanFloat ==
    /\ text # <<>> /\ scanned = NotScanned
    /\ scanned' = Scan(<<Blank>> \o text)
    /\ UNCHANGED <<how, text>>

NextFloat == FormatFloat \/ ScanFloat

-----------------------------------------------------------------------------
(* Properties.                                                             *)

\* What scanFloat() has read, in units of the last place.
Units(r) == IF r.exp + Places >= 0 THEN r.fract * 10 ^ (r.exp + Places)
            ELSE r.fract \div 10 ^ (-r.exp - Places)

\* The unit of the last digit printed, and of the last one used.
Magnitude == CHOOSE e \in 0 .. Places + 3 : value \div 10 ^ e \in 1 .. 9
Printed ==
    IF printer = "exp" /\ value # 0
      THEN IF Magnitude >= prec THEN 10 ^ (Magnitude - prec) ELSE 1
      ELSE 10 ^ (Places - prec)
Dropped ==
    IF scanned.fract < FracLimit /\ Cardinality({i \in DOMAIN text : text[i] \in Digit}) <= MaxDigits
      THEN 0 ELSE 10 ^ (scanned.exp + Places)

\* A value that is printed and read again has changed by no more than half a unit of the
\* last digit printed, and less than a unit of the last digit that the reader uses; and
\* all of the text has been read (but scanFloat() points to the start after a zero).
FloatsAreReadBack ==
    scanned # NotScanned =>
      LET error == IF Units(scanned) > value THEN Units(scanned) - value ELSE value - Units(scanned)
      IN  /\ scanned.ok /\ scanned.neg = neg
          /\ 2 * error <= Printed + 2 * Dropped
          /\ scanned.fract # 0 \/ scanner = "stream" => scanned.end = Len(text) + 1
=============================================================================
