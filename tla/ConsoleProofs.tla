---------------------------- MODULE ConsoleProofs ----------------------------
(***************************************************************************)
(* What a host reaches over the serial port: what was typed for one log    *)
(* does not reach the next, and the clock is set to whole times; what      *)
(* dates the records: they are less than a second late; and the text of    *)
(* numbers: fmtDec() and fmtNum() write the right digits of every 32-bit   *)
(* number, the shifts and sums of fmtDec(), and the product of its AVR     *)
(* code, being a division by ten.                                          *)
(***************************************************************************)
EXTENDS SerialConsole, RecordClock, FmtNumber, SequenceTheorems, TLAPS

\* A quotient lies between two linear bounds, and these are all that is used of it.
LEMMA Quotient ==
  ASSUME NEW x \in Nat, NEW d \in Nat \ {0}
  PROVE  x \div d \in Nat /\ d * (x \div d) <= x /\ x < d * (x \div d) + d
OBVIOUS

-----------------------------------------------------------------------------
(* The digits of a number. *)

LEMMA Bits32 ==
  ASSUME NEW m \in Nat
  PROVE  m \div 65536 < 65536 <=> m < 4294967296
<1>1. m \div 65536 \in Nat /\ 65536 * (m \div 65536) <= m /\ m < 65536 * (m \div 65536) + 65536
  BY Quotient
<1>. QED  BY <1>1

\* The estimate of the 16-bit code is a tenth, or one less.
LEMMA Estimate16 ==
  ASSUME NEW m \in Nat, m < 65536
  PROVE  LET q == Eighths16(m) \div 8 IN q \in Nat /\ 10 * q <= m /\ m <= 10 * q + 19
<1>. DEFINE h == m \div 2
            f == m \div 4
            s == (h + f) \div 16
            e == (h + f + s) \div 256
            q == (h + f + s + e) \div 8
<1>1. h \in Nat /\ 2 * h <= m /\ m < 2 * h + 2  BY Quotient
<1>2. f \in Nat /\ 4 * f <= m /\ m < 4 * f + 4  BY Quotient
<1>. HIDE DEF h, f
<1>3. s \in Nat /\ 16 * s <= h + f /\ h + f < 16 * s + 16  BY <1>1, <1>2, Quotient
<1>. HIDE DEF s
<1>4. e \in Nat /\ 256 * e <= h + f + s /\ h + f + s < 256 * e + 256
  BY <1>1, <1>2, <1>3, Quotient
<1>. HIDE DEF e
<1>5. q \in Nat /\ 8 * q <= h + f + s + e /\ h + f + s + e < 8 * q + 8
  BY <1>1, <1>2, <1>3, <1>4, Quotient
<1>. HIDE DEF q
<1>6. 10 * q <= m /\ m <= 10 * q + 19  BY <1>1, <1>2, <1>3, <1>4, <1>5
<1>7. Eighths16(m) \div 8 = q
  BY DEF Eighths16, Sixteenth, Half, h, f, s, e, q
<1>. QED  BY <1>5, <1>6, <1>7

\* So is that of the 32-bit code, of every 32-bit number.
LEMMA Estimate32 ==
  ASSUME NEW m \in Nat, m < 4294967296
  PROVE  LET q == Eighths32(m) \div 8 IN q \in Nat /\ 10 * q <= m /\ m <= 10 * q + 19
<1>. DEFINE h == m \div 2
            f == m \div 4
            s == (h + f) \div 16
            e == (h + f + s) \div 256
            g == (h + f + s + e) \div 65536
            q == (h + f + s + e + g) \div 8
<1>1. h \in Nat /\ 2 * h <= m /\ m < 2 * h + 2  BY Quotient
<1>2. f \in Nat /\ 4 * f <= m /\ m < 4 * f + 4  BY Quotient
<1>. HIDE DEF h, f
<1>3. s \in Nat /\ 16 * s <= h + f /\ h + f < 16 * s + 16  BY <1>1, <1>2, Quotient
<1>. HIDE DEF s
<1>4. e \in Nat /\ 256 * e <= h + f + s /\ h + f + s < 256 * e + 256
  BY <1>1, <1>2, <1>3, Quotient
<1>. HIDE DEF e
<1>5. g \in Nat /\ 65536 * g <= h + f + s + e /\ h + f + s + e < 65536 * g + 65536
  BY <1>1, <1>2, <1>3, <1>4, Quotient
<1>. HIDE DEF g
<1>6. q \in Nat /\ 8 * q <= h + f + s + e + g /\ h + f + s + e + g < 8 * q + 8
  BY <1>1, <1>2, <1>3, <1>4, <1>5, Quotient
<1>. HIDE DEF q
<1>7. 10 * q <= m /\ m <= 10 * q + 19  BY <1>1, <1>2, <1>3, <1>4, <1>5, <1>6
<1>8. Eighths32(m) \div 8 = q
  BY DEF Eighths32, Eighths16, Sixteenth, Half, h, f, s, e, g, q
<1>. QED  BY <1>6, <1>7, <1>8

\* What a division by ten must give.
IsTenth(t, m) == t.quot \in Nat /\ t.rem \in 0 .. 9 /\ 10 * t.quot + t.rem = m

LEMMA CorrectedIsTenth ==
  ASSUME NEW m \in Nat, NEW q \in Nat, 10 * q <= m, m <= 10 * q + 19
  PROVE  IsTenth(Corrected(m, q), m)
BY DEF IsTenth, Corrected

LEMMA ShiftsDivide ==
  ASSUME NEW m \in Nat
  PROVE  /\ m < 65536 => IsTenth(Tenth16(m), m)
         /\ m < 4294967296 => IsTenth(Tenth32(m), m)
BY Estimate16, Estimate32, CorrectedIsTenth DEF Tenth16, Tenth32

LEMMA Remainder ==
  ASSUME NEW x \in Nat, NEW d \in Nat \ {0}
  PROVE  x % d = x - d * (x \div d)
OBVIOUS

\* The AVR code: eight bits behind the point are enough for the remainder.
LEMMA RoundedIsTenth ==
  ASSUME NEW m \in Nat, NEW p \in Nat,
         512 * m + 512 - 51 < 20 * p + 20, 20 * p <= 512 * m + 512 - 1
  PROVE  IsTenth(Rounded(p), m)
<1>. DEFINE q == p \div 256
            f == p % 256
            r == (f * 10) \div 256
<1>1. q \in Nat /\ 256 * q <= p /\ p < 256 * q + 256  BY Quotient
<1>2. f = p - 256 * q  BY Remainder
<1>. HIDE DEF q
<1>3. f \in Nat  BY <1>1, <1>2
<1>. HIDE DEF f
<1>4. r \in Nat /\ 256 * r <= f * 10 /\ f * 10 < 256 * r + 256  BY <1>3, Quotient
<1>. HIDE DEF r
<1>5. r \in 0 .. 9 /\ 10 * q + r = m  BY <1>1, <1>2, <1>3, <1>4
<1>6. Rounded(p) = [quot |-> q, rem |-> r]  BY DEF Rounded, q, f, r
<1>. QED  BY <1>1, <1>5, <1>6 DEF IsTenth

LEMMA ProductDivides16 ==
  ASSUME NEW m \in Nat, m < 65536
  PROVE  IsTenth(Rounded(Product16(m)), m)
<1>. DEFINE x == 51 * m + 51
            a == x \div 256
            w == x + a
            b == w \div 65536
            p == (w + b) \div 2
<1>1. x \in Nat /\ x = 51 * m + 51  OBVIOUS
<1>. HIDE DEF x
<1>2. a \in Nat /\ 256 * a <= x /\ x < 256 * a + 256  BY <1>1, Quotient
<1>. HIDE DEF a
<1>3. w \in Nat /\ w = x + a  BY <1>1, <1>2
<1>. HIDE DEF w
<1>4. b \in Nat /\ 65536 * b <= w /\ w < 65536 * b + 65536  BY <1>3, Quotient
<1>. HIDE DEF b
<1>5. w + b \in Nat  BY <1>3, <1>4
<1>6. p \in Nat /\ 2 * p <= w + b /\ w + b < 2 * p + 2  BY <1>5, Quotient
<1>. HIDE DEF p
<1>7. 512 * m + 512 - 51 < 20 * p + 20 /\ 20 * p <= 512 * m + 512 - 1
  BY <1>1, <1>2, <1>3, <1>4, <1>6
<1>8. Product16(m) = p  BY DEF Product16, Product, x, a, w, b, p
<1>. QED  BY <1>6, <1>7, <1>8, RoundedIsTenth

LEMMA ProductDivides32 ==
  ASSUME NEW m \in Nat, m < 4294967296
  PROVE  IsTenth(Rounded(Product32(m)), m)
<1>. DEFINE x == 51 * m + 51
            a == x \div 256
            w == x + a
            b == w \div 65536
            v == w + b
            c == v \div 65536
            d == c \div 65536
            p == (v + d) \div 2
<1>1. x \in Nat /\ x = 51 * m + 51  OBVIOUS
<1>. HIDE DEF x
<1>2. a \in Nat /\ 256 * a <= x /\ x < 256 * a + 256  BY <1>1, Quotient
<1>. HIDE DEF a
<1>3. w \in Nat /\ w = x + a  BY <1>1, <1>2
<1>. HIDE DEF w
<1>4. b \in Nat /\ 65536 * b <= w /\ w < 65536 * b + 65536  BY <1>3, Quotient
<1>. HIDE DEF b
<1>5. v \in Nat /\ v = w + b  BY <1>3, <1>4
<1>. HIDE DEF v
<1>6. c \in Nat /\ 65536 * c <= v /\ v < 65536 * c + 65536  BY <1>5, Quotient
<1>. HIDE DEF c
<1>7. c \in Nat  BY <1>6
<1>8. d \in Nat /\ 65536 * d <= c /\ c < 65536 * d + 65536  BY <1>7, Quotient
<1>. HIDE DEF d
<1>9. v + d \in Nat  BY <1>5, <1>8
<1>10. p \in Nat /\ 2 * p <= v + d /\ v + d < 2 * p + 2  BY <1>9, Quotient
<1>. HIDE DEF p
<1>11. 512 * m + 512 - 51 < 20 * p + 20 /\ 20 * p <= 512 * m + 512 - 1
  BY <1>1, <1>2, <1>3, <1>4, <1>5, <1>6, <1>8, <1>10
<1>12. Product32(m) = p  BY DEF Product32, Product, x, a, w, b, v, c, d, p
<1>. QED  BY <1>10, <1>11, <1>12, RoundedIsTenth

-----------------------------------------------------------------------------
\* Numbers of 32 bits are below this one.
Word32 == 4294967296

\* The inductive invariant: what is left is a 32-bit number and, when all is written, 0.
FormatInv ==
    /\ number \in Nat /\ how \in Shifted \cup Divided
    /\ n \in Nat /\ n < Word32
    /\ formatted \in BOOLEAN /\ (formatted => n = 0)
    /\ low \in Nat /\ scale \in Nat
    /\ written \in Seq(0 .. Radix - 1)
    /\ n * scale + low = number

LEMMA FormatStarts == InitFormat => FormatInv
<1>. SUFFICES ASSUME InitFormat PROVE FormatInv  OBVIOUS
<1>1. number \in Nat /\ number < Word32
  BY NumberAssumption, Bits32 DEF InitFormat, Word32
<1>2. n * scale + low = number
  <2>1. n = number /\ scale = 1 /\ low = 0  BY DEF InitFormat
  <2>. QED  BY <1>1, <2>1
<1>3. written \in Seq(0 .. Radix - 1)
  <2>1. written = <<>>  BY Zenon DEF InitFormat
  <2>2. ASSUME NEW S PROVE <<>> \in Seq(S)  OBVIOUS
  <2>. QED  BY <2>1, <2>2
<1>4. how \in Shifted \cup Divided /\ n = number /\ scale = 1 /\ low = 0
  BY DEF InitFormat
<1>5. formatted \in BOOLEAN /\ (formatted => n = 0)  BY Zenon DEF InitFormat
<1>6. n \in Nat /\ n < Word32 /\ low \in Nat /\ scale \in Nat  BY <1>1, <1>4
<1>. QED  BY Zenon, <1>1, <1>2, <1>3, <1>4, <1>5, <1>6 DEF FormatInv

\* A digit moves from what is left to what is written.
LEMMA DigitMoves ==
  ASSUME NEW q \in Nat, NEW r \in Nat, NEW s \in Nat, NEW l \in Nat, NEW b \in Nat
  PROVE  q * (s * b) + (l + r * s) = (b * q + r) * s + l
<1>1. q * (s * b) = (b * q) * s  OBVIOUS
<1>2. (b * q + r) * s = (b * q) * s + r * s  OBVIOUS
<1>. QED  BY <1>1, <1>2

LEMMA NatsMultiply ==
  ASSUME NEW a \in Nat, NEW b \in Nat, NEW c \in Nat
  PROVE  a * b \in Nat /\ c + a * b \in Nat
OBVIOUS

LEMMA FactorIsLess ==
  ASSUME NEW a \in {8, 10, 16}, NEW b \in Nat, NEW c \in Nat
  PROVE  b <= a * b + c
<1>1. CASE a = 8  BY <1>1
<1>2. CASE a = 10  BY <1>2
<1>3. CASE a = 16  BY <1>3
<1>. QED  BY <1>1, <1>2, <1>3

LEMMA RadixIsNat == Radix \in {8, 10, 16} /\ (how \in Shifted => Radix = 10)
BY DEF Radix, Shifted

\* A step that writes the remainder and leaves the quotient keeps the invariant.
LEMMA WriteKeeps ==
  ASSUME FormatInv, ~formatted, NEW r \in 0 .. Radix - 1, Write(r),
         n' \in Nat, Radix * n' + r = n, formatted' \in BOOLEAN, formatted' => n' = 0
  PROVE  FormatInv'
<1>. USE RadixIsNat
<1>1. /\ number' = number /\ how' = how /\ Radix' = Radix
      /\ low' = low + r * scale /\ scale' = scale * Radix /\ written' = <<r>> \o written
  BY DEF Write, Radix
<1>2. r \in Nat /\ Radix \in Nat /\ scale \in Nat /\ low \in Nat /\ n \in Nat
  BY DEF FormatInv
<1>3. low' \in Nat /\ scale' \in Nat
  <2>1. low + r * scale \in Nat /\ scale * Radix \in Nat  BY <1>2, NatsMultiply
  <2>. QED  BY <1>1, <2>1
<1>4. n' < Word32
  <2>1. n' <= Radix * n' + r  BY <1>2, FactorIsLess
  <2>2. n' <= n  BY Zenon, <2>1
  <2>3. n < Word32  BY Zenon DEF FormatInv
  <2>. QED  BY <2>2, <2>3, <1>2 DEF Word32
<1>5. written' \in Seq(0 .. Radix' - 1)
  <2>1. written \in Seq(0 .. Radix - 1)  BY DEF FormatInv
  <2>2. <<r>> \in Seq(0 .. Radix - 1)  OBVIOUS
  <2>. QED  BY <1>1, <2>1, <2>2
<1>6. n' * scale' + low' = number'
  <2>1. n' * (scale * Radix) + (low + r * scale) = (Radix * n' + r) * scale + low
    BY <1>2, DigitMoves
  <2>2. n * scale + low = number  BY DEF FormatInv
  <2>. QED  BY <1>1, <2>1, <2>2
<1>7. number' \in Nat /\ how' \in Shifted \cup Divided  BY <1>1 DEF FormatInv, Shifted, Divided
<1>. QED  BY Zenon, <1>1, <1>3, <1>4, <1>5, <1>6, <1>7 DEF FormatInv

LEMMA TenthKeeps ==
  ASSUME FormatInv, ~formatted, how \in Shifted, NEW t, IsTenth(t, n), WriteTenth(t)
  PROVE  FormatInv'
<1>1. Radix = 10  BY RadixIsNat
<1>2. t.rem \in 0 .. Radix - 1  BY <1>1 DEF IsTenth
<1>3. n' = t.quot /\ Write(t.rem) /\ formatted' = formatted  BY DEF WriteTenth
<1>4. n' \in Nat /\ Radix * n' + t.rem = n  BY <1>1, <1>3 DEF IsTenth
<1>5. Write(t.rem)  BY <1>3
<1>6. formatted' \in BOOLEAN /\ ~formatted'
  <2>1. formatted \in BOOLEAN  BY Zenon DEF FormatInv
  <2>. QED  BY SMT, <1>3, <2>1
<1>. QED  BY Zenon, <1>2, <1>4, <1>5, <1>6, WriteKeeps

LEMMA FormatStep == FormatInv /\ [NextFormat]_formatVars => FormatInv'
<1>. SUFFICES ASSUME FormatInv, [NextFormat]_formatVars PROVE FormatInv'  OBVIOUS
<1>0. n \in Nat /\ n < Word32  BY DEF FormatInv
<1>1. CASE Digit32
  <2>1. IsTenth(IF how = "avr" THEN Rounded(Product32(n)) ELSE Tenth32(n), n)
    BY <1>0, ShiftsDivide, ProductDivides32 DEF Word32
  <2>. QED  BY <1>1, <2>1, TenthKeeps DEF Digit32
<1>2. CASE Digit16
  <2>1. IsTenth(IF how = "avr" THEN Rounded(Product16(n)) ELSE Tenth16(n), n)
    BY <1>0, <1>2, ShiftsDivide, ProductDivides16 DEF Digit16
  <2>. QED  BY <1>2, <2>1, TenthKeeps DEF Digit16
<1>3. CASE LastDigit
  <2>1. /\ ~formatted /\ how \in Shifted /\ n <= 9 /\ Write(n)
        /\ n' = 0 /\ formatted' = TRUE
    BY <1>3 DEF LastDigit
  <2>2. n \in 0 .. Radix - 1 /\ Radix * n' + n = n  BY <1>0, <2>1, RadixIsNat
  <2>. QED  BY <2>1, <2>2, WriteKeeps
<1>4. CASE DigitOfBase
  <2>. DEFINE r == n - Radix * (n \div Radix)
  <2>1. /\ ~formatted /\ Write(r) /\ n' = n \div Radix /\ formatted' = (n' = 0)
    BY <1>4 DEF DigitOfBase
  <2>2. /\ n \div Radix \in Nat /\ Radix * (n \div Radix) <= n
        /\ n < Radix * (n \div Radix) + Radix
    BY <1>0, RadixIsNat, Quotient
  <2>3. r \in 0 .. Radix - 1 /\ Radix * (n \div Radix) + r = n
    BY <1>0, <2>2, RadixIsNat
  <2>. QED  BY <2>1, <2>2, <2>3, WriteKeeps
<1>5. CASE UNCHANGED formatVars
  BY <1>5 DEF formatVars, FormatInv, Radix, Shifted, Divided
<1>. QED  BY <1>1, <1>2, <1>3, <1>4, <1>5 DEF NextFormat

LEMMA FormatInvImplies == FormatInv => DigitsAreRight
<1>. SUFFICES ASSUME FormatInv PROVE DigitsAreRight  OBVIOUS
<1>1. ASSUME formatted PROVE low = number
  <2>1. n = 0 /\ scale \in Nat /\ low \in Nat /\ n * scale + low = number
    BY <1>1 DEF FormatInv
  <2>. QED  BY <2>1
<1>. QED  BY <1>1 DEF FormatInv, DigitsAreRight

\* Whatever 32-bit number fmtDec() or fmtNum() writes, on whatever processor, the digits
\* written and the number left are the number they began with.
THEOREM DigitsCorrect == SpecFormat => []DigitsAreRight
BY FormatStarts, FormatStep, FormatInvImplies, PTL DEF SpecFormat

-----------------------------------------------------------------------------
(* What is typed: a time comes whole, or its second half is under way.        *)

\* The first half of a time is followed by the second, at once or when the packet under
\* way has come, and the second by a line end.
Grammatical(s, more) ==
    \A i \in 1 .. Len(s) :
        /\ s[i] = "hi" => IF i < Len(s) THEN s[i + 1] = "lo" ELSE more
        /\ s[i] = "lo" => i < Len(s) /\ s[i + 1] = "nl"

PortInv ==
    /\ Grammatical(port, rest # <<>>)
    /\ \A i \in 1 .. Len(port) : port[i] \in since

\* What parseInt() has read so far decides what it reads next.
DigitsInv ==
    /\ phase # "parse" => parsed = NoDigit
    /\ \/ parsed = NoDigit
       \/ parsed = High /\ IF port = <<>> THEN rest # <<>> ELSE Head(port) = "lo"
       \/ parsed \in {Low, Time} /\ port # <<>> /\ Head(port) = "nl"

SinceInv == serialInput = "none" \/ serialInput \in since

ConsoleInv == TypedIsNotStale /\ PortInv /\ DigitsInv /\ SinceInv

-----------------------------------------------------------------------------
(* The port as a value. *)

LEMMA TailIsGrammatical ==
  ASSUME NEW s \in Seq(Characters), s # <<>>, NEW more \in BOOLEAN, Grammatical(s, more)
  PROVE  /\ Tail(s) \in Seq(Characters) /\ Grammatical(Tail(s), more)
         /\ \A i \in 1 .. Len(Tail(s)) : i + 1 \in 1 .. Len(s) /\ Tail(s)[i] = s[i + 1]
         /\ Len(s) > 0 /\ Head(s) = s[1] /\ Head(s) \in Characters
         /\ Len(Tail(s)) = Len(s) - 1
<1>1. /\ Len(s) \in Nat /\ Len(s) > 0 /\ Head(s) = s[1] /\ Head(s) \in Characters
      /\ Tail(s) \in Seq(Characters) /\ Len(Tail(s)) = Len(s) - 1
      /\ \A i \in 1 .. Len(Tail(s)) : Tail(s)[i] = s[i + 1]
  OBVIOUS
<1>2. ASSUME NEW i \in 1 .. Len(Tail(s))
      PROVE  /\ Tail(s)[i] = "hi" => IF i < Len(Tail(s)) THEN Tail(s)[i + 1] = "lo" ELSE more
             /\ Tail(s)[i] = "lo" => i < Len(Tail(s)) /\ Tail(s)[i + 1] = "nl"
  <2>1. i + 1 \in 1 .. Len(s) /\ Tail(s)[i] = s[i + 1]
    BY <1>1
  <2>2. i < Len(Tail(s)) <=> i + 1 < Len(s)
    BY <1>1
  <2>3. i < Len(Tail(s)) => Tail(s)[i + 1] = s[(i + 1) + 1]
    BY <1>1
  <2>. QED
    BY <2>1, <2>2, <2>3 DEF Grammatical
<1>. QED
  BY <1>1, <1>2 DEF Grammatical

\* Two packets after each other are grammatical if the first leaves nothing open, or the
\* second closes it.
LEMMA ConcatIsGrammatical ==
  ASSUME NEW s \in Seq(Characters), NEW open \in BOOLEAN, Grammatical(s, open),
         NEW t \in Seq(Characters), NEW more \in BOOLEAN, Grammatical(t, more),
         t # <<>>, open => t[1] = "lo"
  PROVE  /\ s \o t \in Seq(Characters) /\ Grammatical(s \o t, more)
         /\ s \o t # <<>>
         /\ s # <<>> => Head(s \o t) = Head(s)
         /\ s = <<>> => Head(s \o t) = t[1]
         /\ \A i \in 1 .. Len(s \o t) :
              (\E j \in 1 .. Len(s) : (s \o t)[i] = s[j]) \/ (\E j \in 1 .. Len(t) : (s \o t)[i] = t[j])
<1> DEFINE u == s \o t
<1>1. /\ Len(s) \in Nat /\ Len(t) \in Nat /\ Len(t) > 0
      /\ u \in Seq(Characters) /\ Len(u) = Len(s) + Len(t)
      /\ \A i \in 1 .. Len(u) : u[i] = IF i <= Len(s) THEN s[i] ELSE t[i - Len(s)]
  OBVIOUS
<1> HIDE DEF u
<1>2. ASSUME NEW i \in 1 .. Len(u)
      PROVE  /\ u[i] = "hi" => IF i < Len(u) THEN u[i + 1] = "lo" ELSE more
             /\ u[i] = "lo" => i < Len(u) /\ u[i + 1] = "nl"
  <2>1. CASE i < Len(s)
    <3>1. i \in 1 .. Len(s) /\ i < Len(u) /\ u[i] = s[i] /\ u[i + 1] = s[i + 1]
      BY <1>1, <2>1
    <3>. QED
      BY <3>1, <2>1 DEF Grammatical
  <2>2. CASE i = Len(s)
    <3>1. i \in 1 .. Len(s) /\ i < Len(u) /\ u[i] = s[i] /\ u[i + 1] = t[1]
      BY <1>1, <2>2
    <3>. QED
      BY <3>1, <2>2 DEF Grammatical
  <2>3. CASE i > Len(s)
    <3>1. i - Len(s) \in 1 .. Len(t) /\ u[i] = t[i - Len(s)]
      BY <1>1, <2>3
    <3>2. i < Len(u) <=> i - Len(s) < Len(t)
      BY <1>1, <2>3
    <3>3. i < Len(u) => u[i + 1] = t[(i - Len(s)) + 1]
      BY <1>1, <2>3
    <3>. QED
      BY <3>1, <3>2, <3>3 DEF Grammatical
  <2>. QED
    BY <2>1, <2>2, <2>3, <1>1
<1>3. Grammatical(u, more)
  BY <1>2 DEF Grammatical
<1>4. u # <<>> /\ (s # <<>> => Head(u) = Head(s)) /\ (s = <<>> => Head(u) = t[1])
  <2>1. u # <<>> /\ Head(u) = u[1] /\ 1 \in 1 .. Len(u)
    BY <1>1
  <2>2. s # <<>> => 1 <= Len(s) /\ Head(s) = s[1]
    BY <1>1
  <2>3. s = <<>> => Len(s) = 0
    BY <1>1
  <2>. QED
    BY <1>1, <2>1, <2>2, <2>3
<1>5. ASSUME NEW i \in 1 .. Len(u)
      PROVE  (\E j \in 1 .. Len(s) : u[i] = s[j]) \/ (\E j \in 1 .. Len(t) : u[i] = t[j])
  <2>1. CASE i <= Len(s)
    BY <1>1, <2>1
  <2>2. CASE ~(i <= Len(s))
    <3>1. i - Len(s) \in 1 .. Len(t) /\ u[i] = t[i - Len(s)]
      BY <1>1, <2>2
    <3>. QED
      BY <3>1
  <2>. QED
    BY <2>1, <2>2
<1>. QED
  BY <1>1, <1>3, <1>4, <1>5 DEF u

\* The packets and lines of the host leave something open only when the second half of a
\* time is to come.
LEMMA PacketsAreGrammatical ==
  /\ \A s \in TimePackets \cup Typed :
       /\ s \in Seq(Characters) /\ s # <<>>
       /\ Grammatical(s, s = FirstHalf)
  /\ SecondHalf \in Seq(Characters) /\ Grammatical(SecondHalf, FALSE)
  /\ SecondHalf # <<>> /\ SecondHalf[1] = "lo"
  /\ \A j \in 1 .. Len(SecondHalf) : SecondHalf[j] \in {"lo", "nl"}
<1> DEFINE whole == <<"T", "T", "hi", "lo", "nl">>
<1>1. /\ whole \in Seq(Characters) /\ FirstHalf \in Seq(Characters)
      /\ SecondHalf \in Seq(Characters)
      /\ \A s \in Typed : s \in Seq(Characters)
  BY DEF Characters, Digits, Typed, FirstHalf, SecondHalf
<1>2. Grammatical(whole, FALSE) /\ whole # <<>> /\ whole # FirstHalf
  <2>1. /\ Len(whole) = 5 /\ whole[1] = "T" /\ whole[2] = "T" /\ whole[3] = "hi"
        /\ whole[4] = "lo" /\ whole[5] = "nl" /\ Len(FirstHalf) = 3
    BY DEF FirstHalf
  <2>2. \A i \in 1 .. 5 : i = 1 \/ i = 2 \/ i = 3 \/ i = 4 \/ i = 5
    OBVIOUS
  <2>. QED
    BY <2>1, <2>2 DEF Grammatical
<1>3. Grammatical(FirstHalf, TRUE) /\ FirstHalf # <<>>
  <2>1. Len(FirstHalf) = 3 /\ FirstHalf[1] = "T" /\ FirstHalf[2] = "T" /\ FirstHalf[3] = "hi"
    BY DEF FirstHalf
  <2>2. \A i \in 1 .. 3 : i = 1 \/ i = 2 \/ i = 3
    OBVIOUS
  <2>. QED
    BY <2>1, <2>2 DEF Grammatical
<1>4. /\ Grammatical(SecondHalf, FALSE) /\ SecondHalf # <<>> /\ SecondHalf[1] = "lo"
      /\ \A j \in 1 .. Len(SecondHalf) : SecondHalf[j] \in {"lo", "nl"}
  <2>1. Len(SecondHalf) = 2 /\ SecondHalf[1] = "lo" /\ SecondHalf[2] = "nl"
    BY DEF SecondHalf
  <2>2. \A i \in 1 .. 2 : i = 1 \/ i = 2
    OBVIOUS
  <2>. QED
    BY <2>1, <2>2 DEF Grammatical
<1>5. ASSUME NEW s \in Typed
      PROVE  s # <<>> /\ Grammatical(s, FALSE) /\ s # FirstHalf
  <2>1. Len(FirstHalf) = 3
    BY DEF FirstHalf
  <2>2. CASE s = <<"d">> \/ s = <<"c">>
    <3>1. Len(s) = 1 /\ (s[1] = "d" \/ s[1] = "c")
      BY <2>2
    <3>2. \A i \in 1 .. 1 : i = 1
      OBVIOUS
    <3>. QED
      BY <2>1, <3>1, <3>2 DEF Grammatical
  <2>3. CASE s = <<"d", "nl">>
    <3>1. Len(s) = 2 /\ s[1] = "d" /\ s[2] = "nl"
      BY <2>3
    <3>2. \A i \in 1 .. 2 : i = 1 \/ i = 2
      OBVIOUS
    <3>. QED
      BY <2>1, <3>1, <3>2 DEF Grammatical
  <2>. QED
    BY <2>2, <2>3 DEF Typed
<1>. HIDE DEF whole
<1>6. TimePackets = {whole, FirstHalf}
  BY DEF TimePackets, whole
<1>7. Grammatical(whole, whole = FirstHalf) /\ Grammatical(FirstHalf, FirstHalf = FirstHalf)
  <2>1. (whole = FirstHalf) = FALSE /\ (FirstHalf = FirstHalf) = TRUE
    BY <1>2
  <2>. QED
    BY <1>2, <1>3, <2>1
<1>8. \A s \in Typed : Grammatical(s, s = FirstHalf)
  <2>1. \A s \in Typed : (s = FirstHalf) = FALSE
    BY <1>5
  <2>. QED
    BY <2>1, <1>5
<1>. QED
  BY <1>1, <1>2, <1>3, <1>4, <1>5, <1>6, <1>7, <1>8

-----------------------------------------------------------------------------
(* Every step keeps the invariant. *)

\* The numbers that parseInt() can make of the digits, and which of them is a time.
LEMMA ParsedNumbers ==
  /\ High \in Nat /\ Low \in Nat /\ Time \in Nat /\ NoDigit \notin Nat /\ NotSet \in Nat
  /\ ValueOf["hi"] = High /\ ValueOf["lo"] = Low /\ High * TensOf["lo"] + ValueOf["lo"] = Time
  /\ \A v \in {NoDigit, High, Low, Time} : v >= DefaultTime => v = Time
<1>1. High * LowTens \in Nat
  BY TimeAssumption
<1>2. Time \in Nat
  BY <1>1, TimeAssumption DEF Time
<1>3. ValueOf["hi"] = High /\ ValueOf["lo"] = Low /\ TensOf["lo"] = LowTens
  BY DEF ValueOf, TensOf, Digits
<1>. QED
  BY <1>2, <1>3, TimeAssumption DEF NoDigit, NotSet, Time

LEMMA ConsoleInvInit == Init => ConsoleInv
<1>1. ASSUME Init PROVE Grammatical(port, rest # <<>>)
  <2>1. Len(port) = 0
    BY <1>1 DEF Init
  <2>. QED
    BY <2>1 DEF Grammatical
<1>2. ASSUME Init PROVE TypeOK /\ DigitsInv
  <2>1. <<>> \in Seq(Characters) /\ "none" \in Characters \cup {"none"} /\ {} \subseteq Characters
    OBVIOUS
  <2>2. DigitsInv
    BY <1>2 DEF Init, DigitsInv
  <2>3. port \in Seq(Characters) /\ parsed \in Nat \cup {NoDigit} /\ rtc \in Nat
    BY <1>2, <2>1, ParsedNumbers DEF Init
  <2>4. /\ rate \in 0 .. NumBaudRates /\ busRate \in 0 .. NumBaudRates
        /\ queued \in Nat /\ Flushed \in 0 .. MaxBlocks + 1 /\ block \in 0 .. MaxBlocks
        /\ count \in 0 .. MaxTyped /\ logs \in 0 .. MaxLogs
    BY <1>2, BoundsAssumption, RatesAssumption DEF Init, Flushed
  <2>. QED
    BY <1>2, <2>1, <2>2, <2>3, <2>4, Zenon DEF Init, TypeOK
<1>3. ASSUME Init PROVE PortInv
  <2>1. Len(port) = 0
    BY <1>3 DEF Init
  <2>. QED
    BY <1>1, <1>3, <2>1 DEF PortInv
<1>. QED
  BY <1>1, <1>2, <1>3
  DEF Init, ConsoleInv, TypedIsNotStale, NoStaleCommand, NoStaleStop, ClockIsWhole, SinceInv

\* A character is taken from the port.
LEMMA TakeCharacter ==
  ASSUME ConsoleInv, port # <<>>, port' = Tail(port), UNCHANGED <<rest, since>>
  PROVE  /\ PortInv' /\ port' \in Seq(Characters)
         /\ Head(port) \in Characters /\ Head(port) \in since
         /\ Head(port) = "lo" => port' # <<>> /\ Head(port') = "nl"
         /\ Head(port) = "hi" => IF port' = <<>> THEN rest # <<>> ELSE Head(port') = "lo"
<1>1. /\ port \in Seq(Characters) /\ (rest # <<>>) \in BOOLEAN /\ Grammatical(port, rest # <<>>)
      /\ \A i \in 1 .. Len(port) : port[i] \in since
  BY DEF ConsoleInv, TypedIsNotStale, TypeOK, PortInv
<1>2. /\ port' \in Seq(Characters) /\ Grammatical(port', rest # <<>>)
      /\ \A i \in 1 .. Len(port') : i + 1 \in 1 .. Len(port) /\ port'[i] = port[i + 1]
      /\ Len(port) > 0 /\ Head(port) = port[1] /\ Head(port) \in Characters
      /\ Len(port') = Len(port) - 1
  BY <1>1, TailIsGrammatical
<1>3. Head(port) \in since /\ \A i \in 1 .. Len(port') : port'[i] \in since
  BY <1>1, <1>2
<1>4. port' # <<>> => 1 < Len(port) /\ Head(port') = port[2]
  BY <1>1, <1>2
<1>5. port' = <<>> => ~(1 < Len(port))
  <2>1. port' = <<>> => Len(port') = 0
    OBVIOUS
  <2>. QED
    BY <1>1, <1>2, <2>1
<1>6. /\ port[1] = "hi" => IF 1 < Len(port) THEN port[2] = "lo" ELSE rest # <<>>
      /\ port[1] = "lo" => 1 < Len(port) /\ port[2] = "nl"
  <2>1. 1 \in 1 .. Len(port)
    BY <1>1, <1>2
  <2>. QED
    BY <1>1, <2>1 DEF Grammatical
<1>7. PortInv'
  BY <1>2, <1>3 DEF PortInv
<1>. QED
  BY <1>2, <1>3, <1>4, <1>5, <1>6, <1>7

\* The type invariant in three parts, and what is said of the reasons.
Counts ==
    /\ rate \in 0 .. NumBaudRates /\ busRate \in 0 .. NumBaudRates
    /\ queued \in Nat /\ Flushed \in 0 .. MaxBlocks + 1 /\ block \in 0 .. MaxBlocks
    /\ curBlock \in BOOLEAN
    /\ count \in 0 .. MaxTyped /\ logs \in 0 .. MaxLogs
Sorts ==
    /\ phase \in {"autobaud", "try", "waiting", "find", "parse", "logging", "ending",
                  "dumping", "converting", "flushing"}
    /\ back \in {"autobaud", "try", "waiting"}
    /\ closeFile \in BOOLEAN /\ serialInput \in Characters \cup {"none"}
    /\ rest \in {<<>>, SecondHalf}
    /\ since \subseteq Characters /\ stopper \in {"none", "character", "silence", "full"}
Strings == parsed \in Nat \cup {NoDigit} /\ rtc \in Nat /\ port \in Seq(Characters)
Reasons == NoStaleCommand /\ NoStaleStop /\ ClockIsWhole /\ SinceInv

LEMMA ConsoleParts ==
  ConsoleInv <=> Counts /\ Sorts /\ Strings /\ Reasons /\ PortInv /\ DigitsInv
BY Zenon DEF ConsoleInv, TypedIsNotStale, TypeOK, Counts, Sorts, Strings, Reasons

\* A pass ends with no more blocks than it had.
LEMMA PassBounds ==
  ASSUME NEW k \in 0 .. MaxBlocks + 1, EndPass(k), curBlock' = FALSE
  PROVE  queued' \in Nat /\ Flushed' \in 0 .. MaxBlocks + 1
<1>1. queued' \in 0 .. MaxBlocks + 1
  BY BoundsAssumption DEF EndPass
<1>. QED
  BY <1>1, BoundsAssumption DEF Flushed

LEMMA CountsStep == ConsoleInv /\ Next => Counts'
<1> SUFFICES ASSUME Counts, Next PROVE Counts'
  BY ConsoleParts
<1> USE BoundsAssumption, RatesAssumption DEF Counts, Flushed, parseVars, logVars, hostVars
<1>1. CASE Find
  BY <1>1 DEF Find
<1>2. CASE ParseInt
  BY <1>2 DEF ParseInt
<1>3. CASE SetTime
  BY <1>3 DEF SetTime
<1>4. CASE BeginRound
  BY <1>4 DEF BeginRound, SetTimeUtility
<1>5. CASE NotConfirmed
  BY <1>5 DEF NotConfirmed, LastRate
<1>6. CASE WaitForMessage
  BY <1>6 DEF WaitForMessage, SetTimeUtility
<1>7. CASE ReadSerial
  <2>1. PICK k \in 0 .. MaxBlocks + 1 : EndPass(k)
    BY <1>7 DEF ReadSerial
  <2>2. curBlock' = FALSE
    BY <1>7 DEF ReadSerial
  <2>3. queued' \in Nat /\ Flushed' \in 0 .. MaxBlocks + 1
    BY <2>1, <2>2, PassBounds
  <2>. QED
    BY <1>7, <2>2, <2>3 DEF ReadSerial
<1>8. CASE WriteOut
  <2>1. EndPass(Flushed) /\ curBlock' = FALSE
    BY <1>8 DEF WriteOut
  <2>2. queued' \in Nat /\ Flushed' \in 0 .. MaxBlocks + 1
    <3>1. Flushed \in 0 .. MaxBlocks + 1
      OBVIOUS
    <3>. HIDE DEF Flushed
    <3>. QED
      BY <2>1, <3>1, PassBounds
  <2>. QED
    BY <1>8, <2>1, <2>2 DEF WriteOut
<1>9. CASE ObeyCommand
  BY <1>9 DEF ObeyCommand
<1>10. CASE DumpData
  BY <1>10 DEF DumpData, ReadBlock, Interrupted
<1>11. CASE BinaryToCsv
  BY <1>11 DEF BinaryToCsv, ReadBlock, Interrupted
<1>12. CASE NextLog
  <2>1. /\ block' = 0 /\ queued' = 0 /\ curBlock' = FALSE /\ logs < MaxLogs /\ logs' = logs + 1
        /\ UNCHANGED <<rate, busRate, count>>
    BY <1>12 DEF NextLog
  <2>2. logs' \in 0 .. MaxLogs /\ Flushed' \in 0 .. MaxBlocks + 1
    BY <2>1
  <2>3. block' \in 0 .. MaxBlocks /\ queued' \in Nat
    BY <2>1
  <2>4. curBlock' \in BOOLEAN
    BY Zenon, <2>1
  <2>5. rate' \in 0 .. NumBaudRates /\ busRate' \in 0 .. NumBaudRates /\ count' \in 0 .. MaxTyped
    BY <2>1
  <2>. QED
    BY Zenon, <2>2, <2>3, <2>4, <2>5
<1>13. CASE Confirmed
  BY <1>13 DEF Confirmed
<1>14. CASE MessageFound
  BY <1>14 DEF MessageFound
<1>15. CASE Silence
  BY <1>15 DEF Silence, EndPass
<1>16. CASE FileFull
  BY <1>16 DEF FileFull
<1>17. CASE Type
  BY <1>17 DEF Type
<1>18. CASE SecondPacket
  BY <1>18 DEF SecondPacket
<1>. QED
  BY <1>1, <1>2, <1>3, <1>4, <1>5, <1>6, <1>7, <1>8, <1>9, <1>10, <1>11, <1>12, <1>13, <1>14, <1>15, <1>16, <1>17, <1>18 DEF Next, Console

LEMMA SortsStep == ConsoleInv /\ Next => Sorts'
<1> SUFFICES ASSUME ConsoleInv, Sorts, Next PROVE Sorts'
  BY ConsoleParts
<1> USE DEF Sorts, parseVars, logVars, hostVars
<1>1. CASE Find
  BY <1>1 DEF Find
<1>2. CASE ParseInt
  BY <1>2 DEF ParseInt
<1>3. CASE SetTime
  BY <1>3 DEF SetTime
<1>4. CASE BeginRound
  BY <1>4 DEF BeginRound, SetTimeUtility
<1>5. CASE NotConfirmed
  BY <1>5 DEF NotConfirmed, LastRate
<1>6. CASE WaitForMessage
  BY <1>6 DEF WaitForMessage, SetTimeUtility
<1>7. CASE ReadSerial
  <2>1. Head(port) \in Characters
    BY <1>7, TakeCharacter DEF ReadSerial
  <2>. QED
    BY <1>7, <2>1 DEF ReadSerial, EndPass
<1>8. CASE WriteOut
  BY <1>8 DEF WriteOut, EndPass
<1>9. CASE ObeyCommand
  BY <1>9 DEF ObeyCommand
<1>10. CASE DumpData
  BY <1>10 DEF DumpData, ReadBlock, Interrupted
<1>11. CASE BinaryToCsv
  BY <1>11 DEF BinaryToCsv, ReadBlock, Interrupted
<1>12. CASE NextLog
  BY <1>12 DEF NextLog, Flush
<1>13. CASE Confirmed
  BY <1>13 DEF Confirmed
<1>14. CASE MessageFound
  BY <1>14 DEF MessageFound
<1>15. CASE Silence
  BY <1>15 DEF Silence, EndPass
<1>16. CASE FileFull
  BY <1>16 DEF FileFull
<1>17. CASE Type
  <2>1. PICK s \in TimePackets \cup Typed :
          /\ rest' = IF s = FirstHalf THEN SecondHalf ELSE <<>>
          /\ since' = since \cup {s[k] : k \in DOMAIN s}
    BY <1>17 DEF Type
  <2>2. \A k \in DOMAIN s : s[k] \in Characters
    BY PacketsAreGrammatical
  <2>3. since' \subseteq Characters
    BY <2>1, <2>2
  <2>. QED
    BY <1>17, <2>1, <2>3 DEF Type
<1>18. CASE SecondPacket
  <2>1. {"lo", "nl"} \subseteq Characters
    BY DEF Characters, Digits
  <2>. QED
    BY <1>18, <2>1 DEF SecondPacket
<1>. QED
  BY <1>1, <1>2, <1>3, <1>4, <1>5, <1>6, <1>7, <1>8, <1>9, <1>10, <1>11, <1>12, <1>13, <1>14, <1>15, <1>16, <1>17, <1>18 DEF Next, Console

LEMMA ReasonsStep == ConsoleInv /\ Next => Reasons'
<1> SUFFICES ASSUME ConsoleInv, Sorts, Reasons, Next PROVE Reasons'
  BY ConsoleParts
<1> USE DEF Sorts, Reasons, NoStaleCommand, NoStaleStop, ClockIsWhole, SinceInv, parseVars, logVars, hostVars
<1>1. CASE Find
  BY <1>1 DEF Find
<1>2. CASE ParseInt
  BY <1>2 DEF ParseInt
<1>3. CASE SetTime
  <2>1. parsed \in {NoDigit, High, Low, Time} /\ rtc' = IF parsed >= DefaultTime THEN parsed ELSE rtc
    BY <1>3, ConsoleParts DEF SetTime, ValidTime, DigitsInv
  <2>2. ClockIsWhole'
    BY <2>1, ParsedNumbers
  <2>. QED
    BY <1>3, <2>2 DEF SetTime
<1>4. CASE BeginRound
  BY <1>4 DEF BeginRound, SetTimeUtility
<1>5. CASE NotConfirmed
  BY <1>5 DEF NotConfirmed, LastRate
<1>6. CASE WaitForMessage
  BY <1>6 DEF WaitForMessage, SetTimeUtility
<1>7. CASE ReadSerial
  BY <1>7, TakeCharacter DEF ReadSerial, EndPass
<1>8. CASE WriteOut
  BY <1>8 DEF WriteOut, EndPass
<1>9. CASE ObeyCommand
  BY <1>9 DEF ObeyCommand
<1>10. CASE DumpData
  BY <1>10 DEF DumpData, ReadBlock, Interrupted
<1>11. CASE BinaryToCsv
  BY <1>11 DEF BinaryToCsv, ReadBlock, Interrupted
<1>12. CASE NextLog
  BY <1>12 DEF NextLog, Flush
<1>13. CASE Confirmed
  BY <1>13 DEF Confirmed
<1>14. CASE MessageFound
  BY <1>14 DEF MessageFound
<1>15. CASE Silence
  BY <1>15 DEF Silence, EndPass
<1>16. CASE FileFull
  BY <1>16 DEF FileFull
<1>17. CASE Type
  BY <1>17 DEF Type
<1>18. CASE SecondPacket
  BY <1>18 DEF SecondPacket
<1>. QED
  BY <1>1, <1>2, <1>3, <1>4, <1>5, <1>6, <1>7, <1>8, <1>9, <1>10, <1>11, <1>12, <1>13, <1>14, <1>15, <1>16, <1>17, <1>18 DEF Next, Console

\* What the port holds after something was typed.
LEMMA Received ==
  ASSUME ConsoleInv, NEW s \in Seq(Characters), s # <<>>, NEW more \in BOOLEAN,
         Grammatical(s, more), rest # <<>> => s[1] = "lo",
         port' = port \o s, more => rest' # <<>>, rest' # <<>> => more,
         since \subseteq since', \A j \in 1 .. Len(s) : s[j] \in since'
  PROVE  /\ port' \in Seq(Characters) /\ PortInv' /\ port' # <<>>
         /\ port # <<>> => Head(port') = Head(port)
         /\ port = <<>> => Head(port') = s[1]
<1>1. /\ port \in Seq(Characters) /\ Grammatical(port, rest # <<>>) /\ (rest # <<>>) \in BOOLEAN
      /\ \A i \in 1 .. Len(port) : port[i] \in since
  BY ConsoleParts DEF PortInv, Strings
<1> DEFINE open == rest # <<>>
<1>0. open \in BOOLEAN /\ Grammatical(port, open) /\ (open => s[1] = "lo")
  BY <1>1
<1> HIDE DEF open
<1>2. /\ port' \in Seq(Characters) /\ Grammatical(port', more) /\ port' # <<>>
      /\ port # <<>> => Head(port') = Head(port)
      /\ port = <<>> => Head(port') = s[1]
      /\ \A i \in 1 .. Len(port') :
           (\E j \in 1 .. Len(port) : port'[i] = port[j]) \/ (\E j \in 1 .. Len(s) : port'[i] = s[j])
  BY <1>0, <1>1, ConcatIsGrammatical
<1>3. Grammatical(port', rest' # <<>>)
  <2>1. (rest' # <<>>) = more
    OBVIOUS
  <2>. QED
    BY <1>2, <2>1
<1>4. \A i \in 1 .. Len(port') : port'[i] \in since'
  BY <1>1, <1>2
<1>. QED
  BY <1>2, <1>3, <1>4 DEF PortInv

\* The port, and the digits read from it, stay apart from what else a step does.
LEMMA PortStep ==
  ConsoleInv /\ Next => PortInv' /\ DigitsInv' /\ Strings'
<1> SUFFICES ASSUME ConsoleInv, Next PROVE PortInv' /\ DigitsInv' /\ port' \in Seq(Characters)
  <2>1. DigitsInv' => parsed' \in Nat \cup {NoDigit}
    BY ParsedNumbers DEF DigitsInv
  <2>2. ASSUME ConsoleInv, Next PROVE rtc' \in Nat
    BY <2>2, ReasonsStep, ParsedNumbers DEF Reasons, ClockIsWhole
  <2>. QED
    BY <2>1, <2>2 DEF Strings
<1>1. PortInv /\ DigitsInv /\ port \in Seq(Characters)
  BY ConsoleParts DEF Strings
<1>2. ASSUME UNCHANGED <<port, rest, since>>, parsed' = NoDigit \/ (parsed' = parsed /\ phase' = phase)
      PROVE  PortInv' /\ DigitsInv' /\ port' \in Seq(Characters)
  <2>1. PortInv' /\ port' \in Seq(Characters)
    BY <1>1, <1>2 DEF PortInv
  <2>. QED
    BY <1>1, <1>2, <2>1 DEF DigitsInv
<1>3. phase # "parse" => parsed = NoDigit
  BY <1>1 DEF DigitsInv
<1>4. CASE Find
  <2>1. parsed' = NoDigit /\ UNCHANGED <<rest, since>>
    BY <1>3, <1>4 DEF Find, parseVars, hostVars
  <2>2. CASE port = <<>>
    BY <1>2, <1>4, <2>1, <2>2 DEF Find
  <2>3. CASE port # <<>>
    <3>1. PortInv' /\ port' \in Seq(Characters)
      BY <1>4, <2>1, <2>3, TakeCharacter DEF Find
    <3>. QED
      BY <2>1, <3>1 DEF DigitsInv
  <2>. QED
    BY <2>2, <2>3
<1>5. CASE ParseInt
  <2>1. /\ port # <<>> /\ port' = Tail(port) /\ UNCHANGED <<rest, since, phase>>
        /\ phase = "parse" /\ (parsed = NoDigit \/ Head(port) \in Digits)
        /\ parsed' = IF Head(port) \in Digits THEN WithDigits(Head(port)) ELSE parsed
    BY <1>5 DEF ParseInt, hostVars
  <2>2. /\ PortInv' /\ port' \in Seq(Characters)
        /\ Head(port) = "lo" => port' # <<>> /\ Head(port') = "nl"
        /\ Head(port) = "hi" => IF port' = <<>> THEN rest # <<>> ELSE Head(port') = "lo"
    BY <2>1, TakeCharacter
  <2>3. CASE Head(port) \notin Digits
    <3>1. parsed' = NoDigit
      BY <2>1, <2>3
    <3>. QED
      BY <2>1, <2>2, <3>1 DEF DigitsInv
  <2>4. CASE Head(port) = "hi"
    <3>1. parsed = NoDigit
      BY <1>1, <2>1, <2>4 DEF DigitsInv
    <3>2. parsed' = High
      BY <2>1, <2>4, <3>1, ParsedNumbers DEF Digits, WithDigits
    <3>. QED
      BY <2>1, <2>2, <2>4, <3>2 DEF DigitsInv
  <2>5. CASE Head(port) = "lo"
    <3>1. parsed = NoDigit \/ parsed = High
      BY <1>1, <2>1, <2>5 DEF DigitsInv
    <3>2. parsed' = Low \/ parsed' = Time
      BY <2>1, <2>5, <3>1, ParsedNumbers DEF Digits, WithDigits
    <3>. QED
      BY <2>1, <2>2, <2>5, <3>2 DEF DigitsInv
  <2>. QED
    BY <2>3, <2>4, <2>5 DEF Digits
<1>6. CASE SetTime
  BY <1>2, <1>6 DEF SetTime, hostVars
<1>7. CASE BeginRound
  BY <1>2, <1>3, <1>7 DEF BeginRound, SetTimeUtility, hostVars
<1>8. CASE NotConfirmed
  BY <1>2, <1>3, <1>8 DEF NotConfirmed, parseVars, hostVars
<1>9. CASE WaitForMessage
  BY <1>2, <1>3, <1>9 DEF WaitForMessage, SetTimeUtility, hostVars
<1>10. CASE ReadSerial
  <2>1. /\ port # <<>> /\ port' = Tail(port) /\ UNCHANGED <<rest, since>> /\ parsed' = NoDigit
    BY <1>3, <1>10 DEF ReadSerial, parseVars, hostVars
  <2>2. PortInv' /\ port' \in Seq(Characters)
    BY <2>1, TakeCharacter
  <2>. QED
    BY <2>1, <2>2 DEF DigitsInv
<1>11. CASE WriteOut
  BY <1>2, <1>3, <1>11 DEF WriteOut, parseVars, hostVars
<1>12. CASE ObeyCommand
  BY <1>2, <1>3, <1>12 DEF ObeyCommand, parseVars, hostVars
<1>13. CASE DumpData \/ BinaryToCsv
  BY <1>2, <1>3, <1>13 DEF DumpData, BinaryToCsv, ReadBlock, parseVars, hostVars
<1>14. CASE NextLog
  <2>1. port' = <<>> /\ parsed' = NoDigit
    BY <1>3, <1>14 DEF NextLog, Flush, parseVars
  <2>2. Len(port') = 0 /\ port' \in Seq(Characters)
    BY <2>1
  <2>. QED
    BY <2>1, <2>2 DEF PortInv, Grammatical, DigitsInv
<1>15. CASE Confirmed
  BY <1>2, <1>3, <1>15 DEF Confirmed, parseVars, hostVars
<1>16. CASE MessageFound
  BY <1>2, <1>3, <1>16 DEF MessageFound, parseVars, hostVars
<1>17. CASE Silence
  BY <1>2, <1>3, <1>17 DEF Silence, parseVars, hostVars
<1>18. CASE FileFull
  BY <1>2, <1>3, <1>18 DEF FileFull, parseVars, hostVars
<1>19. CASE Type
  <2>1. PICK s \in TimePackets \cup Typed :
          /\ port' = port \o s
          /\ rest' = IF s = FirstHalf THEN SecondHalf ELSE <<>>
          /\ since' = since \cup {s[k] : k \in DOMAIN s}
    BY <1>19 DEF Type
  <2>2. rest = <<>> /\ UNCHANGED <<parsed, phase>>
    BY <1>19 DEF Type, parseVars
  <2>3. /\ s \in Seq(Characters) /\ s # <<>> /\ Grammatical(s, s = FirstHalf)
        /\ (s = FirstHalf) \in BOOLEAN /\ SecondHalf # <<>>
    BY PacketsAreGrammatical
  <2>4. since \subseteq since' /\ \A j \in 1 .. Len(s) : s[j] \in since'
    <3>1. DOMAIN s = 1 .. Len(s)
      BY <2>3
    <3>. QED
      BY <2>1, <3>1
  <2>5. /\ port' \in Seq(Characters) /\ PortInv' /\ port' # <<>>
        /\ port # <<>> => Head(port') = Head(port)
    <3>1. (s = FirstHalf => rest' # <<>>) /\ (rest' # <<>> => s = FirstHalf)
      BY <2>1, <2>3
    <3>. QED
      BY <2>1, <2>2, <2>3, <2>4, <3>1, Received
  <2>. QED
    BY <1>1, <2>2, <2>5 DEF DigitsInv
<1>20. CASE SecondPacket
  <2>1. /\ rest # <<>> /\ port' = port \o rest /\ rest' = <<>> /\ since' = since \cup {"lo", "nl"}
        /\ UNCHANGED <<parsed, phase>>
    BY <1>20 DEF SecondPacket, parseVars
  <2>2. rest = SecondHalf
    BY <2>1, ConsoleParts DEF Sorts
  <2>3. /\ port' \in Seq(Characters) /\ PortInv' /\ port' # <<>>
        /\ port # <<>> => Head(port') = Head(port)
        /\ port = <<>> => Head(port') = "lo"
    BY <2>1, <2>2, PacketsAreGrammatical, Received
  <2>. QED
    BY <1>1, <2>1, <2>3 DEF DigitsInv
<1>. QED
  BY <1>4, <1>5, <1>6, <1>7, <1>8, <1>9, <1>10, <1>11, <1>12, <1>13, <1>14, <1>15, <1>16,
     <1>17, <1>18, <1>19, <1>20 DEF Next, Console

LEMMA ConsoleInvStep == ConsoleInv /\ [Next]_vars => ConsoleInv'
<1>1. ConsoleInv /\ Next => (Counts /\ Sorts /\ Strings /\ Reasons /\ PortInv /\ DigitsInv)'
  BY CountsStep, SortsStep, ReasonsStep, PortStep
<1>2. ConsoleInv /\ UNCHANGED vars => (Counts /\ Sorts /\ Strings /\ Reasons /\ PortInv /\ DigitsInv)'
  BY ConsoleParts
  DEF vars, parseVars, logVars, hostVars, Counts, Flushed, Sorts, Strings, Reasons, PortInv,
      DigitsInv, NoStaleCommand, NoStaleStop, ClockIsWhole, SinceInv
<1>3. (Counts /\ Sorts /\ Strings /\ Reasons /\ PortInv /\ DigitsInv)' => ConsoleInv'
  BY Zenon
  DEF ConsoleInv, TypedIsNotStale, TypeOK, Counts, Sorts, Strings, Reasons
<1>. QED
  BY <1>1, <1>2, <1>3

\* Nothing typed before a log was done with stops the next one or is obeyed after it, and
\* the clock is set to whole times only, however many logs, blocks and packets there are and
\* wherever a time is cut in two.
THEOREM TypedIsRight == Spec => []TypedIsNotStale
<1>1. ConsoleInv => TypedIsNotStale
  BY DEF ConsoleInv
<1>. QED
  BY <1>1, ConsoleInvInit, ConsoleInvStep, PTL DEF Spec

-----------------------------------------------------------------------------
(* The time of a record. *)

\* When the software clock was set last: with the counter, when the RTC was read, or
\* without it, by the host.
ReadFromRTC ==
    /\ counted + rtcAhead >= 0 /\ sysTime = (counted + rtcAhead) \div Second
    /\ prevMillis = counted \div Milli /\ counted >= setAt
SetByHost ==
    /\ sets > 0 /\ counted <= setAt
    /\ prevMillis = setAt \div Milli /\ sysTime * Second = setAt + rtcAhead

\* A record under way has the seconds of the software clock, which stands still, and the
\* clock was set less than a second before they were taken.
SinceLess(base) == ticks <= base + Second - (IF usec = None THEN 1 ELSE 0)
RecordInv ==
    /\ timeStamp # None =>
         /\ timeStamp = sysTime
         /\ usec \notin {None, Late} => usec = ticks - counted
    /\ timeStamp = None => usec = None

ClockInv ==
    /\ ticks \in 0 .. MaxTicks /\ rtcAhead \in Int /\ counted \in 0 .. ticks
    /\ setAt \in 0 .. ticks /\ sets \in 0 .. MaxSets
    /\ sysTime \in Nat /\ nextSyncTime = sysTime + 1
    /\ timeStamp \in Nat \cup {None} /\ usec \in Nat \cup {None, Late}
    /\ setAt + rtcAhead >= 0
    /\ \/ ReadFromRTC /\ (timeStamp # None => SinceLess(counted))
       \/ SetByHost /\ (timeStamp # None => SinceLess(setAt))
    /\ RecordInv

\* What millis() counts in a second.
LEMMA MillisInSecond ==
  /\ Second \in Nat \ {0} /\ Milli \in Nat \ {0}
  /\ Second \div Milli \in Nat \ {0} /\ Second = Milli * (Second \div Milli)
<1>1. Second = Milli * (Second \div Milli) + (Second % Milli) /\ Second \div Milli \in Nat
  BY TickAssumption
<1>2. Second \div Milli # 0
  BY <1>1, TickAssumption
<1>. QED
  BY <1>1, <1>2, TickAssumption

\* If millis() has not advanced by a second, less than a second has passed.
LEMMA LessThanSecond ==
  ASSUME NEW t \in Nat, NEW c \in Nat, c <= t
  PROVE  /\ (t \div Milli) - (c \div Milli) \in Nat
         /\ (t \div Milli) - (c \div Milli) < Second \div Milli => t < c + Second
<1> DEFINE a == t \div Milli
           b == c \div Milli
           k == Second \div Milli
<1>1. a \in Nat /\ b \in Nat /\ Milli * a <= t /\ t < Milli * a + Milli /\ Milli * b <= c /\ c < Milli * b + Milli
  BY Quotient, MillisInSecond
<1>2. k \in Nat \ {0} /\ Second = Milli * k /\ Milli \in Nat \ {0}
  BY MillisInSecond
<1> HIDE DEF a, b, k
<1>3. ASSUME a < b PROVE FALSE
  <2>1. Milli * (a + 1) <= Milli * b
    BY <1>1, <1>2, <1>3
  <2>2. Milli * (a + 1) = Milli * a + Milli
    BY <1>1, <1>2
  <2>. QED
    BY <1>1, <1>2, <2>1, <2>2
<1>4. ASSUME a - b < k PROVE t < c + Second
  <2>1. Milli * (a + 1) <= Milli * (b + k)
    BY <1>1, <1>2, <1>4
  <2>2. Milli * (a + 1) = Milli * a + Milli /\ Milli * (b + k) = Milli * b + Milli * k
    BY <1>1, <1>2
  <2>. QED
    BY <1>1, <1>2, <2>1, <2>2
<1>. QED
  BY <1>1, <1>3, <1>4 DEF a, b, k

\* The software clock asks the RTC when millis() has advanced by a second, and until then
\* stands still.
LEMMA DueAfterSecond ==
  ASSUME ClockInv, NEW c \in 0 .. ticks, prevMillis = c \div Milli, ~SyncDue
  PROVE  Advanced = sysTime /\ ticks < c + Second
<1> DEFINE e == millis - prevMillis
           k == Second \div Milli
<1>1. ticks \in Nat /\ c \in Nat /\ c <= ticks /\ sysTime \in Nat /\ nextSyncTime = sysTime + 1
  BY ClockBoundAssumption DEF ClockInv
<1>2. e \in Nat /\ (e < k => ticks < c + Second)
  BY <1>1, LessThanSecond DEF millis
<1>3. k \in Nat \ {0}
  BY MillisInSecond
<1>4. Advanced = sysTime + e \div k
  BY DEF Advanced
<1> HIDE DEF e, k
<1>5. e \div k \in Nat /\ k * (e \div k) <= e /\ e < k * (e \div k) + k
  BY <1>2, <1>3, Quotient
<1>6. e \div k = 0
  BY <1>1, <1>4, <1>5 DEF SyncDue
<1>. QED
  BY <1>1, <1>2, <1>3, <1>4, <1>5, <1>6

-----------------------------------------------------------------------------
LEMMA ClockInvInit == InitClock => ClockInv
<1> SUFFICES ASSUME InitClock PROVE ClockInv
  OBVIOUS
<1>1. ticks = 0 /\ rtcAhead \in 0 .. Second - 1 /\ ticks + rtcAhead \in Nat /\ Second \in Nat \ {0}
  BY MillisInSecond DEF InitClock
<1>2. RTC \in Nat
  BY <1>1, Quotient DEF RTC
<1>3. 0 \div Milli = 0
  BY MillisInSecond
<1>4. ReadFromRTC
  BY <1>1, <1>3 DEF InitClock, ReadFromRTC, RTC
<1>. QED
  BY <1>1, <1>2, <1>4, ClockBoundAssumption
  DEF InitClock, ClockInv, RecordInv, SyncInterval, None, Late

\* now() leaves a software clock that was set less than a second before.
LEMMA NowStep ==
  ASSUME ClockInv, now, timeStamp = None, UNCHANGED <<ticks, rtcAhead, usec, setAt, sets>>
  PROVE  /\ counted' \in 0 .. ticks /\ sysTime' \in Nat /\ nextSyncTime' = sysTime' + 1
         /\ \/ ReadFromRTC' /\ SinceLess(counted)'
            \/ SetByHost' /\ SinceLess(setAt)'
<1>1. /\ ticks \in Nat /\ rtcAhead \in Int /\ counted \in 0 .. ticks /\ setAt \in 0 .. ticks
      /\ sysTime \in Nat /\ nextSyncTime = sysTime + 1 /\ setAt + rtcAhead >= 0 /\ usec = None
      /\ Second \in Nat \ {0}
  BY ClockBoundAssumption, MillisInSecond DEF ClockInv, RecordInv
<1>2. CASE SyncDue
  <2>1. /\ counted' = ticks /\ sysTime' = RTC /\ prevMillis' = ticks \div Milli
        /\ nextSyncTime' = RTC + 1
    BY <1>2 DEF now, getTeensy3Time, ResetCounter, setTime, SyncInterval, millis
  <2>2. ticks + rtcAhead \in Nat
    BY <1>1
  <2>3. RTC \in Nat
    BY <1>1, <2>2, Quotient DEF RTC
  <2>4. ReadFromRTC'
    BY <1>1, <2>1, <2>2 DEF ReadFromRTC, RTC
  <2>5. SinceLess(counted)'
    BY <1>1, <2>1 DEF SinceLess
  <2>. QED
    BY <1>1, <2>1, <2>3, <2>4, <2>5
<1>3. CASE ~SyncDue
  <2>1. PICK c \in 0 .. ticks : prevMillis = c \div Milli /\ ((ReadFromRTC /\ c = counted) \/ (SetByHost /\ c = setAt))
    BY <1>1 DEF ClockInv, ReadFromRTC, SetByHost
  <2>2. Advanced = sysTime /\ ticks < c + Second
    BY <1>3, <2>1, DueAfterSecond
  <2>3. prevMillis + (sysTime - sysTime) * (Second \div Milli) = prevMillis
    <3>1. prevMillis \in Nat
      BY <2>1, Quotient, MillisInSecond, ClockBoundAssumption DEF ClockInv
    <3>2. sysTime - sysTime = 0 /\ 0 * (Second \div Milli) = 0
      BY <1>1, MillisInSecond
    <3>. QED
      BY <3>1, <3>2
  <2>4. UNCHANGED <<sysTime, prevMillis, nextSyncTime, counted>>
    BY <1>3, <2>2, <2>3 DEF now
  <2>5. SinceLess(c)'
    BY <1>1, <2>1, <2>2 DEF SinceLess
  <2>. QED
    BY <1>1, <2>1, <2>4, <2>5 DEF ReadFromRTC, SetByHost, SinceLess
<1>. QED
  BY <1>2, <1>3

LEMMA ClockInvStep == ClockInv /\ [NextClock]_clockVars => ClockInv'
<1> SUFFICES ASSUME ClockInv, [NextClock]_clockVars PROVE ClockInv'
  OBVIOUS
<1> USE ClockBoundAssumption
<1>1. /\ ticks \in 0 .. MaxTicks /\ rtcAhead \in Int /\ counted \in 0 .. ticks
      /\ setAt \in 0 .. ticks /\ sets \in 0 .. MaxSets
      /\ sysTime \in Nat /\ nextSyncTime = sysTime + 1
      /\ timeStamp \in Nat \cup {None} /\ usec \in Nat \cup {None, Late}
      /\ setAt + rtcAhead >= 0 /\ RecordInv /\ Second \in Nat \ {0}
  BY MillisInSecond DEF ClockInv
<1>2. CASE AcquireSeconds
  <2>1. now /\ timeStamp = None /\ usec = None /\ UNCHANGED <<ticks, rtcAhead, usec, setAt, sets>> /\ timeStamp' = sysTime'
    BY <1>1, <1>2 DEF AcquireSeconds, RecordInv
  <2>. QED
    BY <1>1, <2>1, NowStep DEF ClockInv, RecordInv, None, Late
<1>3. CASE AcquireFraction
  <2>1. /\ timeStamp # None /\ usec \in {None, Late} /\ usec' = ticks - counted
        /\ UNCHANGED <<ticks, rtcAhead, sysTime, prevMillis, nextSyncTime, counted, timeStamp, setAt, sets>>
    BY <1>3 DEF AcquireFraction, microsecondsPerSecond
  <2>2. usec' \in Nat
    BY <1>1, <2>1
  <2>3. (ReadFromRTC /\ SinceLess(counted)) \/ (SetByHost /\ SinceLess(setAt))
    BY <2>1 DEF ClockInv
  <2>4. (ReadFromRTC /\ SinceLess(counted))' \/ (SetByHost /\ SinceLess(setAt))'
    BY <1>1, <2>1, <2>2, <2>3 DEF ReadFromRTC, SetByHost, SinceLess, None
  <2>. QED
    BY <1>1, <2>1, <2>2, <2>4 DEF ClockInv, RecordInv, None, Late
<1>4. CASE Acquired
  BY <1>1, <1>4 DEF Acquired, ClockInv, RecordInv, ReadFromRTC, SetByHost
<1>5. CASE Display
  <2>1. now /\ timeStamp = None /\ UNCHANGED <<ticks, rtcAhead, timeStamp, usec, setAt, sets>>
    BY <1>5 DEF Display
  <2>. QED
    BY <1>1, <2>1, NowStep DEF ClockInv, RecordInv
<1>6. CASE SetClock
  <2>1. PICK t \in HostTimes : rtcAhead' = t * Second - ticks /\ setTime(t)
    BY <1>6 DEF SetClock
  <2>2. /\ timeStamp = None /\ sets < MaxSets /\ setAt' = ticks /\ sets' = sets + 1
        /\ UNCHANGED <<ticks, counted, timeStamp, usec>>
    BY <1>6 DEF SetClock
  <2>3. /\ t \in Nat /\ t * Second \in Nat /\ sysTime' = t /\ prevMillis' = ticks \div Milli
        /\ nextSyncTime' = t + 1
    BY <1>1, <2>1 DEF setTime, millis, SyncInterval
  <2>4. SetByHost'
    BY <1>1, <2>1, <2>2, <2>3 DEF SetByHost
  <2>. QED
    BY <1>1, <2>1, <2>2, <2>3, <2>4 DEF ClockInv, RecordInv
<1>7. CASE Tick
  <2>1. /\ ticks < MaxTicks /\ usec = None /\ ticks' = ticks + 1
        /\ usec' = IF timeStamp = None THEN None ELSE Late
        /\ UNCHANGED <<rtcAhead, sysTime, prevMillis, nextSyncTime, counted, timeStamp, setAt, sets>>
    BY <1>7 DEF Tick
  <2>2. \/ ReadFromRTC' /\ (timeStamp' # None => SinceLess(counted)')
        \/ SetByHost' /\ (timeStamp' # None => SinceLess(setAt)')
    <3>1. \/ ReadFromRTC /\ (timeStamp # None => SinceLess(counted))
          \/ SetByHost /\ (timeStamp # None => SinceLess(setAt))
      BY DEF ClockInv
    <3>2. ReadFromRTC => ReadFromRTC'
      BY <2>1 DEF ReadFromRTC
    <3>3. SetByHost => SetByHost'
      BY <2>1 DEF SetByHost
    <3>4. timeStamp # None /\ SinceLess(counted) => SinceLess(counted)'
      BY <1>1, <2>1 DEF SinceLess, Late, None
    <3>5. timeStamp # None /\ SinceLess(setAt) => SinceLess(setAt)'
      BY <1>1, <2>1 DEF SinceLess, Late, None
    <3>. QED
      BY <2>1, <3>1, <3>2, <3>3, <3>4, <3>5
  <2>. QED
    BY <1>1, <2>1, <2>2 DEF ClockInv, RecordInv, Late, None
<1>8. CASE UNCHANGED clockVars
  BY <1>8 DEF clockVars, ClockInv, RecordInv, ReadFromRTC, SetByHost, SinceLess
<1>. QED
  BY <1>2, <1>3, <1>4, <1>5, <1>6, <1>7, <1>8 DEF NextClock

LEMMA ClockInvImplies == ClockInv => StampIsRight
<1> SUFFICES ASSUME ClockInv PROVE StampIsRight
  OBVIOUS
<1> USE ClockBoundAssumption
<1>1. /\ ticks \in Nat /\ rtcAhead \in Int /\ counted \in 0 .. ticks
      /\ setAt \in 0 .. ticks /\ sysTime \in Nat /\ nextSyncTime = sysTime + 1
      /\ timeStamp \in Nat \cup {None} /\ usec \in Nat \cup {None, Late}
      /\ setAt + rtcAhead >= 0 /\ RecordInv /\ Second \in Nat \ {0}
  BY MillisInSecond DEF ClockInv
<1>2. prevMillis \in 0 .. millis
  <2>1. PICK c \in 0 .. ticks : prevMillis = c \div Milli
    BY <1>1 DEF ClockInv, ReadFromRTC, SetByHost
  <2>. QED
    BY <1>1, <2>1, LessThanSecond, Quotient, MillisInSecond DEF millis
<1>3. ClockTypeOK
  BY <1>1, <1>2 DEF ClockInv, ClockTypeOK, SyncInterval
<1>4. ASSUME Complete PROVE /\ timeStamp = sysTime /\ usec = ticks - counted /\ ReadFromRTC
                            /\ ticks <= counted + Second
  <2>1. timeStamp # None /\ timeStamp = sysTime /\ usec = ticks - counted /\ usec \notin {None, Late}
    BY <1>1, <1>4 DEF Complete, RecordInv, None, Late
  <2>2. ~(SetByHost /\ SinceLess(setAt))
    BY <1>1, <1>4, <2>1 DEF SetByHost, SinceLess, Complete
  <2>. QED
    BY <2>1, <2>2, <1>1 DEF ClockInv, SinceLess
<1>5. StampIsClose
  <2>1. ASSUME Complete
        PROVE  /\ timeStamp * Second + usec <= ticks + rtcAhead
               /\ ticks + rtcAhead < timeStamp * Second + usec + Second
    <3>1. counted + rtcAhead \in Nat /\ sysTime = (counted + rtcAhead) \div Second
      BY <1>1, <1>4, <2>1 DEF ReadFromRTC
    <3>2. /\ Second * sysTime <= counted + rtcAhead
          /\ counted + rtcAhead < Second * sysTime + Second
      BY <1>1, <3>1, Quotient
    <3>3. timeStamp = sysTime /\ usec = ticks - counted /\ sysTime * Second = Second * sysTime
          /\ Second * sysTime \in Nat
      BY <1>1, <1>4, <2>1
    <3>. QED
      BY <1>1, <3>2, <3>3
  <2>. QED
    BY <2>1 DEF StampIsClose
<1>6. FractionFits
  BY <1>1, <1>4 DEF FractionFits
<1>. QED
  BY <1>3, <1>5, <1>6 DEF StampIsRight

THEOREM StampsAreRight == SpecClock => []StampIsRight
BY ClockInvInit, ClockInvStep, ClockInvImplies, PTL DEF SpecClock
=============================================================================
