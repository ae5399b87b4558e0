------------------------------ MODULE CardCodes ------------------------------
(***************************************************************************)
(* What SdFat computes from the bits of the card protocol: the size of a   *)
(* card from its CSD register, the mask of what it can erase, and the      *)
(* check codes, for which the library has three algorithms of which the    *)
(* build chooses one or, as here, the constants that stand for it.         *)
(***************************************************************************)
EXTENDS Integers, Sequences, FiniteSetsExt, SequencesExt, Bitwise

CONSTANTS
    Sizes,          \* values of C_SIZE
    Arguments,      \* bytes of an argument, and of a block
    MaxData

VARIABLES
    what,           \* "csd" or "crc"
    csd,            \* what the card's register says
    data,           \* the bytes sent
    answer          \* what the driver makes of it

codeVars == <<what, csd, data, answer>>
NoAnswer == <<>>

-----------------------------------------------------------------------------
(* The register: 128 bits, the first byte the highest. *)

BitOf(v, k) == (v \div 2 ^ k) % 2

\* Its fields, by the numbers of their bits; all other bits are alike.
CsdBit(r, n) ==
    CASE n \in 126 .. 127 -> BitOf(r.version, n - 126)
      [] n \in 80 .. 83 -> BitOf(r.readBlLen, n - 80)
      [] n = 46 -> r.eraseBlkEn
      [] n \in 39 .. 45 -> BitOf(r.sectorSize, n - 39)
      [] r.version = 0 /\ n \in 62 .. 73 -> BitOf(r.cSize, n - 62)
      [] r.version = 0 /\ n \in 47 .. 49 -> BitOf(r.cSizeMult, n - 47)
      [] r.version = 1 /\ n \in 48 .. 69 -> BitOf(r.cSize, n - 48)
      [] OTHER -> r.rest
Csd(r) == [i \in 0 .. 15 |-> MapThenSumSet(LAMBDA j : CsdBit(r, 8 * (15 - i) + j) * 2 ^ j,
                                           0 .. 7)]

\* The fields as csd1_t and csd2_t take them from the bytes, the first the lowest.
CSizeLow(reg) == reg[8] \div 64
CSizeV1(reg) == (reg[6] % 4) * 1024 + reg[7] * 4 + CSizeLow(reg)
CSizeMult(reg) == (reg[9] % 4) * 2 + (reg[10] \div 128)
CSizeV2(reg) == 65536 * (reg[7] % 64) + 256 * reg[8] + reg[9]
Version(reg) == reg[0] \div 64

\* Of a card the library does not know, zero.
cardSize(reg) ==
    IF Version(reg) = 0 THEN (CSizeV1(reg) + 1) * 2 ^ (CSizeMult(reg) + (reg[5] % 16) - 7)
    ELSE IF Version(reg) = 1 THEN (CSizeV2(reg) + 1) * 1024
    ELSE 0

\* erase(): the blocks on which a range must begin and end, less one; none that matter
\* when every block can be erased.
EraseMask(reg) == IF (reg[10] \div 64) % 2 = 1 THEN 0
                  ELSE (reg[10] % 64) * 2 + (reg[11] \div 128)

-----------------------------------------------------------------------------
(* The check codes. *)

\* Bit i of some bytes, the highest of the first byte being bit 1.
Bit(bytes, i) == BitOf(bytes[((i - 1) \div 8) + 1], 7 - ((i - 1) % 8))

\* CRC7(), a bit of a byte at a time, and the bit that ends a command.
CRC7(bytes) ==
    LET crc[i \in 0 .. 8 * Len(bytes)] ==
          IF i = 0 THEN 0
          ELSE LET shifted == (crc[i - 1] * 2) % 256
               IN  IF Bit(bytes, i) # BitOf(shifted, 7) THEN shifted ^^ 9 ELSE shifted
    IN  ((crc[8 * Len(bytes)] * 2) % 256) + 1

\* CRC_CCITT() without a table.
CRC_CCITT(bytes) ==
    LET crc[i \in 0 .. Len(bytes)] ==
          IF i = 0 THEN 0
          ELSE LET a == ((crc[i - 1] \div 256) + ((crc[i - 1] * 256) % 65536)) ^^ bytes[i]
                   b == a ^^ ((a % 256) \div 16)
                   c == b ^^ ((b * 4096) % 65536)
               IN  c ^^ ((c % 256) * 32)
    IN  crc[Len(bytes)]

\* And with it.
crctab == <<
      0, 4129, 8258, 12387, 16516, 20645, 24774, 28903, 33032, 37161, 41290, 45419,
      49548, 53677, 57806, 61935, 4657, 528, 12915, 8786, 21173, 17044, 29431, 25302,
      37689, 33560, 45947, 41818, 54205, 50076, 62463, 58334, 9314, 13379, 1056, 5121,
      25830, 29895, 17572, 21637, 42346, 46411, 34088, 38153, 58862, 62927, 50604, 54669,
      13907, 9842, 5649, 1584, 30423, 26358, 22165, 18100, 46939, 42874, 38681, 34616,
      63455, 59390, 55197, 51132, 18628, 22757, 26758, 30887, 2112, 6241, 10242, 14371,
      51660, 55789, 59790, 63919, 35144, 39273, 43274, 47403, 23285, 19156, 31415, 27286,
      6769, 2640, 14899, 10770, 56317, 52188, 64447, 60318, 39801, 35672, 47931, 43802,
      27814, 31879, 19684, 23749, 11298, 15363, 3168, 7233, 60846, 64911, 52716, 56781,
      44330, 48395, 36200, 40265, 32407, 28342, 24277, 20212, 15891, 11826, 7761, 3696,
      65439, 61374, 57309, 53244, 48923, 44858, 40793, 36728, 37256, 33193, 45514, 41451,
      53516, 49453, 61774, 57711, 4224, 161, 12482, 8419, 20484, 16421, 28742, 24679,
      33721, 37784, 41979, 46042, 49981, 54044, 58239, 62302, 689, 4752, 8947, 13010,
      16949, 21012, 25207, 29270, 46570, 42443, 38312, 34185, 62830, 58703, 54572, 50445,
      13538, 9411, 5280, 1153, 29798, 25671, 21540, 17413, 42971, 47098, 34713, 38840,
      59231, 63358, 50973, 55100, 9939, 14066, 1681, 5808, 26199, 30326, 17941, 22068,
      55628, 51565, 63758, 59695, 39368, 35305, 47498, 43435, 22596, 18533, 30726, 26663,
      6336, 2273, 14466, 10403, 52093, 56156, 60223, 64286, 35833, 39896, 43963, 48026,
      19061, 23124, 27191, 31254, 2801, 6864, 10931, 14994, 64814, 60687, 56684, 52557,
      48554, 44427, 40424, 36297, 31782, 27655, 23652, 19525, 15522, 11395, 7392, 3265,
      61215, 65342, 53085, 57212, 44955, 49082, 36825, 40952, 28183, 32310, 20053, 24180,
      11923, 16050, 3793, 7920>>
CrcByTable(bytes) ==
    LET crc[i \in 0 .. Len(bytes)] ==
          IF i = 0 THEN 0
          ELSE crctab[((crc[i - 1] \div 256) ^^ bytes[i]) + 1] ^^ ((crc[i - 1] * 256) % 65536)
    IN  crc[Len(bytes)]

\* The command as cardCommand() sends it, and the code that the build sends for each.
Command(cmd, arg) == <<64 + cmd>> \o arg
FixedCrc(cmd) == IF cmd = 0 THEN 149 ELSE 135

-----------------------------------------------------------------------------
Registers ==
    [version : 0 .. 2, cSize : Sizes, cSizeMult : {0, 5, 7}, readBlLen : {9, 11},
     eraseBlkEn : 0 .. 1, sectorSize : {0, 85, 127}, rest : 0 .. 1]
Fits(r) ==
    /\ r.version = 0 => r.cSize < 4096
    /\ r.version = 1 => r.cSizeMult = 0 /\ r.readBlLen = 9

Unread == CHOOSE r \in Registers : Fits(r)
InitCodes ==
    /\ answer = NoAnswer
    /\ \/ what = "csd" /\ csd \in {r \in Registers : Fits(r)} /\ data = <<>>
       \/ what = "crc" /\ csd = Unread /\ data \in SeqOf(Arguments, MaxData)

ReadCsd ==
    /\ answer = NoAnswer /\ what = "csd"
    /\ answer' = [size |-> cardSize(Csd(csd)), mask |-> EraseMask(Csd(csd))]
    /\ UNCHANGED <<what, csd, data>>
SendData ==
    /\ answer = NoAnswer /\ what = "crc"
    /\ answer' = [crc7 |-> CRC7(data), ccitt |-> CRC_CCITT(data),
                  table |-> CrcByTable(data)]
    /\ UNCHANGED <<what, csd, data>>

NextCodes == ReadCsd \/ SendData

-----------------------------------------------------------------------------
\* The remainder of the bits, followed by n zeros, divided by a polynomial of degree n.
Remainder(bytes, n, poly) ==
    LET all == bytes \o <<0, 0>>
        rest[i \in 0 .. 8 * Len(bytes) + n] ==
          IF i = 0 THEN 0
          ELSE LET next == 2 * rest[i - 1] + Bit(all, i)
               IN  IF next >= 2 ^ n THEN next ^^ poly ELSE next
    IN  rest[8 * Len(bytes) + n]

\* The size the standard defines, in blocks of 512 bytes.
SizeOf(r) ==
    CASE r.version = 0 -> ((r.cSize + 1) * 2 ^ (r.cSizeMult + 2) * 2 ^ (r.readBlLen - 9))
      [] r.version = 1 -> (r.cSize + 1) * 1024
      [] OTHER -> 0

\* The size of the card is the one its register says, and so is what it can erase,
\* whatever is in the other bits; the algorithms for the check codes agree with each other
\* and with their polynomials, and the two codes the build sends for all commands are those
\* of the two commands whose code a card checks, CMD0 and CMD8.
CodesAreRight ==
    /\ answer # NoAnswer /\ what = "csd" =>
         /\ answer.size = SizeOf(csd)
         /\ answer.mask = IF csd.eraseBlkEn = 1 THEN 0 ELSE csd.sectorSize
    /\ answer # NoAnswer /\ what = "crc" =>
         /\ answer.crc7 = 2 * Remainder(data, 7, 137) + 1
         /\ answer.ccitt = Remainder(data, 16, 69665)
         /\ answer.table = answer.ccitt
    /\ FixedCrc(0) = CRC7(Command(0, <<0, 0, 0, 0>>))
    /\ FixedCrc(8) = CRC7(Command(8, <<0, 0, 1, 170>>))
=============================================================================
