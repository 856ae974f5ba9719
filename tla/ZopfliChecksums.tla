-------------------------- MODULE ZopfliChecksums --------------------------
(***************************************************************************)
(* The checksums of the containers, each made twice: when a file is        *)
(* written (src/zopfli/gzip_container.c and zlib_container.c) and when it  *)
(* is read (src/tinf/crc32.c and adler32.c).                               *)
(*                                                                         *)
(* A CRC is the set of its bits, so that exclusive or is the symmetric     *)
(* difference.                                                             *)
(***************************************************************************)
EXTENDS Integers, Sequences, FiniteSetsExt

CONSTANTS
  A32_BASE,           \* 65521
  A32_NMAX,           \* 5552, in tinf
  sums_overflow,      \* 5550, in zopfli
  WordSize            \* 2^32

ASSUME ChecksumAssumption ==
  /\ A32_BASE \in 1 .. 2 ^ 16 /\ sums_overflow > 0 /\ A32_NMAX > 0

BitsOf(v) == {k \in 0 .. 15 : (v \div 2 ^ k) % 2 = 1}
Bits32(high, low) == BitsOf(low) \cup {k + 16 : k \in BitsOf(high)}
Xor(a, b) == SymDiff(a, b)
Shift(c, m) == {k - m : k \in {b \in c : b >= m}}
All == 0 .. 31

(* The union is over one set: it names the value before. *)
Polynomial == Bits32(\hedb8, \h8320)
ShiftOne(c) == IF 0 \in c THEN Xor(Polynomial, Shift(c, 1)) ELSE Shift(c, 1)

(* MakeCRCTable: eight bits, one at a time. *)
crc_table ==
  LET Entry(n_) == LET after[k \in 0 .. 8] ==
                         IF k = 0 THEN BitsOf(n_)
                         ELSE UNION {ShiftOne(c) : c \in {after[k - 1]}}
                   IN  after[8]
  IN  [n_ \in 0 .. 255 |-> Entry(n_)]
Value(c, bits) == SumSet({2 ^ k : k \in c \cap 0 .. bits - 1})

(* CRC of gzip_container.c. *)
UpdateCRC(c, byte) == Xor(crc_table[Value(Xor(c, BitsOf(byte)), 8)], Shift(c, 8))
CRC(s) ==
  LET after[k \in 0 .. Len(s)] ==
        IF k = 0 THEN All ELSE UNION {UpdateCRC(c, s[k]) : c \in {after[k - 1]}}
  IN  Xor(after[Len(s)], All)

(* The table of tinf has an entry for four bits. *)
tinf_crc32tab ==
  <<Bits32(\h0000, \h0000), Bits32(\h1db7, \h1064), Bits32(\h3b6e, \h20c8),
    Bits32(\h26d9, \h30ac), Bits32(\h76dc, \h4190), Bits32(\h6b6b, \h51f4),
    Bits32(\h4db2, \h6158), Bits32(\h5005, \h713c), Bits32(\hedb8, \h8320),
    Bits32(\hf00f, \h9344), Bits32(\hd6d6, \ha3e8), Bits32(\hcb61, \hb38c),
    Bits32(\h9b64, \hc2b0), Bits32(\h86d3, \hd2d4), Bits32(\ha00a, \he278),
    Bits32(\hbdbd, \hf21c)>>

(* A turn of the loop of tinf_crc32: a byte is two of them. *)
Nibble(c) == Xor(tinf_crc32tab[1 + Value(c, 4)], Shift(c, 4))

(* Mutated: the second four bits are not looked up. *)
UpdateOnce(c, byte) == Shift(Nibble(Xor(c, BitsOf(byte))), 4)

Update(c, byte) == UNION {Nibble(d) : d \in {Nibble(Xor(c, BitsOf(byte)))}}

tinf_crc32(s) ==
  LET after[k \in 0 .. Len(s)] ==
        IF k = 0 THEN All ELSE UNION {Update(c, s[k]) : c \in {after[k - 1]}}
  IN  IF s = <<>> THEN {} ELSE Xor(after[Len(s)], All)

(* Byte number k of a CRC, the lowest first. *)
CRCByte(c, k) == SumSet({2 ^ (b - 8 * k) : b \in c \cap (8 * k) .. (8 * k + 7)})

-----------------------------------------------------------------------------
(* Both sums of Adler-32, reduced once in amount bytes, in a word each. *)
SumUp(sums, s) ==
  LET Byte_(k) == s[k]
      Weighted(k) == (Len(s) - k + 1) * s[k]
      s1 == sums[1] + MapThenSumSet(Byte_, DOMAIN s)
      s2 == sums[2] + Len(s) * sums[1] + MapThenSumSet(Weighted, DOMAIN s)
  IN  <<(s1 % WordSize) % A32_BASE, (s2 % WordSize) % A32_BASE>>
Sums(s, amount) ==
  LET parts == (Len(s) + amount - 1) \div amount
      after[k \in 0 .. parts] ==
        IF k = 0 THEN <<1, 0>>
        ELSE SumUp(after[k - 1], SubSeq(s, (k - 1) * amount + 1, Min({k * amount, Len(s)})))
  IN  after[parts]

adler32(s) == Sums(s, sums_overflow)
tinf_adler32(s) == Sums(s, A32_NMAX)

(* Its four bytes, the highest first. *)
AdlerBytes(sums) ==
  <<sums[2] \div 256, sums[2] % 256, sums[1] \div 256, sums[1] % 256>>
=============================================================================
