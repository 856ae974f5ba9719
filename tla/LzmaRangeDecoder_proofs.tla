----------------------- MODULE LzmaRangeDecoder_proofs -----------------------
(***************************************************************************)
(* The invariants of LzmaRangeDecoder for every width that satisfies its   *)
(* assumptions, the code's own widths among them (256, 2^24, 2048, 32).    *)
(***************************************************************************)
EXTENDS LzmaRangeDecoder, TLAPS

\* The smaller of two products; used for every estimate below.
LEMMA ProductMonotone ==
  ASSUME NEW a \in Nat, NEW b \in Nat, NEW c \in Nat, NEW d \in Nat,
         a <= c, b <= d
  PROVE  a * b <= c * d
<1>1. PICK e \in Nat : c = a + e
  <2>1. c - a \in Nat /\ c = a + (c - a)  OBVIOUS
  <2>2. QED BY <2>1
<1>2. PICK f \in Nat : d = b + f
  <2>1. d - b \in Nat /\ d = b + (d - b)  OBVIOUS
  <2>2. QED BY <2>1
<1>3. c * d = a * b + a * f + e * b + e * f  BY <1>1, <1>2
<1>4. a * f \in Nat /\ e * b \in Nat /\ e * f \in Nat /\ a * b \in Nat  OBVIOUS
<1>5. QED BY <1>3, <1>4

\* The rounding of a division by a positive number.
LEMMA DivBounds ==
  ASSUME NEW x \in Nat, NEW d \in Nat, d >= 1
  PROVE  /\ x \div d \in Nat
         /\ d * (x \div d) <= x
         /\ x < d * (x \div d) + d
  OBVIOUS

LEMMA WordFacts == /\ Word \in Nat /\ Word >= kTopValue /\ Word >= 4
                   /\ kTopValue \in Nat /\ kTopValue >= 2
<1>1. kTopValue \in Nat /\ kTopValue >= 1 * 2
  BY WidthAssumption, ProductMonotone
<1>2. Word \in Nat  BY <1>1, WidthAssumption DEF Word
<1>3. 2 * kTopValue <= Word  BY <1>1, WidthAssumption, ProductMonotone DEF Word
<1>4. QED BY <1>1, <1>2, <1>3
-----------------------------------------------------------------------------
LEMMA Distribute ==
  ASSUME NEW a \in Int, NEW b \in Int, NEW c \in Int
  PROVE  a * (b - c) = b * a - a * c
  OBVIOUS

\* A word shifted left by a byte is a word.
LEMMA ShiftInWord ==
  ASSUME NEW c \in Nat, NEW b \in Byte
  PROVE  ShiftIn(c, b) \in 0 .. Word - 1
<1>1. c * ByteBase + b \in Nat  BY WidthAssumption DEF Byte
<1>2. QED BY <1>1, WordFacts DEF ShiftIn

\* Below kTopValue the shift loses no bit of the code.
LEMMA ShiftInExact ==
  ASSUME NEW c \in Nat, c < kTopValue, NEW b \in Byte
  PROVE  ShiftIn(c, b) = c * ByteBase + b /\ ShiftIn(c, b) < (c + 1) * ByteBase
<1>1. b \in Nat /\ b < ByteBase /\ c * ByteBase \in Nat
  BY WidthAssumption DEF Byte
<1>2. (c + 1) * ByteBase <= kTopValue * ByteBase
  BY WidthAssumption, WordFacts, ProductMonotone
<1>3. (c + 1) * ByteBase = c * ByteBase + ByteBase  BY WidthAssumption
<1>4. kTopValue * ByteBase = Word  BY WidthAssumption, WordFacts DEF Word
<1>5. c * ByteBase + b < Word
  BY <1>1, <1>2, <1>3, <1>4, WordFacts, WidthAssumption
<1>6. QED BY <1>1, <1>3, <1>5, WordFacts, WidthAssumption DEF ShiftIn

\* One adaptation keeps a probability in the band: what rounds down to zero
\* stops exactly at MoveDiv - 1 from either end.
LEMMA ShrinkBand ==
  ASSUME NEW p \in Nat, p >= MinProb
  PROVE  /\ p - p \div MoveDiv \in Nat
         /\ MinProb <= p - p \div MoveDiv /\ p - p \div MoveDiv <= p
<1> DEFINE q == p \div MoveDiv
<1> USE ModelAssumption
<1>1. q \in Nat /\ MoveDiv * q <= p /\ p < MoveDiv * q + MoveDiv
  BY DivBounds
<1>2. CASE q = 0  BY <1>1, <1>2
<1>3. CASE q >= 1
  <2>1. (MoveDiv - 1) * q >= (MoveDiv - 1) * 1  BY <1>1, <1>3, ProductMonotone
  <2>2. (MoveDiv - 1) * q = MoveDiv * q - q  BY <1>1
  <2>3. QED BY <1>1, <2>1, <2>2 DEF MinProb
<1>4. QED BY <1>1, <1>2, <1>3

LEMMA AdaptInBand ==
  ASSUME NEW p \in Prob
  PROVE  TowardsZero(p) \in Prob /\ TowardsOne(p) \in Prob
<1> USE ModelAssumption, WidthAssumption DEF Prob, MinProb
<1> DEFINE r == kBitModelTotal - p
<1>1. p \in Nat /\ r \in Nat /\ p >= MinProb /\ r >= MinProb  OBVIOUS
<1>2. TowardsOne(p) \in Prob
  <2>1. /\ p - p \div MoveDiv \in Nat
        /\ MinProb <= p - p \div MoveDiv /\ p - p \div MoveDiv <= p
    BY <1>1, ShrinkBand
  <2>2. QED BY <2>1, <1>1 DEF TowardsOne
<1>3. MinProb <= r - r \div MoveDiv /\ r - r \div MoveDiv <= r
  BY <1>1, ShrinkBand
<1>4. r \div MoveDiv \in Nat  BY <1>1, DivBounds
<1>5. TowardsZero(p) = p + r \div MoveDiv  BY DEF TowardsZero
<1>6. QED BY <1>1, <1>2, <1>3, <1>4, <1>5

\* Both shares of a normalised range are positive, and one byte brings
\* either back to kTopValue.
LEMMA Shares ==
  ASSUME NEW r \in Nat, r >= kTopValue, NEW p \in Prob
  PROVE  LET b == (r \div kBitModelTotal) * p
         IN  /\ b \in Nat /\ 1 <= b /\ b < r
             /\ b * ByteBase >= kTopValue
             /\ (r - b) * ByteBase >= kTopValue
<1> USE WidthAssumption, ModelAssumption
<1> DEFINE q == r \div kBitModelTotal
           b == q * p
           floor == TopPerModel * MinProb
<1>1. q \in Nat /\ kBitModelTotal * q <= r /\ r < kBitModelTotal * q + kBitModelTotal
  BY DivBounds
<1>2. TopPerModel <= q
  <2> SUFFICES ASSUME TopPerModel >= q + 1 PROVE FALSE  BY <1>1
  <2>1. kBitModelTotal * (q + 1) <= kBitModelTotal * TopPerModel
    BY <1>1, ProductMonotone
  <2>2. kBitModelTotal * (q + 1) = kBitModelTotal * q + kBitModelTotal  BY <1>1
  <2>3. kBitModelTotal * TopPerModel = kTopValue  OBVIOUS
  <2>4. QED BY <1>1, <2>1, <2>2, <2>3, WordFacts
<1>3. p \in Nat /\ MinProb \in Nat /\ MinProb <= p /\ MinProb >= 1
      /\ kBitModelTotal - p \in Nat /\ MinProb <= kBitModelTotal - p
  BY DEF Prob, MinProb
<1>4. b \in Nat /\ floor \in Nat /\ floor <= b /\ 1 <= floor
  <2>1. TopPerModel * MinProb <= q * p  BY <1>1, <1>2, <1>3, ProductMonotone
  <2>2. 1 * 1 <= TopPerModel * MinProb  BY <1>3, ProductMonotone
  <2>3. q * p \in Nat /\ TopPerModel * MinProb \in Nat  BY <1>1, <1>3
  <2>4. QED BY <2>1, <2>2, <2>3
<1>5. r - b \in Nat /\ floor <= r - b
  <2>1. TopPerModel * MinProb <= q * (kBitModelTotal - p)
    BY <1>1, <1>2, <1>3, ProductMonotone
  <2>2. q * (kBitModelTotal - p) = kBitModelTotal * q - q * p
    <3> HIDE WidthAssumption, ModelAssumption
    <3> HIDE DEF q
    <3>1. q \in Int /\ kBitModelTotal \in Int /\ p \in Int  BY <1>1, <1>3, WidthAssumption
    <3>2. QED BY <3>1, Distribute
  <2>3. floor <= kBitModelTotal * q - b  BY <2>1, <2>2
  <2>4. kBitModelTotal * q \in Nat  BY <1>1
  <2>5. QED BY <1>1, <1>4, <2>3, <2>4
<1>6. kTopValue <= floor * ByteBase
  <2>1. TopPerModel * kBitModelTotal <= TopPerModel * (MinProb * ByteBase)
    BY <1>3, ProductMonotone DEF MinProb
  <2>2. TopPerModel * (MinProb * ByteBase) = floor * ByteBase  BY <1>3
  <2>3. QED BY <2>1, <2>2
<1>7. floor * ByteBase <= b * ByteBase  BY <1>4, ProductMonotone
<1>8. floor * ByteBase <= (r - b) * ByteBase  BY <1>4, <1>5, ProductMonotone
<1>9. b * ByteBase \in Nat /\ (r - b) * ByteBase \in Nat /\ floor * ByteBase \in Nat
  BY <1>4, <1>5
<1>10. QED BY <1>4, <1>5, <1>6, <1>7, <1>8, <1>9, WordFacts
-----------------------------------------------------------------------------
(* The inductive invariant: normalisation needs the probability band, and  *)
(* neither is inductive without the types.                                 *)
IInv == TypeOK /\ ProbInBand /\ RangeNormalised

\* A range that one byte can normalise is normalised, and a code below the
\* range stays below it.
LEMMA NormalizeOK ==
  ASSUME TypeOK,
         NEW r \in Nat, r < Word, r * ByteBase >= kTopValue,
         NEW c \in Nat, c < Word,
         Normalize(r, c)
  PROVE  /\ range' \in 0 .. Word - 1 /\ range' >= kTopValue
         /\ code' \in 0 .. Word - 1
         /\ left' \in Nat /\ ExtraBytes' \in {0, 1}
         /\ c < r => code' < range'
<1>1. CASE r < kTopValue
  <2>1. PICK b \in Byte : ReadByte(b) /\ code' = ShiftIn(c, b)
    BY <1>1, WordFacts DEF Normalize
  <2>2. range' = r * ByteBase  BY <1>1, WordFacts DEF Normalize
  <2>3. left' \in Nat /\ ExtraBytes' \in {0, 1}
    BY <2>1 DEF ReadByte, TypeOK
  <2>4. code' \in 0 .. Word - 1  BY <2>1, ShiftInWord
  <2>5. range' \in Nat /\ range' < Word
    <3>1. (r + 1) * ByteBase <= kTopValue * ByteBase
      BY <1>1, WidthAssumption, WordFacts, ProductMonotone
    <3>2. (r + 1) * ByteBase = r * ByteBase + ByteBase  BY WidthAssumption
    <3>3. kTopValue * ByteBase = Word  BY WidthAssumption, WordFacts DEF Word
    <3>4. r * ByteBase \in Nat  BY WidthAssumption
    <3>5. QED BY <2>2, <3>1, <3>2, <3>3, <3>4, WidthAssumption, WordFacts
  <2>6. ASSUME c < r PROVE code' < range'
    <3>1. code' < (c + 1) * ByteBase
      BY <1>1, <2>1, <2>6, ShiftInExact, WordFacts
    <3>2. (c + 1) * ByteBase <= r * ByteBase
      BY <2>6, WidthAssumption, ProductMonotone
    <3>3. code' \in Nat /\ (c + 1) * ByteBase \in Nat /\ r * ByteBase \in Nat
      BY <2>4, WidthAssumption, WordFacts
    <3>4. QED BY <2>2, <3>1, <3>2, <3>3
  <2>7. QED BY <2>2, <2>3, <2>4, <2>5, <2>6, WordFacts
<1>2. CASE r >= kTopValue
  BY <1>2, WordFacts DEF Normalize, TypeOK
<1>3. QED BY <1>1, <1>2, WordFacts

LEMMA InitIInv == Init => IInv
<1> SUFFICES ASSUME Init PROVE IInv  OBVIOUS
<1> USE ModelAssumption, WidthAssumption, WordFacts
<1>1. kBitModelTotal \div 2 \in Prob /\ kBitModelTotal \div 2 \in 0 .. kBitModelTotal
  BY DEF Prob, MinProb
<1>2. prob \in [Contexts -> 0 .. kBitModelTotal] /\ ProbInBand
  BY <1>1 DEF Init, ProbInBand
<1>3. range \in 0 .. Word - 1 /\ RangeNormalised
  <2>1. 2 * kTopValue <= Word  BY ProductMonotone DEF Word
  <2>2. QED BY <2>1 DEF Init, RangeNormalised
<1>4. PICK size \in 0 .. MaxInput, bytes \in [1 .. 5 -> Byte] :
        /\ code = InitCode(bytes)
        /\ left = IF size >= 5 THEN size - 5 ELSE 0
        /\ ExtraBytes = IF size >= 5 THEN 0 ELSE 1
  BY DEF Init
<1>5. left \in Nat /\ ExtraBytes \in {0, 1}
  BY <1>4, InputAssumption
<1>6. code \in 0 .. Word - 1
  <2>1. 0 .. Word - 1 \subseteq Nat  BY WordFacts
  <2>2. \A i \in 1 .. 5 : bytes[i] \in Byte  OBVIOUS
  <2> DEFINE c1 == ShiftIn(0, bytes[1])   c2 == ShiftIn(c1, bytes[2])
             c3 == ShiftIn(c2, bytes[3])  c4 == ShiftIn(c3, bytes[4])
  <2>3. c1 \in Nat  BY <2>1, <2>2, ShiftInWord
  <2>4. c2 \in Nat  BY <2>1, <2>2, <2>3, ShiftInWord
  <2>5. c3 \in Nat  BY <2>1, <2>2, <2>4, ShiftInWord
  <2>6. c4 \in Nat  BY <2>1, <2>2, <2>5, ShiftInWord
  <2>7. ShiftIn(c4, bytes[5]) \in 0 .. Word - 1  BY <2>2, <2>6, ShiftInWord
  <2>8. QED BY <1>4, <2>7 DEF InitCode
<1>7. QED BY <1>2, <1>3, <1>5, <1>6 DEF IInv, TypeOK

\* What one bit decoded with a probability does to the invariant and to the
\* interval.
LEMMA BitDecodeOK ==
  ASSUME IInv, NEW x \in Contexts, BitDecode(x)
  PROVE  IInv' /\ (code < range => code' < range')
<1> USE WordFacts
<1> DEFINE b == Bound(x)
<1>1. /\ range \in Nat /\ range < Word /\ range >= kTopValue
      /\ code \in Nat /\ code < Word /\ prob[x] \in Prob
  BY DEF IInv, TypeOK, RangeNormalised, ProbInBand
<1>2. /\ b \in Nat /\ 1 <= b /\ b < range
      /\ b * ByteBase >= kTopValue /\ (range - b) * ByteBase >= kTopValue
  BY <1>1, Shares DEF Bound
<1>3. ASSUME NEW p \in Prob, prob' = [prob EXCEPT ![x] = p]
      PROVE  prob' \in [Contexts -> 0 .. kBitModelTotal] /\ ProbInBand'
  <2>1. p \in 0 .. kBitModelTotal
    BY ModelAssumption, WidthAssumption DEF Prob, MinProb
  <2>2. prob \in [Contexts -> 0 .. kBitModelTotal] /\ ProbInBand
    BY DEF IInv, TypeOK
  <2>3. prob' \in [Contexts -> 0 .. kBitModelTotal]
    BY <1>3, <2>1, <2>2
  <2>4. ASSUME NEW y \in Contexts PROVE prob'[y] \in Prob
    <3>1. CASE y = x  BY <1>3, <2>2, <3>1
    <3>2. CASE y # x  BY <1>3, <2>2, <3>2 DEF ProbInBand
    <3>3. QED BY <3>1, <3>2
  <2>5. QED BY <2>3, <2>4 DEF ProbInBand
<1> HIDE DEF b
<1>4. CASE DecodeZero(x)
  <2>1. code < b /\ Normalize(b, code)  BY <1>4 DEF DecodeZero, b
  <2>2. prob' \in [Contexts -> 0 .. kBitModelTotal] /\ ProbInBand'
    <3>1. prob' = [prob EXCEPT ![x] = TowardsZero(prob[x])]
      BY <1>4 DEF DecodeZero
    <3>2. QED BY <1>1, <1>3, <3>1, AdaptInBand
  <2>3. TypeOK /\ b < Word  BY <1>1, <1>2 DEF IInv
  <2>4. /\ range' \in 0 .. Word - 1 /\ range' >= kTopValue
        /\ code' \in 0 .. Word - 1
        /\ left' \in Nat /\ ExtraBytes' \in {0, 1}
        /\ code' < range'
    BY <1>1, <1>2, <2>1, <2>3, NormalizeOK
  <2>5. QED BY <2>2, <2>4 DEF IInv, TypeOK, RangeNormalised
<1>5. CASE DecodeOne(x)
  <2>1. code >= b /\ Normalize(range - b, code - b)  BY <1>5 DEF DecodeOne, b
  <2>2. prob' \in [Contexts -> 0 .. kBitModelTotal] /\ ProbInBand'
    <3>1. prob' = [prob EXCEPT ![x] = TowardsOne(prob[x])]
      BY <1>5 DEF DecodeOne
    <3>2. QED BY <1>1, <1>3, <3>1, AdaptInBand
  <2>3. /\ range - b \in Nat /\ range - b < Word
        /\ code - b \in Nat /\ code - b < Word
        /\ code < range => code - b < range - b
    BY <1>1, <1>2, <2>1
  <2>4. /\ range' \in 0 .. Word - 1 /\ range' >= kTopValue
        /\ code' \in 0 .. Word - 1
        /\ left' \in Nat /\ ExtraBytes' \in {0, 1}
        /\ code < range => code' < range'
    BY <1>2, <2>1, <2>3, NormalizeOK DEF IInv
  <2>5. QED BY <2>2, <2>4 DEF IInv, TypeOK, RangeNormalised
<1>6. QED BY <1>4, <1>5 DEF BitDecode

LEMMA DirectBitOK ==
  ASSUME IInv, DirectBit
  PROVE  IInv' /\ (code < 2 * (range \div 2) => code' < range')
<1> USE WordFacts
<1> DEFINE half == range \div 2
<1>1. /\ range \in Nat /\ range < Word /\ range >= kTopValue
      /\ code \in Nat /\ code < Word
  BY DEF IInv, TypeOK, RangeNormalised
<1>2. half \in Nat /\ half < Word /\ 2 * half + 1 >= range
  BY <1>1
<1>3. half * ByteBase >= kTopValue
  <2>1. kTopValue % 2 = 0 /\ 2 * half >= kTopValue
    <3>1. PICK k \in Nat : kBitModelTotal = 2 * k
      <4>1. kBitModelTotal \div 2 \in Nat /\ kBitModelTotal = 2 * (kBitModelTotal \div 2)
        BY ModelAssumption, WidthAssumption
      <4>2. QED BY <4>1
    <3>2. TopPerModel * k \in Nat /\ kTopValue = 2 * (TopPerModel * k)
      BY <3>1, WidthAssumption
    <3>3. QED BY <1>1, <1>2, <3>2
  <2>2. half * 2 <= half * ByteBase
    BY <1>2, WidthAssumption, ProductMonotone
  <2>3. half * ByteBase \in Nat  BY <1>2, WidthAssumption
  <2>4. QED BY <1>2, <2>1, <2>2, <2>3
<1>4. UNCHANGED prob /\ \/ code >= half /\ Normalize(half, code - half)
                        \/ code < half /\ Normalize(half, code)
  BY DEF DirectBit
<1> HIDE DEF half
<1>5. /\ range' \in 0 .. Word - 1 /\ range' >= kTopValue
      /\ code' \in 0 .. Word - 1
      /\ left' \in Nat /\ ExtraBytes' \in {0, 1}
      /\ code < 2 * half => code' < range'
  <2>1. CASE code >= half /\ Normalize(half, code - half)
    <3>1. code - half \in Nat /\ code - half < Word
          /\ (code < 2 * half => code - half < half)
      BY <1>1, <1>2, <2>1
    <3>2. QED BY <1>2, <1>3, <2>1, <3>1, NormalizeOK DEF IInv
  <2>2. CASE code < half /\ Normalize(half, code)
    BY <1>1, <1>2, <1>3, <2>2, NormalizeOK DEF IInv
  <2>3. QED BY <1>4, <2>1, <2>2
<1>6. QED BY <1>4, <1>5 DEF IInv, TypeOK, ProbInBand, RangeNormalised, half

LEMMA NextIInv == IInv /\ [Next]_vars => IInv'
<1> SUFFICES ASSUME IInv, [Next]_vars PROVE IInv'  OBVIOUS
<1>1. ASSUME NEW x \in Contexts, BitDecode(x) PROVE IInv'
  BY <1>1, BitDecodeOK
<1>2. CASE DirectBit  BY <1>2, DirectBitOK
<1>3. CASE UNCHANGED vars
  BY <1>3 DEF vars, IInv, TypeOK, ProbInBand, RangeNormalised
<1>4. QED BY <1>1, <1>2, <1>3 DEF Next

LEMMA Invariance == Spec => []IInv
<1>1. QED BY InitIInv, NextIInv, PTL DEF Spec

(* Every variable of the range decoder keeps its type: no UInt32 operation *)
(* of the decoder leaves the word.                                         *)
THEOREM TypeCorrect == Spec => []TypeOK
<1>1. IInv => TypeOK  BY DEF IInv
<1>2. QED BY <1>1, Invariance, PTL

(* Whatever bits are decoded, no probability leaves the band in which both *)
(* bits have a share of the range.                                         *)
THEOREM ProbsStayInBand == Spec => []ProbInBand
<1>1. IInv => ProbInBand  BY DEF IInv
<1>2. QED BY <1>1, Invariance, PTL

(* One conditional byte per bit is enough: the range is at least kTopValue *)
(* before every bit.                                                       *)
THEOREM RangeStaysNormalised == Spec => []RangeNormalised
<1>1. IInv => RangeNormalised  BY DEF IInv
<1>2. QED BY <1>1, Invariance, PTL

(* Decoding a bit with a probability keeps code < range for every next     *)
(* byte of the input.                                                      *)
THEOREM BitsKeepInterval == Spec => BitKeepsInterval
<1>1. IInv /\ [Next]_vars
        => [(\E x \in Contexts : BitDecode(x)) /\ code < range => code' < range']_vars
  <2> SUFFICES ASSUME IInv, \E x \in Contexts : BitDecode(x), code < range
               PROVE  code' < range'
    OBVIOUS
  <2>1. QED BY BitDecodeOK
<1>2. QED BY <1>1, Invariance, PTL DEF Spec, BitKeepsInterval

(* A direct bit keeps it as well, but for the value an odd range leaves    *)
(* to neither half.                                                        *)
THEOREM DirectBitsKeepInterval == Spec => DirectBitKeepsInterval
<1>1. IInv /\ [Next]_vars
        => [DirectBit /\ code < 2 * (range \div 2) => code' < range']_vars
  BY DirectBitOK
<1>2. QED BY <1>1, Invariance, PTL DEF Spec, DirectBitKeepsInterval
=============================================================================
