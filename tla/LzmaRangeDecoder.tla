-------------------------- MODULE LzmaRangeDecoder --------------------------
(***************************************************************************)
(* The adaptive binary range decoder of src/LZMA/LzmaDecode.c: the part of *)
(* CRangeDecoder that turns compressed bytes into bits, together with the  *)
(* probabilities (CProb) that each decoded bit adapts.                     *)
(*                                                                         *)
(* One action per primitive the rest of the decoder calls: a bit decoded   *)
(* with a probability (RangeDecoderBitDecode) and one turn of the loop of  *)
(* RangeDecoderDecodeDirectBits.  The compressed bytes are arbitrary, so   *)
(* every stream is a behaviour, damaged ones included.                     *)
(*                                                                         *)
(* The powers of two of the code are constants, so the theorems of         *)
(* LzmaRangeDecoder_proofs hold for the code's widths and TLC runs on      *)
(* narrow ones.                                                            *)
(***************************************************************************)
EXTENDS Integers

CONSTANTS
  ByteBase,        \* 1 << 8
  kTopValue,       \* 1 << kNumTopBits; a UInt32 holds ByteBase * kTopValue values
  kBitModelTotal,  \* 1 << kNumBitModelTotalBits
  MoveDiv,         \* 1 << kNumMoveBits
  TopPerModel,     \* kTopValue / kBitModelTotal
  Contexts,        \* the probabilities in use
  MaxInput         \* longest compressed input

ASSUME WidthAssumption ==
  /\ ByteBase \in Nat /\ ByteBase >= 2
  /\ TopPerModel \in Nat /\ TopPerModel >= 1
  /\ kBitModelTotal \in Nat /\ kBitModelTotal >= 2
  /\ kTopValue = TopPerModel * kBitModelTotal

\* 2 * 31 <= 2048, 31 * 256 >= 2048 and the start value 1024 is in 31..2017.
ASSUME ModelAssumption ==
  /\ MoveDiv \in Nat /\ MoveDiv >= 2
  /\ kBitModelTotal % 2 = 0
  /\ 2 * (MoveDiv - 1) <= kBitModelTotal
  /\ (MoveDiv - 1) * ByteBase >= kBitModelTotal

ASSUME InputAssumption == MaxInput \in Nat

VARIABLES
  range,       \* rd->Range
  code,        \* rd->Code
  prob,        \* the CProb of each context
  left,        \* rd->BufferLim - rd->Buffer
  ExtraBytes   \* rd->ExtraBytes

vars == <<range, code, prob, left, ExtraBytes>>

Byte == 0 .. ByteBase - 1
Word == ByteBase * kTopValue          \* the number of UInt32 values
MinProb == MoveDiv - 1                \* x -= x / MoveDiv moves no x <= MinProb
Prob == MinProb .. kBitModelTotal - MinProb

-----------------------------------------------------------------------------
(* Mutated: code kept in a type wider than UInt32. *)
ShiftInWide(c, b) == c * ByteBase + b

(* (code << 8) | byte, in a UInt32 *)
ShiftIn(c, b) == (c * ByteBase + b) % Word

(* RangeDecoderReadByte: the next byte of the input; once it is exhausted, *)
(* 0xFF and ExtraBytes = 1.                                                *)
ReadByte(b) ==
  \/ left > 0 /\ left' = left - 1 /\ UNCHANGED ExtraBytes
  \/ left = 0 /\ b = ByteBase - 1 /\ ExtraBytes' = 1 /\ UNCHANGED left

(* Mutated: the test looks at the range from before the bit. *)
NormalizeStale(r, c) ==
  \/ /\ range < kTopValue
     /\ range' = r * ByteBase
     /\ \E b \in Byte : ReadByte(b) /\ code' = ShiftIn(c, b)
  \/ /\ range >= kTopValue
     /\ range' = r /\ code' = c
     /\ UNCHANGED <<left, ExtraBytes>>

(* `if (range < kTopValue)': one byte, never two. *)
Normalize(r, c) ==
  \/ /\ r < kTopValue
     /\ range' = r * ByteBase
     /\ \E b \in Byte : ReadByte(b) /\ code' = ShiftIn(c, b)
  \/ /\ r >= kTopValue
     /\ range' = r /\ code' = c
     /\ UNCHANGED <<left, ExtraBytes>>

(* Mutated: a shift that rounds up. *)
TowardsZeroUp(p) == p + (kBitModelTotal - p + MoveDiv - 1) \div MoveDiv

(* prob += (kBitModelTotal - prob) >> kNumMoveBits, prob -= prob >> ... *)
TowardsZero(p) == p + (kBitModelTotal - p) \div MoveDiv
TowardsOne(p) == p - p \div MoveDiv

Bound(x) == (range \div kBitModelTotal) * prob[x]

(* Mutated: <= for <. *)
DecodeZeroAtBound(x) ==
  /\ code <= Bound(x)
  /\ prob' = [prob EXCEPT ![x] = TowardsZero(@)]
  /\ Normalize(Bound(x), code)

DecodeZero(x) ==
  /\ code < Bound(x)
  /\ prob' = [prob EXCEPT ![x] = TowardsZero(@)]
  /\ Normalize(Bound(x), code)

DecodeOne(x) ==
  /\ code >= Bound(x)
  /\ prob' = [prob EXCEPT ![x] = TowardsOne(@)]
  /\ Normalize(range - Bound(x), code - Bound(x))

BitDecode(x) == DecodeZero(x) \/ DecodeOne(x)

(* Mutated: > for >=. *)
DirectBitAboveHalf ==
  LET half == range \div 2
  IN  /\ UNCHANGED prob
      /\ \/ code > half /\ Normalize(half, code - half)
         \/ code <= half /\ Normalize(half, code)

(* One turn of the loop of RangeDecoderDecodeDirectBits. *)
DirectBit ==
  LET half == range \div 2
  IN  /\ UNCHANGED prob
      /\ \/ code >= half /\ Normalize(half, code - half)
         \/ code < half /\ Normalize(half, code)

(* RangeDecoderInit on an input of `size' bytes: five bytes are shifted    *)
(* into code, 0xFF for each that is missing.                               *)
InitCode(bytes) ==
  ShiftIn(ShiftIn(ShiftIn(ShiftIn(ShiftIn(0, bytes[1]), bytes[2]),
                          bytes[3]), bytes[4]), bytes[5])

Init ==
  /\ range = Word - 1
  /\ prob = [x \in Contexts |-> kBitModelTotal \div 2]
  /\ \E size \in 0 .. MaxInput, bytes \in [1 .. 5 -> Byte] :
       /\ \A i \in 1 .. 5 : i > size => bytes[i] = ByteBase - 1
       /\ code = InitCode(bytes)
       /\ left = IF size >= 5 THEN size - 5 ELSE 0
       /\ ExtraBytes = IF size >= 5 THEN 0 ELSE 1

Next == (\E x \in Contexts : BitDecode(x)) \/ DirectBit

Spec == Init /\ [][Next]_vars

-----------------------------------------------------------------------------
TypeOK ==
  /\ range \in 0 .. Word - 1
  /\ code \in 0 .. Word - 1
  /\ prob \in [Contexts -> 0 .. kBitModelTotal]
  /\ left \in Nat
  /\ ExtraBytes \in {0, 1}

(* No sequence of decoded bits drives a probability to a value at which    *)
(* one of the two bits would get an empty share of the range.  The code    *)
(* has no test for it: it relies on the rounding of the two shifts.        *)
ProbInBand == \A x \in Contexts : prob[x] \in Prob

(* Between two bits the range is at least kTopValue although the code      *)
(* normalises with one `if' (lines 118, 131, 143) and not with a loop.     *)
RangeNormalised == range >= kTopValue

(* A bit decoded with a probability never leaves the interval the encoder  *)
(* chose: whatever the next byte is, code < range is preserved, and no bit *)
(* of code is shifted out of the word.  (A direct bit does not preserve    *)
(* it: an odd range loses its last value to neither half.)                 *)
BitKeepsInterval ==
  [][(\E x \in Contexts : BitDecode(x)) /\ code < range => code' < range']_vars

(* A direct bit leaves code < range too, except for the one code value     *)
(* that no encoder writes: the odd value an odd range leaves over.         *)
DirectBitKeepsInterval ==
  [][DirectBit /\ code < 2 * (range \div 2) => code' < range']_vars
=============================================================================
