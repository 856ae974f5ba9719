-------------------------- MODULE LpaqCoder_proofs --------------------------
(***************************************************************************)
(* The interval of the LPAQ1v2 coder never becomes too narrow for a bit,   *)
(* whatever is predicted, and what it decompresses is what it compressed,  *)
(* for every width of the byte and of the predictions, every model and     *)
(* every file.  Then the predictor: every path through a half byte has a   *)
(* state of its own, the hash table replaces the least of the slots it     *)
(* probes, and a match agrees with the text.                               *)
(***************************************************************************)
EXTENDS LpaqCoder, NatLemmas

Probability == 0 .. Scale - 1
WordValue == 0 .. MaxWord

LEMMA WidthFacts ==
  /\ ByteBase \in Nat /\ ByteBase >= 2 /\ Top \in Nat /\ Top >= 1
  /\ ByteBase * ByteBase \in Nat /\ Top = ByteBase * (ByteBase * ByteBase)
  /\ ByteBase * ByteBase <= Top
<1>1. ByteBase \in Nat /\ ByteBase >= 2  BY WidthAssumption
<1>2. ByteBase * ByteBase \in Nat /\ 1 * ByteBase <= ByteBase * ByteBase
  BY <1>1, MulMono
<1>3. 1 * (ByteBase * ByteBase) <= ByteBase * (ByteBase * ByteBase)
  BY <1>1, <1>2, MulMono
<1>4. Top = ByteBase * (ByteBase * ByteBase)  BY <1>1, WidthAssumption
<1>5. QED BY <1>1, <1>2, <1>3, <1>4

(* A raised prediction is neither 0 nor Scale. *)
LEMMA RaisedInside ==
  ASSUME NEW p \in Probability
  PROVE  Raised(p) \in 1 .. Scale - 1
BY WidthAssumption DEF Raised, Probability

(* The share of a 1 is less than the whole of the interval, which has at   *)
(* least two values.                                                       *)
LEMMA ShareOfOne ==
  ASSUME NEW w \in Nat, w >= 1, NEW r \in 1 .. Scale - 1
  PROVE  (w \div Scale) * r + ((w % Scale) * r) \div Scale \in 0 .. w - 1
<1> DEFINE q == w \div Scale
           m == w % Scale
           t == (m * r) \div Scale
<1>1. q \in Nat /\ m \in 0 .. Scale - 1 /\ w = Scale * q + m
  BY WidthAssumption
<1>2. m * r \in Nat  BY <1>1, WidthAssumption
<1>3. t \in Nat  BY <1>2, WidthAssumption
<1> HIDE DEF q, m
<1>4. r * q <= (Scale - 1) * q /\ r * q \in Nat  BY <1>1, MulMono, WidthAssumption
<1>5. (Scale - 1) * q = Scale * q - q  BY <1>1, WidthAssumption
<1>6. q * r = r * q  BY <1>1, WidthAssumption
<1>7. CASE m = 0
  <2>1. t = 0  BY <1>7, WidthAssumption
  <2>2. q >= 1  BY <1>1, <1>7, WidthAssumption
  <2>3. q * r + t \in 0 .. w - 1
    BY <1>1, <1>4, <1>5, <1>6, <1>7, <2>1, <2>2, WidthAssumption
  <2>4. QED BY <2>3 DEF q, m
<1>8. CASE m > 0
  <2>1. r * m <= (Scale - 1) * m  BY <1>1, MulMono, WidthAssumption
  <2>2. m * r < Scale * m  BY <1>1, <1>8, <2>1, WidthAssumption
  <2>3. t < m  BY <1>1, <1>2, <2>2, WidthAssumption
  <2>4. q * r + t \in 0 .. w - 1
    BY <1>1, <1>3, <1>4, <1>5, <1>6, <2>3, WidthAssumption
  <2>5. QED BY <2>4 DEF q, m
<1>9. QED BY <1>1, <1>7, <1>8

(* Both bits get a part of every interval of two values or more. *)
LEMMA MidInside ==
  ASSUME NEW low \in WordValue, NEW high \in WordValue, low < high,
         NEW p \in Probability
  PROVE  Mid(low, high, p) \in low .. high - 1
<1>1. WordValue \subseteq Nat  BY DEF WordValue
<1>2. high - low \in Nat /\ high - low >= 1  BY <1>1
<1>3. Raised(p) \in 1 .. Scale - 1  BY RaisedInside
<1> DEFINE share == ((high - low) \div Scale) * Raised(p)
                      + (((high - low) % Scale) * Raised(p)) \div Scale
<1>4. share \in 0 .. (high - low) - 1  BY <1>2, <1>3, ShareOfOne
<1>5. Mid(low, high, p) = low + share
  <2>1. /\ ((high - low) \div Scale) * Raised(p) \in Int
        /\ (((high - low) % Scale) * Raised(p)) \div Scale \in Int
    BY <1>2, <1>3, WidthAssumption
  <2>2. QED BY <1>1, <2>1 DEF Mid
<1>6. QED BY <1>1, <1>4, <1>5

-----------------------------------------------------------------------------
LEMMA WordFacts ==
  /\ Word \in Nat /\ Word >= 1
  /\ MaxWord \in Nat /\ MaxWord = ByteBase * Top - 1
<1>1. ByteBase * Top \in Nat /\ ByteBase * Top >= 1
  BY MulMono, WidthFacts
<1>2. QED BY <1>1 DEF Word, MaxWord

(* A shift keeps a word in its width. *)
LEMMA ShiftInWord ==
  ASSUME NEW w \in Nat, NEW b \in 0 .. ByteBase - 1
  PROVE  ShiftIn(w, b) \in WordValue
<1>1. w % Top \in Nat /\ w % Top <= Top - 1  BY WidthFacts
<1>2. (w % Top) * ByteBase <= (Top - 1) * ByteBase /\ (w % Top) * ByteBase \in Nat
  BY <1>1, MulMono, WidthFacts
<1>3. (Top - 1) * ByteBase = ByteBase * Top - ByteBase  BY WidthFacts
<1>4. QED BY <1>2, <1>3, WordFacts, WidthFacts DEF ShiftIn, WordValue

(* When the byte that leaves is the same in both, the shift keeps them in  *)
(* order.                                                                  *)
LEMMA ShiftInOrder ==
  ASSUME NEW low \in Nat, NEW high \in Nat, low <= high, SameTop(low, high)
  PROVE  ShiftIn(low, 0) <= ShiftIn(high, ByteBase - 1)
<1>1. /\ low = Top * (low \div Top) + (low % Top)
      /\ high = Top * (high \div Top) + (high % Top)
      /\ low % Top \in Nat /\ high % Top \in Nat
      /\ low \div Top \in Nat /\ high \div Top \in Nat
  <2>1. Top \in Nat \ {0}  BY WidthFacts
  <2>2. QED BY <2>1
<1>2. low \div Top = high \div Top  BY DEF SameTop
<1> DEFINE k == Top * (low \div Top)
<1>3. k \in Nat  BY <1>1, WidthFacts
<1>4. low % Top <= high % Top  BY <1>1, <1>2, <1>3
<1>5. (low % Top) * ByteBase <= (high % Top) * ByteBase
        /\ (low % Top) * ByteBase \in Nat /\ (high % Top) * ByteBase \in Nat
  BY <1>1, <1>4, MulMono, WidthFacts
<1>6. QED BY <1>5, WidthFacts DEF ShiftIn

LEMMA DifferentTop ==
  ASSUME NEW low \in WordValue, NEW high \in WordValue, low <= high, ~SameTop(low, high)
  PROVE  low < high
BY DEF SameTop, WordValue

-----------------------------------------------------------------------------
(* The ends of the interval are in order; every prediction that was made   *)
(* or is recorded is in range, and there is one for each bit that the      *)
(* decompressor asks for.                                                  *)
IInv ==
  /\ x1 \in WordValue /\ x2 \in WordValue /\ x1 <= x2
  /\ e_pr \in Probability
  /\ pr \in Seq(Probability) /\ Len(pr) = sent
  /\ got \in Seq({0, 1})
  /\ phase \in {"compress", "decompress", "done"}
  /\ phase # "compress" => sent = Bits

LEMMA InitIInv == Init => IInv
<1>1. SUFFICES ASSUME Init PROVE IInv  OBVIOUS
<1>2. Scale \div 2 \in Probability  BY WidthAssumption DEF Probability
<1>3. QED BY <1>1, <1>2, WordFacts DEF Init, IInv, WordValue

(* The part of a bit is an interval. *)
LEMMA NarrowKeeps ==
  ASSUME IInv, Normalised, NEW y, Narrow(y, e_pr)
  PROVE  x1' \in WordValue /\ x2' \in WordValue /\ x1' <= x2'
<1>1. x1 < x2  BY DifferentTop DEF IInv, Normalised
<1>2. Mid(x1, x2, e_pr) \in x1 .. x2 - 1  BY <1>1, MidInside DEF IInv
<1>3. CASE y = 1  BY <1>1, <1>2, <1>3, WordFacts DEF Narrow, IInv, WordValue
<1>4. CASE y # 1  BY <1>1, <1>2, <1>4, WordFacts DEF Narrow, IInv, WordValue
<1>5. QED BY <1>3, <1>4

LEMMA ShiftKeeps ==
  ASSUME IInv, ~Normalised, x1' = ShiftIn(x1, 0), x2' = ShiftIn(x2, ByteBase - 1)
  PROVE  x1' \in WordValue /\ x2' \in WordValue /\ x1' <= x2'
<1>1. x1 \in Nat /\ x2 \in Nat  BY DEF IInv, WordValue
<1>2. 0 \in 0 .. ByteBase - 1 /\ ByteBase - 1 \in 0 .. ByteBase - 1  BY WidthAssumption
<1>3. QED BY <1>1, <1>2, ShiftInWord, ShiftInOrder DEF IInv, Normalised

LEMMA GuessInRange == ASSUME NEW p PROVE Guess(p) \in Probability
BY WidthAssumption DEF Guess, Probability

LEMMA NextIInv == IInv /\ [Next]_vars => IInv'
<1>1. SUFFICES ASSUME IInv, [Next]_vars PROVE IInv'  OBVIOUS
<1>2. CASE Encode
  <2>1. x1' \in WordValue /\ x2' \in WordValue /\ x1' <= x2'
    BY <1>1, <1>2, NarrowKeeps DEF Encode
  <2>2. PICK p \in IF sent < FreeBits(file) THEN Prediction ELSE {Guess(Update(pd, BitAt(sent + 1)))} :
          e_pr' = p /\ pr' = Append(pr, p)
    BY <1>2 DEF Encode, Predict
  <2>3. p \in Probability  BY <2>2, GuessInRange, WidthAssumption DEF Probability
  <2>4. pr' \in Seq(Probability) /\ Len(pr') = sent'
    BY <1>1, <1>2, <2>2, <2>3 DEF IInv, Encode
  <2>5. QED BY <1>1, <1>2, <2>1, <2>2, <2>3, <2>4 DEF IInv, Encode
<1>3. CASE EncodeShift \/ DecodeShift
  <2>1. x1' \in WordValue /\ x2' \in WordValue /\ x1' <= x2'
    BY <1>1, <1>3, ShiftKeeps DEF EncodeShift, DecodeShift
  <2>2. UNCHANGED <<e_pr, pr, sent, got, phase, file>>
    BY <1>3 DEF EncodeShift, DecodeShift
  <2>3. QED BY <1>1, <2>1, <2>2 DEF IInv, Bits
<1>4. CASE Flush
  <2>1. Scale \div 2 \in Probability  BY WidthAssumption DEF Probability
  <2>2. QED BY <1>1, <1>4, <2>1, WordFacts DEF IInv, Flush, WordValue, Bits
<1>5. CASE Decode
  <2>1. PICK y \in {0, 1} : got' = Append(got, y) /\ Narrow(y, e_pr) /\ Repredict(y)
    BY <1>5 DEF Decode
  <2>2. x1' \in WordValue /\ x2' \in WordValue /\ x1' <= x2'
    BY <1>1, <1>5, <2>1, NarrowKeeps DEF Decode
  <2>3. pr[Len(got) + 1] \in Probability
    <3>1. Len(got) \in Nat /\ Len(got) < Len(pr) /\ Len(pr) \in Nat
      BY <1>1, <1>5 DEF IInv, Decode
    <3>2. QED BY <1>1, <3>1 DEF IInv
  <2>4. e_pr' \in Probability
    BY <2>1, <2>3, WidthAssumption DEF Repredict, Probability
  <2>5. got' \in Seq({0, 1})  BY <1>1, <2>1 DEF IInv
  <2>6. QED BY <1>1, <1>5, <2>2, <2>4, <2>5 DEF IInv, Decode, Bits
<1>6. CASE Finish  BY <1>1, <1>6 DEF IInv, Finish, Bits
<1>7. CASE UNCHANGED vars  BY <1>1, <1>7 DEF IInv, vars, Bits
<1>8. QED BY <1>1, <1>2, <1>3, <1>4, <1>5, <1>6, <1>7 DEF Next

(* Whatever the model predicts, each of the two bits gets a part of the    *)
(* interval: code() of Encoder.c can always narrow it, and its loop leaves *)
(* an interval that can be narrowed again.                                 *)
THEOREM BothBitsAlwaysFit == Spec => []BothBitsFit
<1>1. IInv => BothBitsFit
  <2>1. SUFFICES ASSUME IInv PROVE BothBitsFit  OBVIOUS
  <2>2. ASSUME Normalised, NEW p \in Prediction PROVE Mid(x1, x2, p) \in x1 .. x2 - 1
    <3>1. x1 < x2  BY <2>1, <2>2, DifferentTop DEF IInv, Normalised
    <3>2. p \in Probability  BY WidthAssumption DEF Probability
    <3>3. QED BY <2>1, <3>1, <3>2, MidInside DEF IInv
  <2>3. QED BY <2>1, <2>2 DEF BothBitsFit, IInv
<1>2. QED BY InitIInv, NextIInv, <1>1, PTL DEF Spec

-----------------------------------------------------------------------------
(* The bits of a file. *)
LEMMA ElementIn == ASSUME NEW S, NEW s \in Seq(S), NEW i \in 1 .. Len(s) PROVE s[i] \in S
OBVIOUS

LEMMA BitIsBit ==
  ASSUME file \in Files, NEW i \in 1 .. Bits
  PROVE  BitAt(i) \in {0, 1}
<1>1. file \in Seq(0 .. Octets - 1) /\ Len(file) \in Nat  BY WidthAssumption
<1>2. ByteBits \in Nat \ {0}  BY SizeAssumption
<1> DEFINE j == i - 1
           q == j \div ByteBits
           d == j % ByteBits
<1>3. j \in Nat /\ j < ByteBits * Len(file)  BY <1>1, <1>2 DEF Bits
<1> HIDE DEF j
<1>4. q \in Nat /\ d \in 0 .. ByteBits - 1 /\ j = q * ByteBits + d
  BY <1>2, <1>3, DivMod
<1> HIDE DEF q, d
<1>5. q < Len(file)
  <2>1. SUFFICES ASSUME Len(file) <= q PROVE FALSE  BY <1>1, <1>4
  <2>2. Len(file) * ByteBits <= q * ByteBits  BY <1>1, <1>2, <1>4, <2>1, MulMono
  <2>3. Len(file) * ByteBits = ByteBits * Len(file)  BY <1>1, <1>2
  <2>4. q * ByteBits \in Nat /\ ByteBits * Len(file) \in Nat
    BY <1>1, <1>2, <1>4, <2>1, <2>3, MulMono
  <2>5. QED BY <1>3, <1>4, <2>2, <2>3, <2>4
<1>6. file[1 + q] \in Int
  <2>1. 1 + q \in 1 .. Len(file)  BY <1>1, <1>4, <1>5
  <2>2. file[1 + q] \in 0 .. Octets - 1  BY <1>1, <2>1, ElementIn
  <2>3. QED BY <2>2
<1>7. ByteBits - 1 - d \in Nat  BY <1>2, <1>4
<1>8. 2 ^ (ByteBits - 1 - d) \in Nat \ {0}  BY <1>7, PowerOfTwo
<1> DEFINE e == 2 ^ (ByteBits - 1 - d)
           c == file[1 + q]
<1>9. e \in Nat \ {0} /\ c \in Int  BY <1>6, <1>8
<1> HIDE DEF e, c
<1>10. c \div e \in Int  BY <1>9
<1>11. (c \div e) % 2 \in {0, 1}  BY <1>10
<1>12. QED BY <1>11 DEF BitAt, j, q, d, e, c

-----------------------------------------------------------------------------
(* The word that starts after the byte n of the digits f.                  *)
WordAt(f, n) == Open([i \in 1 .. Window |-> f[n + i]])

Digits == [Nat \ {0} -> Byte]

LEMMA Combine ==
  ASSUME NEW a \in Nat, NEW b \in Byte, a < Top
  PROVE  ShiftIn(a, b) = a * ByteBase + b
<1>1. Top \in Nat \ {0} /\ a \in 0 .. Top - 1  BY WidthFacts
<1>2. a % Top = a  BY <1>1, ModSmall
<1>3. QED BY <1>2 DEF ShiftIn

LEMMA OpenValue ==
  ASSUME NEW g, g[1] \in Byte, g[2] \in Byte, g[3] \in Byte, g[4] \in Byte
  PROVE  /\ Open(g) = ((g[1] * ByteBase + g[2]) * ByteBase + g[3]) * ByteBase + g[4]
         /\ (g[1] * ByteBase + g[2]) * ByteBase + g[3] \in 0 .. Top - 1
<1> DEFINE B == ByteBase
           C == ByteBase * ByteBase
<1>1. B \in Nat /\ B >= 2 /\ C \in Nat /\ Top \in Nat \ {0} /\ Top = B * C /\ C <= Top
      /\ C = B * B
  BY WidthFacts
<1> HIDE DEF B, C
<1>2. \A b \in Byte : b \in Nat /\ b <= B - 1  BY <1>1 DEF Byte, B
<1> DEFINE s == g[1] * B + g[2]
           r == s * B + g[3]
<1>3. s \in Nat /\ s <= C - 1
  <2>1. g[1] * B <= (B - 1) * B /\ g[1] * B \in Nat  BY <1>1, <1>2, MulMono
  <2>2. (B - 1) * B = C - B  BY <1>1
  <2>3. QED BY <1>1, <1>2, <2>1, <2>2
<1>4. ShiftIn(g[1], g[2]) = s
  <2>1. g[1] < Top /\ g[1] \in Nat
    <3>1. 1 * B <= C  BY <1>1, MulMono
    <3>2. QED BY <1>1, <1>2, <3>1
  <2>2. QED BY <2>1, Combine DEF B
<1> HIDE DEF s
<1>5. r \in Nat /\ r <= Top - 1
  <2>1. s * B <= (C - 1) * B /\ s * B \in Nat  BY <1>1, <1>3, MulMono
  <2>2. (C - 1) * B = Top - B  BY <1>1
  <2>3. QED BY <1>1, <1>2, <2>1, <2>2
<1>6. ShiftIn(s, g[3]) = r
  <2>1. s < Top  BY <1>1, <1>3
  <2>2. QED BY <1>3, <2>1, Combine DEF B
<1> HIDE DEF r
<1>7. ShiftIn(r, g[4]) = r * B + g[4]
  <2>1. r < Top  BY <1>1, <1>5
  <2>2. QED BY <1>5, <2>1, Combine DEF B
<1>8. Open(g) = r * B + g[4] /\ r \in 0 .. Top - 1
  BY <1>1, <1>4, <1>5, <1>6, <1>7 DEF Open
<1>9. QED BY <1>8 DEF r, s, B

LEMMA WordValueAt ==
  ASSUME NEW f \in Digits, NEW n \in Nat
  PROVE  /\ WordAt(f, n) = ((f[n + 1] * ByteBase + f[n + 2]) * ByteBase + f[n + 3])
                             * ByteBase + f[n + 4]
         /\ (f[n + 1] * ByteBase + f[n + 2]) * ByteBase + f[n + 3] \in 0 .. Top - 1
         /\ f[n + 1] \in Byte /\ f[n + 2] \in Byte /\ f[n + 3] \in Byte /\ f[n + 4] \in Byte
<1> DEFINE g == [i \in 1 .. Window |-> f[n + i]]
<1>1. /\ n + 1 \in Nat \ {0} /\ n + 2 \in Nat \ {0} /\ n + 3 \in Nat \ {0}
      /\ n + 4 \in Nat \ {0}
  OBVIOUS
<1>2. f[n + 1] \in Byte /\ f[n + 2] \in Byte /\ f[n + 3] \in Byte /\ f[n + 4] \in Byte
  BY <1>1 DEF Digits
<1>3. g[1] = f[n + 1] /\ g[2] = f[n + 2] /\ g[3] = f[n + 3] /\ g[4] = f[n + 4]
  BY DEF Window
<1> HIDE DEF g
<1>4. /\ Open(g) = ((g[1] * ByteBase + g[2]) * ByteBase + g[3]) * ByteBase + g[4]
      /\ (g[1] * ByteBase + g[2]) * ByteBase + g[3] \in 0 .. Top - 1
  BY <1>2, <1>3, OpenValue
<1>5. QED BY <1>2, <1>3, <1>4 DEF WordAt, g

(* The window is four bytes: its first is what leaves it, and it moves by  *)
(* shifting in the byte after its last.                                    *)
LEMMA WordMoves ==
  ASSUME NEW f \in Digits, NEW n \in Nat
  PROVE  /\ WordAt(f, n) \in WordValue
         /\ WordAt(f, n) \div Top = f[n + 1]
         /\ WordAt(f, n + 1) = ShiftIn(WordAt(f, n), f[n + 5])
         /\ WordAt(f, n) = f[n + 1] * Top
                             + ((f[n + 2] * ByteBase + f[n + 3]) * ByteBase + f[n + 4])
<1> DEFINE B == ByteBase
           C == ByteBase * ByteBase
           a == f[n + 1]
           b == f[n + 2]
           c == f[n + 3]
           d == f[n + 4]
           e == f[n + 5]
           r == (b * B + c) * B + d
<1>1. B \in Nat /\ B >= 2 /\ C \in Nat /\ Top \in Nat \ {0} /\ Top = B * C /\ C = B * B
  BY WidthFacts
<1>2. /\ WordAt(f, n) = ((a * B + b) * B + c) * B + d
      /\ a \in Byte /\ b \in Byte /\ c \in Byte /\ d \in Byte
  BY WordValueAt
<1>3. WordAt(f, n + 1) = r * B + e /\ r \in 0 .. Top - 1
  <2>1. n + 1 + 1 = n + 2 /\ n + 1 + 2 = n + 3 /\ n + 1 + 3 = n + 4 /\ n + 1 + 4 = n + 5
    OBVIOUS
  <2>2. n + 1 \in Nat  OBVIOUS
  <2>3. /\ WordAt(f, n + 1)
             = ((f[n + 1 + 1] * B + f[n + 1 + 2]) * B + f[n + 1 + 3]) * B + f[n + 1 + 4]
        /\ (f[n + 1 + 1] * B + f[n + 1 + 2]) * B + f[n + 1 + 3] \in 0 .. Top - 1
    BY <2>2, WordValueAt
  <2>4. QED BY <2>1, <2>3
<1> HIDE DEF B, C, a, b, c, d, e
<1>4. a \in Nat /\ a <= B - 1 /\ b \in Nat /\ c \in Nat /\ d \in Nat
  BY <1>1, <1>2 DEF Byte, B
<1>5. WordAt(f, n) = a * Top + r
  <2>1. a * B \in Nat /\ b * B \in Nat /\ c * B \in Nat /\ a * C \in Nat /\ b * C \in Nat
        /\ a * Top \in Nat
    BY <1>1, <1>4, MulMono
  <2>2. (a * B + b) * B = a * C + b * B  BY <1>1, <1>4
  <2>3. (a * C + (b * B + c)) * B = (a * C) * B + (b * B + c) * B
    BY <1>1, <1>4, <2>1
  <2>4. (a * C) * B = a * Top  BY <1>1, <1>4
  <2>5. (b * B + c) * B \in Nat  BY <1>1, <1>4, <2>1, MulMono
  <2>6. QED BY <1>2, <1>4, <2>1, <2>2, <2>3, <2>4, <2>5
<1> HIDE DEF r
<1>6. WordAt(f, n) \div Top = a /\ WordAt(f, n) % Top = r
  <2>1. Top \in Nat \ {0}  BY <1>1
  <2>2. (a * Top + r) \div Top = a /\ (a * Top + r) % Top = r
    BY <2>1, <1>3, <1>4, DivModUnique
  <2>3. QED BY <1>5, <2>2
<1>7. WordAt(f, n + 1) = ShiftIn(WordAt(f, n), e)
  BY <1>3, <1>6 DEF ShiftIn, B
<1>8. WordAt(f, n) \in WordValue
  <2>1. a * Top <= (B - 1) * Top /\ a * Top \in Nat  BY <1>1, <1>4, MulMono
  <2>2. (B - 1) * Top = B * Top - Top  BY <1>1
  <2>3. QED BY <1>1, <1>3, <1>5, <2>1, <2>2, WordFacts DEF WordValue, B
<1>9. QED BY <1>5, <1>6, <1>7, <1>8 DEF a, b, c, d, e, r, B

LEMMA SplitTop ==
  ASSUME NEW w \in Nat
  PROVE  w \div Top \in Nat /\ w % Top \in Nat /\ w = (w \div Top) * Top + (w % Top)
<1>1. ASSUME NEW d \in Nat \ {0}
      PROVE  w \div d \in Nat /\ w % d \in Nat /\ w = (w \div d) * d + (w % d)
  <2>1. w \div d \in Nat /\ w % d \in 0 .. d - 1 /\ w = (w \div d) * d + (w % d)
    BY DivMod
  <2>2. QED BY <2>1
<1>2. Top \in Nat \ {0}  BY WidthFacts
<1>3. QED BY <1>1, <1>2

(* A word that the shift moves into the shifted interval was inside.       *)
LEMMA ShiftedInside ==
  ASSUME NEW low \in WordValue, NEW high \in WordValue, SameTop(low, high),
         NEW w \in WordValue, w \div Top = high \div Top, NEW b \in Byte,
         ShiftIn(w, b) \in ShiftIn(low, 0) .. ShiftIn(high, ByteBase - 1)
  PROVE  w \in low .. high
<1> DEFINE k == high \div Top
<1>1. Top \in Nat \ {0} /\ ByteBase \in Nat /\ ByteBase >= 2  BY WidthFacts
<1>2. low \in Nat /\ high \in Nat /\ w \in Nat  BY DEF WordValue
<1>3. /\ low % Top \in Nat /\ high % Top \in Nat /\ w % Top \in Nat
      /\ low = k * Top + (low % Top) /\ high = k * Top + (high % Top)
      /\ w = k * Top + (w % Top) /\ k \in Nat
  <2>1. low \div Top = k /\ w \div Top = k  BY DEF SameTop
  <2>2. QED BY <1>2, <2>1, SplitTop
<1> HIDE DEF k
<1>4. b \in Nat /\ b <= ByteBase - 1  BY <1>1 DEF Byte
<1> DEFINE u == low % Top
           v == w % Top
           z == high % Top
<1>5. u * ByteBase <= v * ByteBase + b /\ v * ByteBase + b <= z * ByteBase + ByteBase - 1
      /\ u \in Nat /\ v \in Nat /\ z \in Nat
      /\ u * ByteBase \in Nat /\ v * ByteBase \in Nat /\ z * ByteBase \in Nat
  BY <1>1, <1>3, <1>4, MulMono DEF ShiftIn
<1> HIDE DEF u, v, z
<1>6. ASSUME NEW i \in Nat, NEW j \in Nat, i < j
      PROVE  i * ByteBase + ByteBase <= j * ByteBase
  <2>1. (i + 1) * ByteBase <= j * ByteBase  BY <1>1, <1>6, MulMono
  <2>2. QED BY <1>1, <2>1
<1>7. u <= v
  <2>1. SUFFICES ASSUME v < u PROVE FALSE  BY <1>5
  <2>2. v * ByteBase + ByteBase <= u * ByteBase  BY <1>5, <1>6, <2>1
  <2>3. QED BY <1>1, <1>4, <1>5, <2>2
<1>8. v <= z
  <2>1. SUFFICES ASSUME z < v PROVE FALSE  BY <1>5
  <2>2. z * ByteBase + ByteBase <= v * ByteBase  BY <1>5, <1>6, <2>1
  <2>3. QED BY <1>1, <1>4, <1>5, <2>2
<1>9. k * Top \in Nat  BY <1>1, <1>3, MulMono
<1>10. QED BY <1>2, <1>3, <1>7, <1>8, <1>9 DEF u, v, z

(* The word that flush leaves: its byte, and then the bytes past the end.  *)
LEMMA FlushedInside ==
  ASSUME NEW low \in WordValue, NEW high \in WordValue, low <= high, ~SameTop(low, high)
  PROVE  (low \div Top) * Top + (Top - 1) \in low .. high
<1> DEFINE j == low \div Top
           k == high \div Top
<1>1. Top \in Nat \ {0}  BY WidthFacts
<1>2. low \in Nat /\ high \in Nat  BY DEF WordValue
<1>3. /\ low % Top \in 0 .. Top - 1 /\ high % Top \in 0 .. Top - 1
      /\ low = j * Top + (low % Top) /\ high = k * Top + (high % Top)
      /\ j \in Nat /\ k \in Nat
  BY <1>1, <1>2, DivMod
<1>4. j # k  BY DEF SameTop
<1> DEFINE u == low % Top
           z == high % Top
<1> HIDE DEF j, k, u, z
<1>5. u \in 0 .. Top - 1 /\ z \in 0 .. Top - 1 /\ low = j * Top + u /\ high = k * Top + z
  BY <1>3 DEF u, z
<1>6. j < k
  <2>1. SUFFICES ASSUME k < j PROVE FALSE  BY <1>3, <1>4
  <2>2. (k + 1) * Top <= j * Top /\ k * Top \in Nat /\ j * Top \in Nat
    BY <1>1, <1>3, <2>1, MulMono
  <2>3. (k + 1) * Top = k * Top + Top  BY <1>1, <1>3
  <2>4. QED BY <1>1, <1>2, <1>5, <2>2, <2>3
<1>7. (j + 1) * Top <= k * Top /\ j * Top \in Nat /\ k * Top \in Nat
  BY <1>1, <1>3, <1>6, MulMono
<1>8. (j + 1) * Top = j * Top + Top  BY <1>1, <1>3
<1>9. j * Top + (Top - 1) \in low .. high  BY <1>1, <1>2, <1>5, <1>7, <1>8
<1>10. QED BY <1>9 DEF j

-----------------------------------------------------------------------------
(* The trail of the compressor: its states, one for each bit and for each  *)
(* shift, with the bits and the bytes that came before.                    *)
Start(s) ==
  /\ s.low = 0 /\ s.high = MaxWord /\ s.out = 0 /\ s.bits = 0
  /\ s.pd = NewPredictor /\ s.pr = Scale \div 2

Typed(s) ==
  /\ s.low \in WordValue /\ s.high \in WordValue /\ s.out \in Nat /\ s.bits \in Nat

CodesBit(s, t) ==
  /\ ~SameTop(s.low, s.high) /\ s.bits < sent
  /\ t.bits = s.bits + 1 /\ t.out = s.out
  /\ IF BitAt(t.bits) = 1
       THEN t.low = s.low /\ t.high = Mid(s.low, s.high, s.pr)
       ELSE t.low = Mid(s.low, s.high, s.pr) + 1 /\ t.high = s.high
  /\ t.pd = Update(s.pd, BitAt(t.bits))
  /\ seen[t.bits] = Seen(t.pd) /\ pr[t.bits] = t.pr

ShiftsByte(s, t) ==
  /\ SameTop(s.low, s.high)
  /\ t.bits = s.bits /\ t.out = s.out + 1
  /\ t.low = ShiftIn(s.low, 0) /\ t.high = ShiftIn(s.high, ByteBase - 1)
  /\ t.pd = s.pd /\ t.pr = s.pr

Trail(T, n) ==
  /\ n \in Nat \ {0} /\ Start(T[1])
  /\ \A k \in 1 .. n : Typed(T[k]) /\ T[k].out <= Len(archive) /\ T[k].bits <= sent
  /\ \A k \in 1 .. n - 1 : CodesBit(T[k], T[k + 1]) \/ ShiftsByte(T[k], T[k + 1])

(* The program that is running is where the trail was at s.                *)
Stands(s) == x1 = s.low /\ x2 = s.high /\ pd = s.pd /\ e_pr = s.pr

(* Digits that begin with the archive.                                     *)
Continues(f) == f \in Digits /\ \A i \in 1 .. Len(archive) : f[i] = archive[i]

(* If the digits that follow the archive are in the interval, the digits   *)
(* at each step were in the interval of that step.                         *)
Nested(T, n) ==
  \A f : Continues(f) /\ WordAt(f, Len(archive)) \in x1 .. x2
           => \A k \in 1 .. n : WordAt(f, T[k].out) \in T[k].low .. T[k].high

Compressing ==
  \E n, T : /\ Trail(T, n) /\ Nested(T, n)
            /\ Stands(T[n]) /\ T[n].out = Len(archive) /\ T[n].bits = sent

(* What the decompressor reads: the archive, and bytes of ones past its end. *)
Read == [i \in Nat \ {0} |-> Getc(i)]

Decompressing ==
  \E n, T :
    /\ Trail(T, n) /\ T[n].bits = sent /\ ~SameTop(T[n].low, T[n].high)
    /\ \A k \in 1 .. n : WordAt(Read, T[k].out) \in T[k].low .. T[k].high
    /\ \E k \in 1 .. n : /\ Stands(T[k]) /\ Len(got) = T[k].bits
                         /\ next = Window + 1 + T[k].out
                         /\ x = WordAt(Read, T[k].out)

LInv ==
  /\ file \in Files /\ archive \in Seq(Byte)
  /\ sent \in Nat /\ sent <= Bits
  /\ \E S : seen \in Seq(S) /\ Len(seen) = sent
  /\ phase = "compress" => got = <<>> /\ Compressing
  /\ phase = "decompress" => Decompressing
  /\ Lossless

-----------------------------------------------------------------------------
LEMMA TrailGrows ==
  ASSUME NEW T, NEW n, Trail(T, n), Nested(T, n),
         T[n].out = Len(archive), NEW t, Typed(t),
         Len(archive) \in Nat, Len(archive') \in Nat, sent \in Nat, sent' \in Nat,
         Len(archive) <= Len(archive'), sent <= sent',
         t.out = Len(archive'), t.bits = sent',
         CodesBit(T[n], t)' \/ ShiftsByte(T[n], t)',
         \A i \in 1 .. sent : seen'[i] = seen[i] /\ pr'[i] = pr[i],
         file' = file, Stands(t)',
         \A f : Continues(f)' /\ WordAt(f, Len(archive')) \in x1' .. x2'
                  => Continues(f) /\ WordAt(f, Len(archive)) \in x1 .. x2
  PROVE  Compressing'
<1> DEFINE U == [i \in 1 .. n + 1 |-> IF i <= n THEN T[i] ELSE t]
<1>1. n \in Nat \ {0} /\ n + 1 \in Nat \ {0}  BY DEF Trail
<1>2. U[n + 1] = t /\ \A k \in 1 .. n : U[k] = T[k]  BY <1>1
<1> HIDE DEF U
<1>3. ASSUME NEW k \in 1 .. n - 1 PROVE (CodesBit(T[k], T[k + 1]) \/ ShiftsByte(T[k], T[k + 1]))'
  <2>1. k \in 1 .. n /\ k + 1 \in 1 .. n  BY <1>1
  <2>2. CASE ShiftsByte(T[k], T[k + 1])  BY <2>2 DEF ShiftsByte
  <2>3. CASE CodesBit(T[k], T[k + 1])
    <3>1. T[k].bits \in Nat /\ T[k].bits < sent /\ T[k + 1].bits = T[k].bits + 1
      BY <2>1, <2>3 DEF CodesBit, Trail, Typed
    <3>2. T[k + 1].bits \in 1 .. sent  BY <3>1
    <3>3. BitAt(T[k + 1].bits)' = BitAt(T[k + 1].bits)  BY DEF BitAt
    <3>4. T[k].bits < sent'  BY <3>1
    <3>5. QED BY <2>3, <3>2, <3>3, <3>4 DEF CodesBit
  <2>4. QED BY <2>2, <2>3 DEF Trail
<1>4. ASSUME NEW k \in 1 .. n
      PROVE  (CodesBit(U[k], U[k + 1]) \/ ShiftsByte(U[k], U[k + 1]))'
  <2>1. CASE k = n
    <3>1. U[k] = T[n] /\ U[k + 1] = t  BY <1>1, <1>2, <2>1
    <3>2. U' = U  BY DEF U
    <3>3. QED BY <3>1, <3>2
  <2>2. CASE k # n
    <3>1. k \in 1 .. n - 1 /\ k + 1 \in 1 .. n  BY <1>1, <2>2
    <3>2. U[k] = T[k] /\ U[k + 1] = T[k + 1]  BY <1>2, <3>1
    <3>3. QED BY <1>3, <3>1, <3>2
  <2>3. QED BY <2>1, <2>2
<1>5. \A k \in 1 .. n + 1 : Typed(U[k]) /\ U[k].out <= Len(archive') /\ U[k].bits <= sent'
  <2>1. ASSUME NEW k \in 1 .. n
        PROVE  Typed(U[k]) /\ U[k].out <= Len(archive') /\ U[k].bits <= sent'
    BY <1>2 DEF Trail, Typed
  <2>2. Typed(U[n + 1]) /\ U[n + 1].out <= Len(archive') /\ U[n + 1].bits <= sent'
    BY <1>2
  <2>3. QED BY <1>1, <2>1, <2>2
<1>6. Start(U[1])
  <2>1. 1 \in 1 .. n  BY <1>1
  <2>2. QED BY <1>2, <2>1 DEF Trail
<1>7. Trail(U, n + 1)'
  BY <1>1, <1>4, <1>5, <1>6 DEF Trail, Typed, Start
<1>8. Nested(U, n + 1)'
  <2>1. SUFFICES ASSUME NEW f, Continues(f)', WordAt(f, Len(archive')) \in x1' .. x2',
                        NEW k \in 1 .. n + 1
                 PROVE  WordAt(f, U[k].out) \in U[k].low .. U[k].high
    BY DEF Nested, WordAt, Open
  <2>2. CASE k = n + 1  BY <1>2, <2>1, <2>2 DEF Stands
  <2>3. CASE k # n + 1
    <3>1. k \in 1 .. n  BY <1>1, <2>3
    <3>2. WordAt(f, T[k].out) \in T[k].low .. T[k].high  BY <2>1, <3>1 DEF Nested
    <3>3. QED BY <1>2, <3>1, <3>2
  <2>4. QED BY <2>2, <2>3
<1>9. QED BY <1>1, <1>2, <1>7, <1>8 DEF Compressing, Stands

LEMMA InitLInv == Init => LInv
<1>1. SUFFICES ASSUME Init PROVE LInv  OBVIOUS
<1> DEFINE t == [low |-> x1, high |-> x2, out |-> 0, bits |-> 0, pd |-> pd, pr |-> e_pr]
           T == [i \in 1 .. 1 |-> t]
<1>2. T[1] = t /\ Start(t) /\ Typed(t) /\ Stands(t)
  BY <1>1, WordFacts DEF Init, Start, Typed, Stands, WordValue
<1>3. Len(archive) = 0 /\ sent = 0 /\ archive = <<>>  BY <1>1 DEF Init
<1>4. t.out = 0 /\ t.bits = 0 /\ t.low = x1 /\ t.high = x2  OBVIOUS
<1> HIDE DEF t, T
<1>5. Trail(T, 1)  BY <1>2, <1>3, <1>4 DEF Trail
<1>6. Nested(T, 1)  BY <1>2, <1>3, <1>4 DEF Nested
<1>7. Compressing  BY <1>2, <1>3, <1>4, <1>5, <1>6 DEF Compressing
<1>8. 0 <= Bits
  <2>1. ByteBits \in Nat /\ Len(file) \in Nat
    BY <1>1, SizeAssumption, WidthAssumption DEF Init
  <2>2. QED BY <2>1, MulMono DEF Bits
<1>9. \E S : seen \in Seq(S) /\ Len(seen) = sent
  <2>1. seen = <<>> /\ <<>> \in Seq({})  BY <1>1 DEF Init
  <2>2. QED BY <1>3, <2>1
<1>10. Lossless  BY <1>1 DEF Init, Lossless
<1>11. QED BY <1>1, <1>3, <1>7, <1>8, <1>9, <1>10 DEF Init, LInv

(* The bytes that have been written are bytes. *)
LEMMA TopByte == ASSUME NEW w \in WordValue PROVE w \div Top \in Byte
<1>1. Top \in Nat \ {0} /\ ByteBase \in Nat /\ w \in Nat /\ w < ByteBase * Top
  BY WidthFacts, WordFacts DEF WordValue
<1> DEFINE q == w \div Top
<1>2. q \in Nat /\ w % Top \in Nat /\ w = q * Top + (w % Top)
  BY <1>1, SplitTop
<1> HIDE DEF q
<1>3. q < ByteBase
  <2>1. SUFFICES ASSUME ByteBase <= q PROVE FALSE  BY <1>1, <1>2
  <2>2. ByteBase * Top <= q * Top /\ q * Top \in Nat /\ ByteBase * Top \in Nat
    BY <1>1, <1>2, <2>1, MulMono
  <2>3. QED BY <1>1, <1>2, <2>2
<1>4. QED BY <1>1, <1>2, <1>3 DEF q, Byte

LEMMA EncodeTrail ==
  ASSUME LInv, IInv, IInv', Encode
  PROVE  Compressing' /\ \E S : seen' \in Seq(S) /\ Len(seen') = sent'
<1>1. /\ phase = "compress" /\ Normalised /\ sent < Bits /\ sent' = sent + 1
      /\ Narrow(BitAt(sent + 1), e_pr) /\ pd' = Update(pd, BitAt(sent + 1))
      /\ pr' = Append(pr, e_pr') /\ seen' = Append(seen, Seen(pd'))
      /\ archive' = archive /\ file' = file
  BY DEF Encode, Predict
<1>2. PICK n, T : /\ Trail(T, n) /\ Nested(T, n)
                  /\ Stands(T[n]) /\ T[n].out = Len(archive) /\ T[n].bits = sent
  BY <1>1 DEF LInv, Compressing
<1>3. PICK S : seen \in Seq(S) /\ Len(seen) = sent  BY DEF LInv
<1>4. sent \in Nat /\ Len(archive) \in Nat  BY DEF LInv
<1>5. /\ seen' \in Seq(S \cup {Seen(pd')}) /\ Len(seen') = sent'
      /\ seen'[sent'] = Seen(pd')
      /\ \A i \in 1 .. sent : seen'[i] = seen[i]
  <2>1. seen \in Seq(S \cup {Seen(pd')})  BY <1>3
  <2>2. QED BY <1>1, <1>3, <1>4, <2>1
<1>6. pr'[sent'] = e_pr' /\ \A i \in 1 .. sent : pr'[i] = pr[i]
  BY <1>1, <1>4 DEF IInv
<1>t. PICK t : t = [low |-> x1', high |-> x2', out |-> Len(archive'), bits |-> sent',
                    pd |-> pd', pr |-> e_pr']
  OBVIOUS
<1>7. Typed(t)  BY <1>t, <1>1, <1>4 DEF Typed, IInv
<1>8. CodesBit(T[n], t)'
  <2>1. BitAt(t.bits)' = BitAt(sent + 1)  BY <1>t, <1>1 DEF BitAt
  <2>2. ~SameTop(T[n].low, T[n].high)  BY <1>1, <1>2 DEF Normalised, Stands
  <2>3. IF BitAt(sent + 1) = 1 THEN x1' = x1 /\ x2' = Mid(x1, x2, e_pr)
                               ELSE x1' = Mid(x1, x2, e_pr) + 1 /\ x2' = x2
    BY <1>1 DEF Narrow
  <2>4. t.bits = sent' /\ t.pd = pd' /\ t.pr = e_pr' /\ t.low = x1' /\ t.high = x2'
        /\ t.out = T[n].out
    BY <1>t, <1>1, <1>2
  <2>5. T[n].low = x1 /\ T[n].high = x2 /\ T[n].pd = pd /\ T[n].pr = e_pr
        /\ T[n].bits = sent /\ sent < sent'
    BY <1>1, <1>2, <1>4 DEF Stands
  <2>6. IF BitAt(t.bits)' = 1
          THEN t.low = T[n].low /\ t.high = Mid(T[n].low, T[n].high, T[n].pr)
          ELSE t.low = Mid(T[n].low, T[n].high, T[n].pr) + 1 /\ t.high = T[n].high
    BY <2>1, <2>3, <2>4, <2>5
  <2>7. t.pd = Update(T[n].pd, BitAt(t.bits)')  BY <1>1, <2>1, <2>4, <2>5
  <2>8. seen'[t.bits] = Seen(t.pd) /\ pr'[t.bits] = t.pr /\ t.bits = T[n].bits + 1
    BY <1>1, <1>5, <1>6, <2>4, <2>5
  <2>9. QED BY <2>2, <2>4, <2>5, <2>6, <2>7, <2>8 DEF CodesBit
<1>9. x1' >= x1 /\ x2' <= x2
  <2>1. x1 < x2  BY <1>1, DifferentTop DEF IInv, Normalised
  <2>2. Mid(x1, x2, e_pr) \in x1 .. x2 - 1  BY <2>1, MidInside DEF IInv
  <2>3. QED BY <1>1, <2>2, WordFacts DEF Narrow, IInv, WordValue
<1>10. ASSUME NEW f, Continues(f)', WordAt(f, Len(archive')) \in x1' .. x2'
       PROVE  Continues(f) /\ WordAt(f, Len(archive)) \in x1 .. x2
  <2>1. Continues(f)  BY <1>1, <1>10 DEF Continues
  <2>2. x1 \in Int /\ x2 \in Int /\ x1' \in Int /\ x2' \in Int
    BY WordFacts DEF IInv, WordValue
  <2>3. QED BY <1>1, <1>9, <1>10, <2>1, <2>2
<1>11. Stands(t)'  BY <1>t DEF Stands
<1>12. Compressing'
  <2>1. /\ t.out = Len(archive') /\ t.bits = sent' /\ sent' \in Nat /\ sent <= sent'
        /\ Len(archive') \in Nat /\ Len(archive) <= Len(archive')
    BY <1>t, <1>1, <1>4
  <2>2. QED BY <1>1, <1>2, <1>4, <1>5, <1>6, <1>7, <1>8, <1>10, <1>11, <2>1, TrailGrows
<1>13. QED BY <1>5, <1>12

LEMMA EncodeShiftTrail ==
  ASSUME LInv, IInv, IInv', EncodeShift
  PROVE  Compressing' /\ archive' \in Seq(Byte)
<1>1. /\ phase = "compress" /\ ~Normalised /\ sent' = sent
      /\ archive' = Append(archive, x2 \div Top)
      /\ x1' = ShiftIn(x1, 0) /\ x2' = ShiftIn(x2, ByteBase - 1)
      /\ pd' = pd /\ e_pr' = e_pr /\ pr' = pr /\ seen' = seen /\ file' = file
  BY DEF EncodeShift
<1>2. PICK n, T : /\ Trail(T, n) /\ Nested(T, n)
                  /\ Stands(T[n]) /\ T[n].out = Len(archive) /\ T[n].bits = sent
  BY <1>1 DEF LInv, Compressing
<1>3. sent \in Nat /\ Len(archive) \in Nat /\ archive \in Seq(Byte)  BY DEF LInv
<1>4. x2 \div Top \in Byte  BY TopByte DEF IInv
<1>5. /\ archive' \in Seq(Byte) /\ Len(archive') = Len(archive) + 1
      /\ archive'[Len(archive) + 1] = x2 \div Top
      /\ \A i \in 1 .. Len(archive) : archive'[i] = archive[i]
  BY <1>1, <1>3, <1>4
<1>t. PICK t : t = [low |-> x1', high |-> x2', out |-> Len(archive'), bits |-> sent',
                    pd |-> pd', pr |-> e_pr']
  OBVIOUS
<1>6. Typed(t)  BY <1>t, <1>1, <1>3, <1>5 DEF Typed, IInv
<1>7. ShiftsByte(T[n], t)'  BY <1>t, <1>1, <1>2, <1>5 DEF ShiftsByte, Stands, Normalised
<1>8. ASSUME NEW f, Continues(f)', WordAt(f, Len(archive')) \in x1' .. x2'
      PROVE  Continues(f) /\ WordAt(f, Len(archive)) \in x1 .. x2
  <2> DEFINE w == WordAt(f, Len(archive))
             b == f[Len(archive) + 5]
  <2>1. f \in Digits /\ \A i \in 1 .. Len(archive) + 1 : f[i] = archive'[i]
    BY <1>5, <1>8 DEF Continues
  <2>2. Continues(f) /\ f[Len(archive) + 1] = x2 \div Top
    BY <1>3, <1>5, <2>1 DEF Continues
  <2>3. w \in WordValue /\ w \div Top = x2 \div Top /\ b \in Byte
        /\ WordAt(f, Len(archive')) = ShiftIn(w, b)
    <3>1. Len(archive) + 5 \in Nat \ {0}  BY <1>3
    <3>2. QED BY <1>3, <1>5, <2>1, <2>2, <3>1, WordMoves DEF Digits
  <2>4. ShiftIn(w, b) \in ShiftIn(x1, 0) .. ShiftIn(x2, ByteBase - 1)
    BY <1>1, <1>8, <2>3
  <2> HIDE DEF w, b
  <2>5. w \in x1 .. x2
    BY <1>1, <2>3, <2>4, ShiftedInside DEF IInv, Normalised
  <2>6. QED BY <2>2, <2>5 DEF w
<1>9. Stands(t)'  BY <1>t DEF Stands
<1>10. Compressing'
  <2>1. /\ t.out = Len(archive') /\ t.bits = sent' /\ sent' \in Nat /\ sent <= sent'
        /\ Len(archive') \in Nat /\ Len(archive) <= Len(archive')
    BY <1>t, <1>1, <1>3, <1>5
  <2>2. QED BY <1>1, <1>2, <1>3, <1>6, <1>7, <1>8, <1>9, <2>1, TrailGrows
<1>11. QED BY <1>5, <1>10

(* The end of the archive is read as bytes of ones. *)
LEMMA ReadDigits == archive \in Seq(Byte) => Read \in Digits /\ Continues(Read)
<1>1. SUFFICES ASSUME archive \in Seq(Byte) PROVE Read \in Digits /\ Continues(Read)
  OBVIOUS
<1>2. ASSUME NEW i \in Nat \ {0} PROVE Getc(i) \in Byte
  BY <1>1, WidthFacts DEF Getc, Byte
<1>3. Read \in Digits  BY <1>2 DEF Read, Digits
<1>4. ASSUME NEW i \in 1 .. Len(archive) PROVE Read[i] = archive[i]
  BY <1>1 DEF Read, Getc
<1>5. QED BY <1>3, <1>4 DEF Continues

LEMMA FlushTrail ==
  ASSUME LInv, IInv, Flush
  PROVE  Decompressing' /\ archive' \in Seq(Byte)
<1>1. /\ phase = "compress" /\ Normalised /\ sent = Bits /\ sent' = sent
      /\ archive' = Append(archive, x1 \div Top)
      /\ x1' = 0 /\ x2' = MaxWord /\ next' = Window + 1
      /\ pd' = NewPredictor /\ e_pr' = Scale \div 2
      /\ pr' = pr /\ seen' = seen /\ file' = file /\ got' = got
      /\ x' = Open([i \in 1 .. Window |-> Getc(i)'])
  BY DEF Flush
<1>2. PICK n, T : /\ Trail(T, n) /\ Nested(T, n)
                  /\ Stands(T[n]) /\ T[n].out = Len(archive) /\ T[n].bits = sent
  BY <1>1 DEF LInv, Compressing
<1>3. sent \in Nat /\ Len(archive) \in Nat /\ archive \in Seq(Byte) /\ got = <<>>
  BY <1>1 DEF LInv
<1>4. x1 \div Top \in Byte  BY TopByte DEF IInv
<1>5. /\ archive' \in Seq(Byte) /\ Len(archive') = Len(archive) + 1
      /\ archive'[Len(archive) + 1] = x1 \div Top
      /\ \A i \in 1 .. Len(archive) : archive'[i] = archive[i]
  BY <1>1, <1>3, <1>4
<1>6. PICK f : f = Read'  OBVIOUS
<1>7. f \in Digits /\ \A i \in 1 .. Len(archive') : f[i] = archive'[i]
  <2>1. (archive \in Seq(Byte) => Read \in Digits /\ Continues(Read))'
    BY ReadDigits, PTL
  <2>2. (Read \in Digits /\ Continues(Read))'  BY <1>5, <2>1 DEF Byte
  <2>3. QED BY <1>6, <2>2 DEF Continues, Digits, Byte
<1>8. Continues(f)  BY <1>3, <1>5, <1>7 DEF Continues
<1>9. \A i \in Nat \ {0} : f[i] = Getc(i)'  BY <1>6 DEF Read
<1>10. WordAt(f, Len(archive)) \in x1 .. x2
  <2> DEFINE m == Len(archive)
  <2>1. m \in Nat /\ m + 1 \in Nat \ {0} /\ m + 2 \in Nat \ {0} /\ m + 3 \in Nat \ {0}
        /\ m + 4 \in Nat \ {0}
    BY <1>3
  <2>2. f[m + 1] = x1 \div Top  BY <1>3, <1>5, <1>7
  <2>3. f[m + 2] = ByteBase - 1 /\ f[m + 3] = ByteBase - 1 /\ f[m + 4] = ByteBase - 1
    BY <1>5, <1>9, <2>1 DEF Getc
  <2>4. WordAt(f, m) = f[m + 1] * Top
                         + ((f[m + 2] * ByteBase + f[m + 3]) * ByteBase + f[m + 4])
    BY <1>7, <2>1, WordMoves
  <2>5. ((ByteBase - 1) * ByteBase + (ByteBase - 1)) * ByteBase + (ByteBase - 1) = Top - 1
    <3> DEFINE B == ByteBase
               C == ByteBase * ByteBase
    <3>1. B \in Nat /\ C \in Nat /\ Top = B * C /\ C = B * B  BY WidthFacts
    <3> HIDE DEF B, C
    <3>2. (B - 1) * B = C - B  BY <3>1
    <3>3. (C - 1) * B = Top - B  BY <3>1
    <3>4. Top \in Nat  BY WidthFacts
    <3>5. ((B - 1) * B + (B - 1)) * B + (B - 1) = Top - 1
      <4>1. (B - 1) * B + (B - 1) = C - 1  BY <3>1, <3>2
      <4>2. QED BY <3>1, <3>3, <3>4, <4>1
    <3>6. QED BY <3>5 DEF B
  <2>6. WordAt(f, m) = (x1 \div Top) * Top + (Top - 1)  BY <2>2, <2>3, <2>4, <2>5
  <2>7. QED BY <1>1, <2>6, FlushedInside DEF IInv, Normalised
<1>11. \A k \in 1 .. n : WordAt(f, T[k].out) \in T[k].low .. T[k].high
  BY <1>2, <1>8, <1>10 DEF Nested
<1>12. Trail(T, n)'
  <2>1. \A k \in 1 .. n - 1 : (CodesBit(T[k], T[k + 1]) \/ ShiftsByte(T[k], T[k + 1]))'
    BY <1>1, <1>2 DEF Trail, CodesBit, ShiftsByte, BitAt
  <2>2. \A k \in 1 .. n : Typed(T[k]) /\ T[k].out <= Len(archive') /\ T[k].bits <= sent'
    BY <1>1, <1>2, <1>3, <1>5 DEF Trail, Typed
  <2>3. QED BY <1>2, <2>1, <2>2 DEF Trail, Typed, Start
<1>13. T[n].bits = sent' /\ ~SameTop(T[n].low, T[n].high)
  BY <1>1, <1>2 DEF Stands, Normalised
<1>14. 1 \in 1 .. n /\ Start(T[1])  BY <1>2 DEF Trail
<1>15. Stands(T[1])' /\ Len(got') = T[1].bits /\ next' = Window + 1 + T[1].out
  BY <1>1, <1>3, <1>14 DEF Stands, Start, Window
<1>16. x' = WordAt(f, T[1].out)
  <2>1. \A i \in 1 .. Window : f[0 + i] = Getc(i)'  BY <1>9 DEF Window
  <2>2. [i \in 1 .. Window |-> f[0 + i]] = [i \in 1 .. Window |-> Getc(i)']  BY <2>1
  <2>3. T[1].out = 0  BY <1>14 DEF Start
  <2>4. QED BY <1>1, <2>2, <2>3 DEF WordAt
<1>17. /\ \A k \in 1 .. n : WordAt(Read', T[k].out) \in T[k].low .. T[k].high
       /\ x' = WordAt(Read', T[1].out)
  BY <1>6, <1>11, <1>16
<1>18. Decompressing'
  BY <1>12, <1>13, <1>14, <1>15, <1>17 DEF Decompressing, WordAt, Open
<1>19. QED BY <1>5, <1>18

(* The decompressor comes to the next state of the trail, by a bit ...     *)
LEMMA DecodeTrail ==
  ASSUME LInv, IInv, Decode
  PROVE  Decompressing' /\ Lossless'
<1>1. /\ phase = "decompress" /\ phase' = phase /\ Normalised /\ Len(got) < Bits
      /\ x' = x /\ archive' = archive /\ next' = next /\ sent' = sent /\ pr' = pr
      /\ seen' = seen /\ file' = file
  BY DEF Decode
<1> DEFINE y == IF x <= Mid(x1, x2, e_pr) THEN 1 ELSE 0
<1>2. got' = Append(got, y) /\ Narrow(y, e_pr) /\ Repredict(y)  BY DEF Decode
<1>3. PICK n, T :
        /\ Trail(T, n) /\ T[n].bits = sent /\ ~SameTop(T[n].low, T[n].high)
        /\ \A k \in 1 .. n : WordAt(Read, T[k].out) \in T[k].low .. T[k].high
        /\ \E k \in 1 .. n : /\ Stands(T[k]) /\ Len(got) = T[k].bits
                             /\ next = Window + 1 + T[k].out
                             /\ x = WordAt(Read, T[k].out)
  BY <1>1 DEF LInv, Decompressing
<1>4. PICK k \in 1 .. n : /\ Stands(T[k]) /\ Len(got) = T[k].bits
                          /\ next = Window + 1 + T[k].out
                          /\ x = WordAt(Read, T[k].out)
  BY <1>3
<1>5. sent = Bits /\ got \in Seq({0, 1}) /\ Len(got) \in Nat /\ sent \in Nat
  BY <1>1 DEF IInv, LInv
<1>6. n \in Nat \ {0} /\ k # n  BY <1>1, <1>3, <1>4, <1>5 DEF Trail
<1>7. k \in 1 .. n - 1 /\ k + 1 \in 1 .. n  BY <1>6
<1> DEFINE s == T[k]
           t == T[k + 1]
           bit == BitAt(Len(got) + 1)
<1>8. CodesBit(s, t)
  BY <1>1, <1>3, <1>4, <1>7 DEF Trail, ShiftsByte, Stands, Normalised
<1>9. /\ t.bits = Len(got) + 1 /\ t.out = s.out
      /\ IF bit = 1 THEN t.low = x1 /\ t.high = Mid(x1, x2, e_pr)
                    ELSE t.low = Mid(x1, x2, e_pr) + 1 /\ t.high = x2
      /\ t.pd = Update(pd, bit)
      /\ seen[Len(got) + 1] = Seen(t.pd) /\ pr[Len(got) + 1] = t.pr
  BY <1>4, <1>8 DEF CodesBit, Stands
<1>10. bit \in {0, 1}
  <2>1. Len(got) + 1 \in 1 .. Bits /\ file \in Files  BY <1>1, <1>5 DEF LInv
  <2>2. QED BY <2>1, BitIsBit
<1> HIDE DEF s, bit, y
<1>11. x \in t.low .. t.high /\ t.low \in Int /\ t.high \in Int
  BY <1>3, <1>4, <1>7, <1>9, WordFacts DEF Trail, Typed, WordValue, s
<1>12. Mid(x1, x2, e_pr) \in Int
  <2>1. x1 < x2  BY <1>1, DifferentTop DEF IInv, Normalised
  <2>2. Mid(x1, x2, e_pr) \in x1 .. x2 - 1  BY <2>1, MidInside DEF IInv
  <2>3. QED BY <2>2
<1>13. y = bit
  <2>1. CASE bit = 1  BY <1>9, <1>11, <2>1 DEF y
  <2>2. CASE bit = 0
    <3>1. x >= Mid(x1, x2, e_pr) + 1  BY <1>9, <1>11, <2>2
    <3>2. x \in Int  BY <1>11
    <3>3. ~(x <= Mid(x1, x2, e_pr))  BY <1>12, <3>1, <3>2
    <3>4. QED BY <2>2, <3>3 DEF y
  <2>3. QED BY <1>10, <2>1, <2>2
<1>14. x1' = t.low /\ x2' = t.high  BY <1>2, <1>9, <1>10, <1>13 DEF Narrow
<1>15. pd' = t.pd /\ e_pr' = t.pr  BY <1>2, <1>9, <1>13 DEF Repredict
<1>16. Len(got') = t.bits /\ got'[Len(got) + 1] = bit
       /\ \A i \in 1 .. Len(got) : got'[i] = got[i]
  BY <1>2, <1>5, <1>9, <1>10, <1>13
<1>17. Lossless'
  <2>1. \A i : BitAt(i)' = BitAt(i)  BY <1>1 DEF BitAt
  <2>2. \A i \in 1 .. Len(got) : got[i] = BitAt(i)  BY DEF LInv, Lossless
  <2>3. ASSUME NEW i \in 1 .. Len(got') PROVE got'[i] = BitAt(i)'
    <3>1. CASE i = Len(got) + 1  BY <1>16, <2>1, <3>1 DEF bit
    <3>2. CASE i # Len(got) + 1
      <4>1. i \in 1 .. Len(got)  BY <1>5, <1>9, <1>16, <3>2
      <4>2. QED BY <1>16, <2>1, <2>2, <4>1
    <3>3. QED BY <3>1, <3>2
  <2>4. phase' # "done"  BY <1>1
  <2>5. QED BY <2>3, <2>4 DEF Lossless
<1>18. Trail(T, n)'
  BY <1>1, <1>3 DEF Trail, CodesBit, ShiftsByte, BitAt, Typed, Start
<1>19. Read' = Read  BY <1>1 DEF Read, Getc
<1>20. Stands(t)' /\ next' = Window + 1 + t.out /\ x' = WordAt(Read, t.out)
  BY <1>1, <1>4, <1>9, <1>14, <1>15 DEF Stands, s
<1>21. /\ T[n].bits = sent' /\ ~SameTop(T[n].low, T[n].high)
       /\ \A j \in 1 .. n : WordAt(Read, T[j].out)' \in T[j].low .. T[j].high
       /\ x' = WordAt(Read, t.out)'
  BY <1>1, <1>3, <1>19, <1>20 DEF WordAt, Open
<1>22. Decompressing'
  BY <1>7, <1>16, <1>18, <1>20, <1>21 DEF Decompressing
<1>23. QED BY <1>17, <1>22

(* ... or by a byte.                                                       *)
LEMMA DecodeShiftTrail ==
  ASSUME LInv, IInv, DecodeShift
  PROVE  Decompressing'
<1>1. /\ phase = "decompress" /\ ~Normalised
      /\ x1' = ShiftIn(x1, 0) /\ x2' = ShiftIn(x2, ByteBase - 1)
      /\ x' = ShiftIn(x, Getc(next)) /\ next' = next + 1
      /\ archive' = archive /\ sent' = sent /\ pr' = pr /\ pd' = pd /\ e_pr' = e_pr
      /\ seen' = seen /\ file' = file /\ got' = got
  BY DEF DecodeShift
<1>2. PICK n, T :
        /\ Trail(T, n) /\ T[n].bits = sent /\ ~SameTop(T[n].low, T[n].high)
        /\ \A k \in 1 .. n : WordAt(Read, T[k].out) \in T[k].low .. T[k].high
        /\ \E k \in 1 .. n : /\ Stands(T[k]) /\ Len(got) = T[k].bits
                             /\ next = Window + 1 + T[k].out
                             /\ x = WordAt(Read, T[k].out)
  BY <1>1 DEF LInv, Decompressing
<1>3. PICK k \in 1 .. n : /\ Stands(T[k]) /\ Len(got) = T[k].bits
                          /\ next = Window + 1 + T[k].out
                          /\ x = WordAt(Read, T[k].out)
  BY <1>2
<1>4. n \in Nat \ {0} /\ k # n
  BY <1>1, <1>2, <1>3 DEF Trail, Stands, Normalised
<1>5. k \in 1 .. n - 1 /\ k + 1 \in 1 .. n  BY <1>4
<1> DEFINE s == T[k]
           t == T[k + 1]
<1>6. ShiftsByte(s, t)
  BY <1>1, <1>2, <1>3, <1>5 DEF Trail, CodesBit, Stands, Normalised
<1>7. Stands(t)' /\ t.out = s.out + 1 /\ t.bits = Len(got)
  BY <1>1, <1>3, <1>6 DEF ShiftsByte, Stands
<1>8. s.out \in Nat  BY <1>2 DEF Trail, Typed
<1>9. next' = Window + 1 + t.out  BY <1>1, <1>3, <1>7, <1>8 DEF Window
<1>10. x' = WordAt(Read, t.out)
  <2>1. Read \in Digits  BY ReadDigits DEF LInv
  <2>2. WordAt(Read, s.out + 1) = ShiftIn(WordAt(Read, s.out), Read[s.out + 5])
    BY <1>8, <2>1, WordMoves
  <2>3. next = s.out + 5 /\ s.out + 5 \in Nat \ {0}  BY <1>3, <1>8 DEF Window
  <2>4. Read[s.out + 5] = Getc(next)  BY <2>3 DEF Read
  <2>5. QED BY <1>1, <1>3, <1>7, <2>2, <2>4
<1> HIDE DEF s
<1>11. Trail(T, n)'
  BY <1>1, <1>2 DEF Trail, CodesBit, ShiftsByte, BitAt, Typed, Start
<1>12. Read' = Read  BY <1>1 DEF Read, Getc
<1>13. /\ T[n].bits = sent' /\ ~SameTop(T[n].low, T[n].high)
       /\ \A j \in 1 .. n : WordAt(Read, T[j].out)' \in T[j].low .. T[j].high
       /\ x' = WordAt(Read, t.out)' /\ Len(got') = t.bits
  BY <1>1, <1>2, <1>7, <1>10, <1>12 DEF WordAt, Open
<1>14. QED BY <1>5, <1>7, <1>9, <1>11, <1>13 DEF Decompressing

LEMMA NextLInv == IInv /\ IInv' /\ LInv /\ [Next]_vars => LInv'
<1>1. SUFFICES ASSUME IInv, IInv', LInv, [Next]_vars PROVE LInv'  OBVIOUS
<1>2. file' = file => Bits' = Bits /\ \A i : BitAt(i)' = BitAt(i)
  BY DEF Bits, BitAt
<1>3. CASE Encode
  <2>1. Compressing' /\ \E S : seen' \in Seq(S) /\ Len(seen') = sent'
    BY <1>1, <1>3, EncodeTrail
  <2>2. /\ file' = file /\ archive' = archive /\ sent' = sent + 1 /\ sent < Bits
        /\ phase = "compress" /\ phase' = "compress" /\ got' = got
    BY <1>3 DEF Encode
  <2>3. sent' \in Nat /\ sent' <= Bits
    <3>1. ByteBits \in Nat /\ Len(file) \in Nat
      BY <1>1, SizeAssumption, WidthAssumption DEF LInv
    <3>2. sent \in Nat /\ Bits \in Nat  BY <1>1, <3>1, MulMono DEF LInv, Bits
    <3>3. QED BY <1>2, <2>2, <3>2
  <2>4. got' = <<>>  BY <1>1, <2>2 DEF LInv
  <2>5. Lossless'  BY <2>2, <2>4 DEF Lossless
  <2>6. QED BY <1>1, <1>2, <2>1, <2>2, <2>3, <2>4, <2>5 DEF LInv
<1>4. CASE EncodeShift
  <2>1. Compressing' /\ archive' \in Seq(Byte)  BY <1>1, <1>4, EncodeShiftTrail
  <2>2. /\ file' = file /\ sent' = sent /\ seen' = seen
        /\ phase = "compress" /\ phase' = "compress" /\ got' = got
    BY <1>4 DEF EncodeShift
  <2>3. got' = <<>>  BY <1>1, <2>2 DEF LInv
  <2>4. Lossless'  BY <2>2, <2>3 DEF Lossless
  <2>5. QED BY <1>1, <1>2, <2>1, <2>2, <2>3, <2>4 DEF LInv, Byte
<1>5. CASE Flush
  <2>1. Decompressing' /\ archive' \in Seq(Byte)  BY <1>1, <1>5, FlushTrail
  <2>2. /\ file' = file /\ sent' = sent /\ seen' = seen
        /\ phase = "compress" /\ phase' = "decompress" /\ got' = got
    BY <1>5 DEF Flush
  <2>3. got' = <<>>  BY <1>1, <2>2 DEF LInv
  <2>4. Lossless'  BY <2>2, <2>3 DEF Lossless
  <2>5. QED BY <1>1, <1>2, <2>1, <2>2, <2>4 DEF LInv, Byte
<1>6. CASE Decode
  <2>1. Decompressing' /\ Lossless'  BY <1>1, <1>6, DecodeTrail
  <2>2. /\ file' = file /\ archive' = archive /\ sent' = sent /\ seen' = seen
        /\ phase' = "decompress"
    BY <1>6 DEF Decode
  <2>3. QED BY <1>1, <1>2, <2>1, <2>2 DEF LInv, Byte
<1>7. CASE DecodeShift
  <2>1. Decompressing'  BY <1>1, <1>7, DecodeShiftTrail
  <2>2. /\ file' = file /\ archive' = archive /\ sent' = sent /\ seen' = seen
        /\ phase' = "decompress" /\ got' = got
    BY <1>7 DEF DecodeShift
  <2>3. Lossless'  BY <1>1, <1>2, <2>2 DEF LInv, Lossless
  <2>4. QED BY <1>1, <1>2, <2>1, <2>2, <2>3 DEF LInv, Byte
<1>8. CASE Finish
  <2>1. /\ file' = file /\ archive' = archive /\ sent' = sent /\ seen' = seen
        /\ phase' = "done" /\ got' = got /\ Len(got) = Bits
    BY <1>8 DEF Finish
  <2>2. Lossless'  BY <1>1, <1>2, <2>1 DEF LInv, Lossless
  <2>3. QED BY <1>1, <1>2, <2>1, <2>2 DEF LInv, Byte
<1>9. CASE UNCHANGED vars
  <2>1. Lossless'  BY <1>1, <1>9 DEF vars, LInv, Lossless, Bits, BitAt
  <2>2. \A n, T : Trail(T, n)' = Trail(T, n)
    BY <1>9 DEF vars, Trail, Start, Typed, CodesBit, ShiftsByte, BitAt
  <2>3. \A n, T : Nested(T, n)' = Nested(T, n)
    BY <1>9 DEF vars, Nested, Continues, WordAt, Open
  <2>4. \A s : Stands(s)' = Stands(s)  BY <1>9 DEF vars, Stands
  <2>5. Read' = Read  BY <1>9 DEF vars, Read, Getc
  <2>6. Compressing' = Compressing
    BY <1>9, <2>2, <2>3, <2>4 DEF vars, Compressing
  <2>7. Decompressing' = Decompressing
    BY <1>9, <2>2, <2>4, <2>5 DEF vars, Decompressing, WordAt, Open
  <2>8. QED BY <1>1, <1>2, <1>9, <2>1, <2>6, <2>7 DEF vars, LInv, Byte
<1>10. QED
  BY <1>1, <1>3, <1>4, <1>5, <1>6, <1>7, <1>8, <1>9 DEF Next

(* The file that is decompressed is the file that was compressed: what the *)
(* model predicts does not matter, as long as it predicts the same of the  *)
(* same contexts, and one byte is enough for flush to write.               *)
THEOREM AlwaysLossless == Spec => []Lossless
<1>1. LInv => Lossless  BY DEF LInv
<1>2. QED BY InitIInv, NextIInv, InitLInv, NextLInv, <1>1, PTL DEF Spec

-----------------------------------------------------------------------------
(* The hash table.  t() keeps it a table, replaces no slot that is better  *)
(* than one it looked at, and finds again what it made.                    *)
Slot == 0 .. Slots - 1
SlotValue == [chk : Octet, state : [1 .. SlotSize - 1 -> Octet]]
Table == [Slot -> SlotValue]

LEMMA SizeFacts ==
  /\ Nibble \in Nat \ {0} /\ ByteBits \in Nat \ {0} /\ ByteBits = 2 * Nibble
  /\ Slots \in Nat \ {0} /\ Slots % 4 = 0
  /\ Octets \in Nat /\ Octets >= 2 /\ Octet = 0 .. Octets - 1 /\ 0 \in Octet
  /\ SlotSize \in Nat /\ SlotSize >= 2
  /\ RingSize \in Nat \ {0} /\ HashSize \in Nat \ {0} /\ MAXLEN \in Nat /\ MAXLEN >= 2
<1>1. ASSUME NEW k \in Nat \ {0} PROVE 2 ^ k \in Nat /\ 2 ^ k >= 2
  <2>1. k - 1 \in Nat /\ (k - 1) + 1 = k  OBVIOUS
  <2>2. 2 ^ (k - 1) \in Nat \ {0} /\ 2 ^ ((k - 1) + 1) = 2 * 2 ^ (k - 1)  BY <2>1, PowerOfTwo
  <2>3. QED BY <2>1, <2>2
<1>2. Nibble \in Nat \ {0} /\ ByteBits \in Nat \ {0}  BY SizeAssumption
<1>3. 2 ^ Nibble \in Nat /\ 2 ^ Nibble >= 2 /\ 2 ^ ByteBits \in Nat /\ 2 ^ ByteBits >= 2
  BY <1>1, <1>2
<1>4. QED BY <1>2, <1>3, SizeAssumption DEF Octets, Octet, SlotSize

(* The slots of a group. *)
LEMMA FlipFacts ==
  ASSUME NEW s \in Slot
  PROVE  /\ \A d \in 0 .. 3 : Flip(s, d) \in Slot
         /\ Flip(s, 0) = s
         /\ Flip(Flip(s, 1), 3) = Flip(s, 2)
<1> DEFINE q == s \div 4
           r == s % 4
<1>1. q \in Nat /\ r \in 0 .. 3 /\ s = 4 * q + r /\ s - r = 4 * q /\ 4 * q + 3 < Slots
  BY SizeFacts DEF Slot
<1>2. ASSUME NEW d \in 0 .. 3
      PROVE  /\ Flip(s, d) = 4 * q + 2 * ((r \div 2 + d \div 2) % 2) + ((r + d) % 2)
  <2>1. s \div 2 = 2 * q + r \div 2 /\ s % 4 = r  BY <1>1
  <2>2. (s + d) % 2 = (r + d) % 2
    <3>1. s + d = 2 * (2 * q) + (r + d)  BY <1>1
    <3>2. QED BY <1>1, <3>1
  <2>3. (s \div 2 + d \div 2) % 2 = (r \div 2 + d \div 2) % 2  BY <1>1, <2>1
  <2>4. QED BY <1>1, <2>1, <2>2, <2>3 DEF Flip
<1>3. ASSUME NEW d \in 0 .. 3 PROVE Flip(s, d) \in Slot
  <2> DEFINE z == (r \div 2 + d \div 2) % 2
             y == (r + d) % 2
  <2>1. z \in 0 .. 1 /\ y \in 0 .. 1  BY <1>1
  <2>2. Flip(s, d) = 4 * q + 2 * z + y  BY <1>2
  <2> HIDE DEF z, y, q
  <2>3. QED BY <1>1, <2>1, <2>2, SizeFacts DEF Slot
<1>4. Flip(s, 0) = s  BY <1>1, <1>2
<1>5. Flip(Flip(s, 1), 3) = Flip(s, 2)
  <2> DEFINE t == Flip(s, 1)
             e == 2 * ((r \div 2 + 1 \div 2) % 2) + ((r + 1) % 2)
  <2>1. t = 4 * q + e /\ e \in 0 .. 3  BY <1>1, <1>2
  <2>2. t % 4 = e /\ t - (t % 4) = 4 * q  BY <1>1, <2>1
  <2>3. t \div 2 = 2 * q + e \div 2  BY <1>1, <2>1
  <2>4. (t \div 2 + 3 \div 2) % 2 = (e \div 2 + 1) % 2 /\ (t + 3) % 2 = (e + 1) % 2
    <3>1. t + 3 = 2 * (2 * q + 1) + (e + 1)  BY <1>1, <2>1
    <3>2. QED BY <1>1, <2>1, <2>3, <3>1
  <2>5. Flip(t, 3) = 4 * q + 2 * ((e \div 2 + 1) % 2) + ((e + 1) % 2)
    BY <2>2, <2>4 DEF Flip
  <2> HIDE DEF t
  <2>6. Flip(s, 2) = 4 * q + 2 * ((r \div 2 + 1) % 2) + (r % 2)
    BY <1>1, <1>2
  <2>7. 2 * ((e \div 2 + 1) % 2) + ((e + 1) % 2) = 2 * ((r \div 2 + 1) % 2) + (r % 2)
    <3>1. CASE r = 0  BY <3>1
    <3>2. CASE r = 1  BY <3>2
    <3>3. CASE r = 2  BY <3>3
    <3>4. CASE r = 3  BY <3>4
    <3>5. QED BY <1>1, <3>1, <3>2, <3>3, <3>4
  <2> HIDE DEF e, q, r
  <2>8. Flip(t, 3) = Flip(s, 2)
    <3>1. PICK a \in Int, b \in Int, c \in Int, g \in Int :
             /\ a = 2 * ((e \div 2 + 1) % 2) /\ b = (e + 1) % 2
             /\ c = 2 * ((r \div 2 + 1) % 2) /\ g = r % 2
      <4>1. 2 * ((e \div 2 + 1) % 2) \in Int /\ (e + 1) % 2 \in Int  BY <2>1
      <4>2. 2 * ((r \div 2 + 1) % 2) \in Int /\ r % 2 \in Int  BY <1>1
      <4>3. QED BY <4>1, <4>2
    <3>2. a + b = c + g  BY <2>7, <3>1
    <3>3. Flip(t, 3) = 4 * q + a + b /\ Flip(s, 2) = 4 * q + c + g  BY <2>5, <2>6, <3>1
    <3>4. QED BY <1>1, <3>1, <3>2, <3>3
  <2>9. QED BY <2>8 DEF t
<1>6. QED BY <1>3, <1>4, <1>5

LEMMA VictimIsLow ==
  ASSUME NEW t \in Table, NEW s \in Slot
  PROVE  /\ Victim(t, s) \in Slot
         /\ \A v \in Probed(s) : Priority(t, Victim(t, s)) <= Priority(t, v)
<1> DEFINE P(v) == Priority(t, v)
           f1 == Flip(s, 1)
           f2 == Flip(s, 2)
           near == IF \E d \in {1, 2} : P(s) > P(Flip(s, d)) THEN f1 ELSE s
           far == Flip(near, 3)
<1>1. f1 \in Slot /\ f2 \in Slot /\ near \in Slot /\ far \in Slot
  BY FlipFacts
<1>2. \A v \in Slot : P(v) \in Int
  <2>1. ASSUME NEW v \in Slot PROVE t[v].state[1] \in Int
    <3>1. t[v].state \in [1 .. SlotSize - 1 -> Octet] /\ 1 \in 1 .. SlotSize - 1
      BY SizeFacts DEF Table, SlotValue
    <3>2. t[v].state[1] \in Octet  BY <3>1
    <3>3. QED BY <3>2, SizeFacts
  <2>2. QED BY <2>1 DEF Priority
<1>3. Victim(t, s) = (IF P(near) > P(far) THEN far ELSE near)  BY DEF Victim
<1>4. near = f1 => far = f2  BY FlipFacts
<1>5. (P(s) > P(f1) \/ P(s) > P(f2)) <=> \E d \in {1, 2} : P(s) > P(Flip(s, d))  OBVIOUS
<1>6. Probed(s) = {s, f1, f2}  BY DEF Probed
<1>7. P(s) \in Int /\ P(f1) \in Int /\ P(f2) \in Int /\ P(near) \in Int /\ P(far) \in Int
  BY <1>1, <1>2
<1>8. /\ P(Victim(t, s)) <= P(s) /\ P(Victim(t, s)) <= P(f1)
      /\ P(Victim(t, s)) <= P(f2)
  <2>1. CASE \E d \in {1, 2} : P(s) > P(Flip(s, d))
    <3>1. near = f1 /\ far = f2  BY <1>4, <2>1
    <3>2. Victim(t, s) = (IF P(f1) > P(f2) THEN f2 ELSE f1)  BY <1>3, <3>1
    <3> HIDE DEF P, f1, f2, near, far
    <3>3. P(s) > P(f1) \/ P(s) > P(f2)  BY <1>5, <2>1 DEF P, f1, f2
    <3>4. QED BY <1>7, <3>2, <3>3
  <2>2. CASE ~\E d \in {1, 2} : P(s) > P(Flip(s, d))
    <3>1. near = s  BY <2>2
    <3>2. Victim(t, s) = (IF P(s) > P(far) THEN far ELSE s)  BY <1>3, <3>1
    <3>3. ~(P(s) > P(f1)) /\ ~(P(s) > P(f2))  BY <2>2
    <3> HIDE DEF P, f1, f2, near, far
    <3>4. QED BY <1>7, <3>2, <3>3
  <2>3. QED BY <2>1, <2>2
<1>9. QED BY <1>1, <1>3, <1>6, <1>8

(* The first of the three that has the check byte. *)
LEMMA HolderFound ==
  ASSUME NEW t, NEW s \in Slot, NEW chk
  PROVE  LET d == CHOOSE e \in 0 .. 2 : t[Flip(s, e)].chk = chk
                        /\ \A f \in 0 .. e - 1 : t[Flip(s, f)].chk # chk
         IN  Holds(t, s, chk) # {} => /\ Flip(s, d) \in Slot /\ Flip(s, d) \in Probed(s)
                                      /\ t[Flip(s, d)].chk = chk
<1> DEFINE Is(e) == t[Flip(s, e)].chk = chk
                      /\ \A f \in 0 .. e - 1 : t[Flip(s, f)].chk # chk
           d == CHOOSE e \in 0 .. 2 : Is(e)
<1>1. SUFFICES ASSUME Holds(t, s, chk) # {}
               PROVE  /\ Flip(s, d) \in Slot /\ Flip(s, d) \in Probed(s)
                      /\ t[Flip(s, d)].chk = chk
  OBVIOUS
<1>2. Probed(s) = {Flip(s, 0), Flip(s, 1), Flip(s, 2)}  BY FlipFacts DEF Probed
<1>3. t[Flip(s, 0)].chk = chk \/ t[Flip(s, 1)].chk = chk \/ t[Flip(s, 2)].chk = chk
  BY <1>1, <1>2 DEF Holds
<1>4. \E e \in 0 .. 2 : Is(e)
  <2>1. CASE t[Flip(s, 0)].chk = chk
    <3>1. 0 .. 0 - 1 = {}  OBVIOUS
    <3>2. Is(0)  BY <2>1, <3>1
    <3>3. QED BY <3>2
  <2>2. CASE t[Flip(s, 0)].chk # chk /\ t[Flip(s, 1)].chk = chk
    <3>1. 0 .. 1 - 1 = {0}  OBVIOUS
    <3>2. Is(1)  BY <2>2, <3>1
    <3>3. QED BY <3>2
  <2>3. CASE t[Flip(s, 0)].chk # chk /\ t[Flip(s, 1)].chk # chk
    <3>1. 0 .. 2 - 1 = {0, 1}  OBVIOUS
    <3>2. Is(2)  BY <1>3, <2>3, <3>1
    <3>3. QED BY <3>2
  <2>4. QED BY <2>1, <2>2, <2>3
<1>5. d \in 0 .. 2 /\ Is(d)
  <2> HIDE DEF Is
  <2>1. QED BY <1>4
<1>6. Flip(s, d) \in Slot /\ Flip(s, d) \in Probed(s)
  <2> HIDE DEF d
  <2>1. d \in 0 .. 3  BY <1>5
  <2>2. QED BY <1>2, <1>5, <2>1, FlipFacts
<1>7. QED BY <1>5, <1>6

(* t() in terms of the slot it returns. *)
LEMMA GetIs ==
  ASSUME NEW t \in Table, NEW s \in Slot, NEW chk
  PROVE  \E v \in Slot :
           /\ Get(t, s, chk).slot = v
           /\ \/ /\ Holds(t, s, chk) # {} /\ Get(t, s, chk) = [ht |-> t, slot |-> v]
                 /\ v \in Probed(s) /\ t[v].chk = chk
              \/ /\ Holds(t, s, chk) = {} /\ v = Victim(t, s)
                 /\ Get(t, s, chk) = [ht |-> [t EXCEPT ![v] = NewSlot(chk)], slot |-> v]
<1>1. CASE Holds(t, s, chk) # {}
  <2> DEFINE d == CHOOSE e \in 0 .. 2 : t[Flip(s, e)].chk = chk
                        /\ \A f \in 0 .. e - 1 : t[Flip(s, f)].chk # chk
  <2>1. /\ Flip(s, d) \in Slot /\ Flip(s, d) \in Probed(s) /\ t[Flip(s, d)].chk = chk
    BY <1>1, HolderFound
  <2>2. Get(t, s, chk) = [ht |-> t, slot |-> Flip(s, d)]  BY <1>1 DEF Get
  <2> HIDE DEF d
  <2>3. PICK v \in Slot : v = Flip(s, d)  BY <2>1
  <2>4. QED BY <1>1, <2>1, <2>2, <2>3
<1>2. CASE Holds(t, s, chk) = {}
  <2>1. Get(t, s, chk) = [ht |-> [t EXCEPT ![Victim(t, s)] = NewSlot(chk)], slot |-> Victim(t, s)]
    BY <1>2 DEF Get
  <2>2. Victim(t, s) \in Slot  BY VictimIsLow
  <2>3. QED BY <1>2, <2>1, <2>2
<1>3. QED BY <1>1, <1>2

LEMMA NewSlotTyped == \A chk \in Octet : NewSlot(chk) \in SlotValue
BY SizeFacts DEF NewSlot, SlotValue

LEMMA GetTyped ==
  ASSUME NEW t \in Table, NEW s \in Slot, NEW chk \in Octet
  PROVE  Get(t, s, chk).ht \in Table /\ Get(t, s, chk).slot \in Slot
<1>1. PICK v \in Slot :
        /\ Get(t, s, chk).slot = v
        /\ \/ Get(t, s, chk) = [ht |-> t, slot |-> v]
           \/ Get(t, s, chk) = [ht |-> [t EXCEPT ![v] = NewSlot(chk)], slot |-> v]
  BY GetIs
<1>2. [t EXCEPT ![v] = NewSlot(chk)] \in Table  BY NewSlotTyped DEF Table
<1>3. QED BY <1>1, <1>2

-----------------------------------------------------------------------------
(* Which slots hold a context depends on the check bytes alone.            *)
LEMMA SameHolders ==
  ASSUME NEW t \in Table, NEW u, DOMAIN u = DOMAIN t, NEW s \in Slot, NEW chk,
         \A v \in Slot : u[v].chk = t[v].chk
  PROVE  Holds(u, s, chk) = Holds(t, s, chk)
<1>1. Probed(s) \in SUBSET Slot  BY FlipFacts DEF Probed
<1>2. \A v \in Probed(s) : u[v].chk = t[v].chk  BY <1>1
<1>3. QED BY <1>2 DEF Holds

(* What was learned in a slot leaves the check bytes alone. *)
LEMMA LearnedChecks ==
  ASSUME NEW t, DOMAIN t = Slot, NEW w \in Slot, NEW a, DOMAIN t[w] = {"chk", "state"},
         t = [v \in Slot |-> t[v]],
         NEW u, u = [t EXCEPT ![w].state[1] = a]
  PROVE  DOMAIN u = Slot /\ \A v \in Slot : u[v].chk = t[v].chk
<1>1. DOMAIN u = Slot  OBVIOUS
<1>2. ASSUME NEW v \in Slot PROVE u[v].chk = t[v].chk
  <2>1. CASE v = w
    <3>1. u[v] = [t[v] EXCEPT !.state[1] = a]  BY <2>1
    <3>2. QED BY <2>1, <3>1
  <2>2. CASE v # w
    <3>1. u[v] = t[v]  BY <2>2
    <3>2. QED BY <3>1
  <2>3. QED BY <2>1, <2>2
<1>3. QED BY <1>1, <1>2

(* What ReplacementSound says, of any table.                               *)
LEMMA TableReplaces ==
  ASSUME NEW t \in Table, NEW s \in Slot, NEW chk
  PROVE  LET first == Get(t, s, chk)
             learned == [first.ht EXCEPT ![first.slot].state[1] = nex(@, 0)]
             again == Get(learned, s, chk)
         IN  /\ \/ Holds(t, s, chk) # {}
                \/ \A v \in Probed(s) : Priority(t, first.slot) <= Priority(t, v)
             /\ first.slot \in Probed(s) => again = [ht |-> learned, slot |-> first.slot]
<1> DEFINE first == Get(t, s, chk)
           learned == [first.ht EXCEPT ![first.slot].state[1] = nex(@, 0)]
           again == Get(learned, s, chk)
<1>1. PICK w \in Slot :
        /\ first.slot = w
        /\ \/ /\ Holds(t, s, chk) # {} /\ first = [ht |-> t, slot |-> w]
              /\ w \in Probed(s) /\ t[w].chk = chk
           \/ /\ Holds(t, s, chk) = {} /\ w = Victim(t, s)
              /\ first = [ht |-> [t EXCEPT ![w] = NewSlot(chk)], slot |-> w]
  BY GetIs
<1>2. Holds(t, s, chk) # {} \/ \A v \in Probed(s) : Priority(t, first.slot) <= Priority(t, v)
  BY <1>1, VictimIsLow
<1>3. PICK f : f = first.ht  OBVIOUS
<1>4. /\ DOMAIN f = Slot /\ f = [v \in Slot |-> f[v]]
      /\ DOMAIN f[w] = {"chk", "state"}
  <2>1. DOMAIN t = Slot /\ t = [v \in Slot |-> t[v]] /\ t[w] \in SlotValue  BY DEF Table
  <2>2. DOMAIN t[w] = {"chk", "state"}  BY <2>1 DEF SlotValue
  <2>3. DOMAIN NewSlot(chk) = {"chk", "state"}  BY DEF NewSlot
  <2>4. f = t \/ f = [t EXCEPT ![w] = NewSlot(chk)]  BY <1>1, <1>3
  <2>5. QED BY <2>1, <2>2, <2>3, <2>4
<1>5. PICK a : a = nex(f[w].state[1], 0)  OBVIOUS
<1>6. PICK u : u = learned  OBVIOUS
<1>7. u = [f EXCEPT ![w].state[1] = a]  BY <1>1, <1>3, <1>5, <1>6
<1>8. DOMAIN u = Slot /\ \A v \in Slot : u[v].chk = f[v].chk
  BY <1>4, <1>7, LearnedChecks
<1>9. Probed(s) \in SUBSET Slot  BY FlipFacts DEF Probed
<1>10. ASSUME w \in Probed(s) PROVE Get(u, s, chk) = [ht |-> u, slot |-> w]
  <2> DEFINE Is(z, e) == z[Flip(s, e)].chk = chk /\ \A g \in 0 .. e - 1 : z[Flip(s, g)].chk # chk
             d(z) == CHOOSE e \in 0 .. 2 : Is(z, e)
  <2>1. \A e \in 0 .. 3 : Flip(s, e) \in Slot  BY FlipFacts
  <2>2. CASE Holds(t, s, chk) # {}
    <3>1. f = t /\ first = [ht |-> t, slot |-> w]  BY <1>1, <1>3, <2>2
    <3>2. Holds(u, s, chk) # {}
      <4>1. w \in Holds(u, s, chk)  BY <1>1, <1>8, <1>10, <2>2, <3>1 DEF Holds
      <4>2. QED BY <4>1
    <3>3. \A e \in 0 .. 2 : Is(u, e) <=> Is(t, e)
      <4>1. \A e \in 0 .. 2 : u[Flip(s, e)].chk = t[Flip(s, e)].chk  BY <1>8, <2>1, <3>1
      <4>2. \A e \in 0 .. 2 : \A g \in 0 .. e - 1 : g \in 0 .. 2  OBVIOUS
      <4>3. QED BY <4>1, <4>2
    <3>4. d(u) = d(t)
      <4> HIDE DEF Is
      <4>1. QED BY <3>3
    <3>5. Get(u, s, chk) = [ht |-> u, slot |-> Flip(s, d(u))]  BY <3>2 DEF Get
    <3>6. Get(t, s, chk) = [ht |-> t, slot |-> Flip(s, d(t))]  BY <2>2 DEF Get
    <3> HIDE DEF d
    <3>7. w = Flip(s, d(t))  BY <1>1, <3>6
    <3>8. QED BY <3>4, <3>5, <3>7
  <2>3. CASE Holds(t, s, chk) = {}
    <3>1. f = [t EXCEPT ![w] = NewSlot(chk)]  BY <1>1, <1>3, <2>3
    <3>2. u[w].chk = chk
      <4>1. f[w] = NewSlot(chk)  BY <3>1 DEF Table
      <4>2. f[w].chk = chk  BY <4>1 DEF NewSlot
      <4>3. QED BY <1>8, <4>2
    <3>3. Holds(u, s, chk) # {}
      <4>1. w \in Holds(u, s, chk)  BY <1>10, <3>2 DEF Holds
      <4>2. QED BY <4>1
    <3>4. \A v \in Probed(s) : u[v].chk = chk => v = w
      <4>1. SUFFICES ASSUME NEW v \in Probed(s), u[v].chk = chk, v # w PROVE FALSE  OBVIOUS
      <4>2. f[v] = t[v]  BY <1>9, <3>1, <4>1 DEF Table
      <4>3. v \in Holds(t, s, chk)  BY <1>8, <1>9, <4>1, <4>2 DEF Holds
      <4>4. QED BY <2>3, <4>3
    <3>5. Get(u, s, chk) = [ht |-> u, slot |-> Flip(s, d(u))]  BY <3>3 DEF Get
    <3>6. Flip(s, d(u)) \in Probed(s) /\ u[Flip(s, d(u))].chk = chk
      BY <3>3, HolderFound
    <3> HIDE DEF d
    <3>7. QED BY <3>4, <3>5, <3>6
  <2>4. QED BY <2>2, <2>3
<1>11. first.slot \in Probed(s) => again = [ht |-> learned, slot |-> first.slot]
  BY <1>1, <1>6, <1>10
<1>12. QED BY <1>2, <1>11

-----------------------------------------------------------------------------
(* What the model of a run is made of. *)
Pointer == [slot : Slot, at : Nat]
Predictor ==
  [ht : Table, cp : [Orders -> Pointer], c0 : Nat, bcount : Nat,
   c4 : [1 .. ContextBytes -> Octet],
   buf : [0 .. RingSize - 1 -> Octet], pos : 0 .. RingSize - 1,
   h1 : 0 .. HashSize - 1, h2 : 0 .. HashSize - 1,
   heads : [0 .. HashSize - 1 -> 0 .. RingSize - 1],
   match : 0 .. RingSize - 1, len : Nat]

SameText(q, p) ==
  /\ q.c0 = p.c0 /\ q.bcount = p.bcount /\ q.c4 = p.c4 /\ q.buf = p.buf /\ q.pos = p.pos
  /\ q.h1 = p.h1 /\ q.h2 = p.h2
SameMatch(q, p) == q.heads = p.heads /\ q.match = p.match /\ q.len = p.len

LEMMA OrderFacts ==
  Cardinality(Orders) \in Nat /\ Orders = 1 .. Cardinality(Orders)
BY SizeAssumption, FS_CardinalityType

LEMMA WithTable ==
  ASSUME NEW p \in Predictor, NEW t \in Table, NEW q, q = [p EXCEPT !.ht = t]
  PROVE  /\ q \in Predictor /\ q.ht = t /\ q.cp = p.cp
         /\ SameText(q, p) /\ SameMatch(q, p)
BY DEF Predictor, SameText, SameMatch

Repointed(p, t, c) == [p EXCEPT !.ht = t, !.cp = c]

LEMMA WithPointers ==
  ASSUME NEW p \in Predictor, NEW t \in Table, NEW c \in [Orders -> Pointer]
  PROVE  /\ Repointed(p, t, c) \in Predictor
         /\ Repointed(p, t, c).cp = c
         /\ SameText(Repointed(p, t, c), p) /\ SameMatch(Repointed(p, t, c), p)
BY DEF Predictor, SameText, SameMatch, Repointed

(* A state after it has taken a bit as often as pointers point to it.      *)
LEMMA AfterTyped ==
  ASSUME NEW v \in Octet, NEW n \in Nat, NEW y \in {0, 1}
  PROVE  LET f[j \in 0 .. n] == IF j = 0 THEN v ELSE nex(f[j - 1], y)
         IN  f[n] \in Octet
<1> DEFINE Is(f) == f = [j \in 0 .. n |-> IF j = 0 THEN v ELSE nex(f[j - 1], y)]
           f == CHOOSE f : Is(f)
           F == [arg \in (1 .. n) \X Octet |-> nex(arg[2], y)]
           S == {j \in Nat : j <= n => f[j] \in Octet}
<1>1. IsStep(n, Octet, F)
  <2>1. ASSUME NEW arg \in (1 .. n) \X Octet PROVE nex(arg[2], y) \in Octet
    <3>1. arg[2] \in Octet  OBVIOUS
    <3>2. QED BY <3>1, TableAssumption
  <2>2. QED BY <2>1 DEF IsStep
<1>2. \E g : Is(g)
  <2>1. \A k \in 1 .. n, a \in Octet : F[<<k, a>>] = nex(a, y)  OBVIOUS
  <2> HIDE DEF F
  <2>2. PICK g : IsRecursion(n, Octet, v, F, g)  BY <1>1, RecursionExists
  <2>3. g \in [0 .. n -> Octet] /\ g[0] = v /\ \A k \in 1 .. n : g[k] = F[<<k, g[k - 1]>>]
    BY <2>2 DEF IsRecursion
  <2>4. ASSUME NEW j \in 0 .. n PROVE g[j] = IF j = 0 THEN v ELSE nex(g[j - 1], y)
    <3>1. CASE j = 0  BY <2>3, <3>1
    <3>2. CASE j # 0
      <4>1. j \in 1 .. n /\ j - 1 \in 0 .. n  BY <3>2
      <4>2. g[j - 1] \in Octet  BY <2>3, <4>1
      <4>3. QED BY <2>1, <2>3, <3>2, <4>1, <4>2
    <3>3. QED BY <3>1, <3>2
  <2>5. g = [j \in 0 .. n |-> IF j = 0 THEN v ELSE nex(g[j - 1], y)]
    <3>1. g = [j \in 0 .. n |-> g[j]]  BY <2>3
    <3>2. QED BY <2>4, <3>1
  <2>6. QED BY <2>5
<1>3. Is(f)
  <2> HIDE DEF Is
  <2>1. QED BY <1>2
<1>4. f[0] = v /\ \A j \in 1 .. n : f[j] = nex(f[j - 1], y)
  <2> HIDE DEF f
  <2>1. \A j \in 0 .. n : f[j] = IF j = 0 THEN v ELSE nex(f[j - 1], y)
    <3>1. PICK h : h = [j \in 0 .. n |-> IF j = 0 THEN v ELSE nex(f[j - 1], y)]  OBVIOUS
    <3>2. f = h  BY <1>3, <3>1
    <3>3. \A j \in 0 .. n : h[j] = IF j = 0 THEN v ELSE nex(f[j - 1], y)  BY <3>1
    <3>4. QED BY <3>2, <3>3
  <2>2. QED BY <2>1
<1> HIDE DEF f, F
<1>5. 0 \in S  BY <1>4
<1>6. ASSUME NEW j \in S PROVE j + 1 \in S
  <2>1. SUFFICES ASSUME j + 1 <= n PROVE f[j + 1] \in Octet  OBVIOUS
  <2>2. f[j] \in Octet /\ j + 1 \in 1 .. n /\ (j + 1) - 1 = j  BY <2>1
  <2>3. f[j + 1] = nex(f[j], y)  BY <1>4, <2>2
  <2>4. QED BY <2>2, <2>3, TableAssumption
<1>7. S = Nat
  <2>1. S \in SUBSET Nat  OBVIOUS
  <2> HIDE DEF S
  <2>2. QED BY <1>5, <1>6, <2>1, SetInduction
<1>8. n \in S
  <2> HIDE DEF S
  <2>1. QED BY <1>7
<1>9. f[n] \in Octet  BY <1>8
<1>10. QED BY <1>9 DEF f

(* Learning changes the table, and leaves it one.                          *)
LEMMA LearnTyped ==
  ASSUME NEW p \in Predictor, NEW y \in {0, 1}
  PROVE  \E t \in Table : Learn(p, y) = [p EXCEPT !.ht = t]
<1> DEFINE times(s, a) == Cardinality({k \in Orders : p.cp[k] = [slot |-> s, at |-> a]})
           after(v, n) == LET f[j \in 0 .. n] == IF j = 0 THEN v ELSE nex(f[j - 1], y) IN f[n]
           taken(s) == [a \in 1 .. SlotSize - 1 |-> after(p.ht[s].state[a], times(s, a))]
           T == [s \in DOMAIN p.ht |-> [p.ht[s] EXCEPT !.state = taken(s)]]
<1>5. Learn(p, y) = [p EXCEPT !.ht = T]  BY DEF Learn
<1>1. \A s, a : times(s, a) \in Nat
  <2>1. ASSUME NEW s, NEW a PROVE times(s, a) \in Nat
    <3>1. {k \in Orders : p.cp[k] = [slot |-> s, at |-> a]} \in SUBSET Orders  OBVIOUS
    <3>2. IsFiniteSet({k \in Orders : p.cp[k] = [slot |-> s, at |-> a]})
      BY <3>1, SizeAssumption, FS_Subset
    <3>3. QED BY <3>2, FS_CardinalityType
  <2>2. QED BY <2>1
<1>2. \A v \in Octet, n \in Nat : after(v, n) \in Octet
  <2>1. ASSUME NEW v \in Octet, NEW n \in Nat PROVE after(v, n) \in Octet
    BY AfterTyped
  <2>2. QED BY <2>1
<1>3. p.ht \in Table  BY DEF Predictor
<1> HIDE DEF times, after
<1>4. T \in Table
  <2>1. DOMAIN p.ht = Slot  BY <1>3 DEF Table
  <2>2. ASSUME NEW s \in Slot
        PROVE  [p.ht[s] EXCEPT !.state = taken(s)] \in SlotValue
    <3>1. p.ht[s] \in SlotValue  BY <1>3 DEF Table
    <3>2. p.ht[s].state \in [1 .. SlotSize - 1 -> Octet]  BY <3>1 DEF SlotValue
    <3>3. taken(s) \in [1 .. SlotSize - 1 -> Octet]  BY <1>1, <1>2, <3>2
    <3> HIDE DEF taken
    <3>4. QED BY <3>1, <3>3 DEF SlotValue
  <2>3. QED BY <2>1, <2>2 DEF Table
<1> HIDE DEF T
<1>6. QED BY <1>4, <1>5

-----------------------------------------------------------------------------
(* t() for the context of one order. *)
LEMMA OneFound ==
  ASSUME NEW p \in Predictor, NEW k \in Orders, NEW c \in Octet
  PROVE  LET g == Get(p.ht, SlotOf(k, p.c4, c), CheckOf(k, p.c4, c))
             q == [p EXCEPT !.ht = g.ht, !.cp[k] = [slot |-> g.slot, at |-> 1]]
         IN  /\ q \in Predictor /\ SameText(q, p) /\ SameMatch(q, p)
             /\ q.cp[k].at = 1 /\ \A i \in Orders \ {k} : q.cp[i] = p.cp[i]
<1> DEFINE g == Get(p.ht, SlotOf(k, p.c4, c), CheckOf(k, p.c4, c))
           q == [p EXCEPT !.ht = g.ht, !.cp[k] = [slot |-> g.slot, at |-> 1]]
<1>1. p.ht \in Table /\ p.c4 \in [1 .. ContextBytes -> Octet] /\ p.cp \in [Orders -> Pointer]
  BY DEF Predictor
<1>2. SlotOf(k, p.c4, c) \in Slot /\ CheckOf(k, p.c4, c) \in Octet
  BY <1>1, TableAssumption DEF Slot
<1>3. g.ht \in Table /\ g.slot \in Slot  BY <1>1, <1>2, GetTyped
<1> HIDE DEF g
<1>4. PICK t \in Table : t = g.ht  BY <1>3
<1>5. PICK d : d = [p.cp EXCEPT ![k] = [slot |-> g.slot, at |-> 1]]  OBVIOUS
<1>6. d \in [Orders -> Pointer]
  <2>1. [slot |-> g.slot, at |-> 1] \in Pointer  BY <1>3 DEF Pointer
  <2>2. QED BY <1>1, <1>5, <2>1
<1>7. d[k].at = 1 /\ \A i \in Orders \ {k} : d[i] = p.cp[i]
  <2>1. d[k] = [slot |-> g.slot, at |-> 1]  BY <1>1, <1>5
  <2>2. \A i \in Orders \ {k} : d[i] = p.cp[i]  BY <1>1, <1>5
  <2>3. QED BY <2>1, <2>2
<1>8. q = Repointed(p, t, d)  BY <1>4, <1>5 DEF Predictor, Repointed
<1> HIDE DEF q
<1>9. /\ q \in Predictor /\ q.cp = d /\ SameText(q, p) /\ SameMatch(q, p)
  BY <1>6, <1>8, WithPointers
<1>10. QED BY <1>7, <1>9 DEF q, g

(* All pointers are at the start of a slot; the text and the match are left. *)
LEMMA FindTyped ==
  ASSUME NEW p \in Predictor, NEW c \in Octet
  PROVE  /\ Find(p, c) \in Predictor /\ SameText(Find(p, c), p) /\ SameMatch(Find(p, c), p)
         /\ \A k \in Orders : Find(p, c).cp[k].at = 1
<1> DEFINE n == Cardinality(Orders)
           St(q, k) ==
             LET g == Get(q.ht, SlotOf(k, q.c4, c), CheckOf(k, q.c4, c))
             IN  [q EXCEPT !.ht = g.ht, !.cp[k] = [slot |-> g.slot, at |-> 1]]
           Is(f) == f = [k \in 0 .. n |-> IF k = 0 THEN p
                                          ELSE CHOOSE q \in {St(z, k) : z \in {f[k - 1]}} : TRUE]
           found == CHOOSE f : Is(f)
           F == [arg \in (1 .. n) \X Predictor |-> St(arg[2], arg[1])]
           Good(k) == /\ found[k] \in Predictor
                      /\ SameText(found[k], p) /\ SameMatch(found[k], p)
                      /\ \A i \in 1 .. k : found[k].cp[i].at = 1
           S == {k \in Nat : k <= n => Good(k)}
<1>1. Find(p, c) = found[n]  BY DEF Find
<1>2. n \in Nat /\ Orders = 1 .. n  BY OrderFacts
<1>3. ASSUME NEW q \in Predictor, NEW k \in 1 .. n
      PROVE  /\ St(q, k) \in Predictor /\ SameText(St(q, k), q) /\ SameMatch(St(q, k), q)
             /\ St(q, k).cp[k].at = 1 /\ \A i \in Orders \ {k} : St(q, k).cp[i] = q.cp[i]
  <2>1. k \in Orders  BY <1>2
  <2>2. QED BY <2>1, OneFound
<1> HIDE DEF St, n
<1>4. \A f, k : (CHOOSE q \in {St(z, k) : z \in {f[k - 1]}} : TRUE) = St(f[k - 1], k)
  <2>1. ASSUME NEW f, NEW k
        PROVE  (CHOOSE q \in {St(z, k) : z \in {f[k - 1]}} : TRUE) = St(f[k - 1], k)
    <3>1. {St(z, k) : z \in {f[k - 1]}} = {St(f[k - 1], k)}  OBVIOUS
    <3>2. QED BY <3>1
  <2>2. QED BY <2>1
<1>5. IsStep(n, Predictor, F)  BY <1>3 DEF IsStep
<1>6. \E f : Is(f)
  <2>1. \A k \in 1 .. n, q \in Predictor : F[<<k, q>>] = St(q, k)  OBVIOUS
  <2> HIDE DEF F
  <2>2. PICK f : IsRecursion(n, Predictor, p, F, f)  BY <1>2, <1>5, RecursionExists
  <2>3. /\ f \in [0 .. n -> Predictor] /\ f[0] = p
        /\ \A k \in 1 .. n : f[k] = F[<<k, f[k - 1]>>]
    BY <2>2 DEF IsRecursion
  <2>4. ASSUME NEW k \in 0 .. n
        PROVE  f[k] = IF k = 0 THEN p ELSE CHOOSE q \in {St(z, k) : z \in {f[k - 1]}} : TRUE
    <3>1. CASE k = 0  BY <2>3, <3>1
    <3>2. CASE k # 0
      <4>1. k \in 1 .. n /\ k - 1 \in 0 .. n  BY <1>2, <3>2
      <4>2. f[k] = St(f[k - 1], k)  BY <2>1, <2>3, <4>1
      <4>3. QED BY <1>4, <3>2, <4>2
    <3>3. QED BY <3>1, <3>2
  <2>5. f = [k \in 0 .. n |-> f[k]]  BY <2>3
  <2>6. Is(f)  BY <2>4, <2>5
  <2>7. QED BY <2>6
<1>7. Is(found)
  <2> HIDE DEF Is
  <2>1. QED BY <1>6
<1>8. found[0] = p /\ \A k \in 1 .. n : found[k] = St(found[k - 1], k)
  <2> HIDE DEF found
  <2>1. PICK h : h = [k \in 0 .. n |-> IF k = 0 THEN p
                                       ELSE CHOOSE q \in {St(z, k) : z \in {found[k - 1]}} : TRUE]
    OBVIOUS
  <2>2. found = h  BY <1>7, <2>1
  <2>3. h[0] = p  BY <1>2, <2>1
  <2>4. ASSUME NEW k \in 1 .. n PROVE h[k] = St(found[k - 1], k)
    <3>1. k \in 0 .. n /\ k # 0  BY <1>2
    <3>2. h[k] = CHOOSE q \in {St(z, k) : z \in {found[k - 1]}} : TRUE  BY <2>1, <3>1
    <3>3. QED BY <1>4, <3>2
  <2>5. QED BY <2>2, <2>3, <2>4
<1> HIDE DEF found, F
<1>9. 0 \in S
  <2>1. 1 .. 0 = {}  OBVIOUS
  <2>2. QED BY <1>8, <2>1 DEF SameText, SameMatch
<1>10. ASSUME NEW k \in S PROVE k + 1 \in S
  <2>1. SUFFICES ASSUME k + 1 <= n PROVE Good(k + 1)  OBVIOUS
  <2>2. k \in Nat /\ k + 1 \in 1 .. n /\ (k + 1) - 1 = k /\ Good(k)  BY <1>2, <2>1
  <2>3. PICK q \in Predictor : q = found[k]  BY <2>2
  <2>4. PICK j \in 1 .. n : j = k + 1  BY <2>2
  <2>5. found[j] = St(q, j)  BY <1>8, <2>2, <2>3, <2>4
  <2>6. /\ St(q, j) \in Predictor /\ SameText(St(q, j), q) /\ SameMatch(St(q, j), q)
        /\ St(q, j).cp[j].at = 1 /\ \A i \in Orders \ {j} : St(q, j).cp[i] = q.cp[i]
    BY <1>3
  <2>7. SameText(St(q, j), p) /\ SameMatch(St(q, j), p)
    BY <2>2, <2>3, <2>6 DEF SameText, SameMatch
  <2>8. \A i \in 1 .. k + 1 : St(q, j).cp[i].at = 1
    <3>1. SUFFICES ASSUME NEW i \in 1 .. k + 1 PROVE St(q, j).cp[i].at = 1  OBVIOUS
    <3>2. CASE i = j  BY <2>6, <3>2
    <3>3. CASE i # j
      <4>1. i \in 1 .. k /\ i \in Orders \ {j}  BY <1>2, <2>1, <2>2, <2>4, <3>3
      <4>2. q.cp[i].at = 1  BY <2>2, <2>3, <4>1
      <4>3. QED BY <2>6, <4>1, <4>2
    <3>4. QED BY <3>2, <3>3
  <2>9. QED BY <2>4, <2>5, <2>6, <2>7, <2>8
<1>11. S = Nat
  <2>1. S \in SUBSET Nat  OBVIOUS
  <2> HIDE DEF S
  <2>2. QED BY <1>9, <1>10, <2>1, SetInduction
<1>12. Good(n)
  <2>1. n \in S
    <3> HIDE DEF S
    <3>1. QED BY <1>2, <1>11
  <2>2. QED BY <1>2, <2>1
<1>13. QED BY <1>1, <1>2, <1>12

(* The pointers after a bit of the half byte. *)
LEMMA AdvanceTyped ==
  ASSUME NEW p \in Predictor, NEW y \in {0, 1}, (p.bcount % Nibble) - 1 \in Nat
  PROVE  LET j == (y + 1) * 2 ^ ((p.bcount % Nibble) - 1)
             q == Advance(p, y)
         IN  /\ q \in Predictor /\ SameText(q, p) /\ SameMatch(q, p)
             /\ \A k \in Orders : q.cp[k] = Unset \/ (p.cp[k] # Unset /\ q.cp[k].at = p.cp[k].at + j)
<1> DEFINE j == (y + 1) * 2 ^ ((p.bcount % Nibble) - 1)
           q == Advance(p, y)
           moved(c) == IF c = Unset THEN Unset ELSE [c EXCEPT !.at = @ + j]
<1>1. j \in Nat
  <2>1. 2 ^ ((p.bcount % Nibble) - 1) \in Nat  BY PowerOfTwo
  <2>2. QED BY <2>1
<1>2. p.cp \in [Orders -> Pointer]  BY DEF Predictor
<1>3. q = [p EXCEPT !.cp = [k \in Orders |-> moved(p.cp[k])]]  BY DEF Advance
<1> HIDE DEF q, j
<1>4. PICK d : d = [k \in Orders |-> moved(p.cp[k])]  OBVIOUS
<1>5. d \in [Orders -> Pointer]
  <2>1. ASSUME NEW c \in Pointer PROVE moved(c) \in Pointer
    <3>1. Unset \in Pointer  BY SizeFacts DEF Pointer, Unset, Slot
    <3>2. [c EXCEPT !.at = @ + j] \in Pointer
      <4>1. c.at + j \in Nat  BY <1>1 DEF Pointer
      <4>2. QED BY <4>1 DEF Pointer
    <3>3. QED BY <3>1, <3>2
  <2> HIDE DEF moved
  <2>2. QED BY <1>2, <1>4, <2>1
<1>6. \A k \in Orders : d[k] = Unset \/ (p.cp[k] # Unset /\ d[k].at = p.cp[k].at + j)
  <2>1. ASSUME NEW k \in Orders, p.cp[k] # Unset PROVE d[k].at = p.cp[k].at + j
    <3>1. d[k] = [p.cp[k] EXCEPT !.at = @ + j]  BY <1>4, <2>1
    <3>2. p.cp[k] \in Pointer  BY <1>2
    <3>3. QED BY <3>1, <3>2 DEF Pointer
  <2>2. QED BY <1>4, <2>1
<1> HIDE DEF moved
<1>7. PICK t \in Table : t = p.ht  BY DEF Predictor
<1>8. q = Repointed(p, t, d)
  <2>1. q = [p EXCEPT !.cp = d]  BY <1>3, <1>4
  <2>2. QED BY <1>7, <2>1 DEF Predictor, Repointed
<1>9. q \in Predictor /\ q.cp = d /\ SameText(q, p) /\ SameMatch(q, p)
  BY <1>5, <1>8, WithPointers
<1>10. QED BY <1>6, <1>9 DEF q, j

-----------------------------------------------------------------------------
(* The ring of the match model.                                            *)
RingIndex == 0 .. RingSize - 1

LEMMA RingIn == ASSUME NEW a \in Int PROVE Ring(a) \in RingIndex
BY SizeFacts DEF Ring, RingIndex

LEMMA RingAt ==
  ASSUME NEW a \in Int, -RingSize <= a, a < 2 * RingSize
  PROVE  Ring(a) = IF a < 0 THEN a + RingSize ELSE IF a < RingSize THEN a ELSE a - RingSize
BY SizeFacts, ModAbout DEF Ring

(* The last two bytes but the first move with the positions. *)
LEMMA RingMoves ==
  ASSUME NEW m \in RingIndex, NEW w \in RingIndex, NEW n \in RingIndex, NEW v \in RingIndex,
         n = Ring(m + 1), v = Ring(w + 1)
  PROVE  /\ Ring(n - v) = Ring(m - w)
         /\ Ring(n - 1) = m /\ Ring(v - 1) = w
         /\ Ring(m - w) > 0 => m # w
         /\ \A j \in Nat \ {0} : j < Ring(m - w) =>
              /\ Ring(n - 1 - j) = Ring(m - 1 - (j - 1)) /\ Ring(v - 1 - j) = Ring(w - 1 - (j - 1))
              /\ Ring(n - 1 - j) # w /\ Ring(v - 1 - j) # w
<1>1. RingSize \in Nat \ {0}  BY SizeFacts
<1>2. n = (IF m + 1 < RingSize THEN m + 1 ELSE m + 1 - RingSize)
  BY <1>1, RingAt DEF RingIndex
<1>3. v = (IF w + 1 < RingSize THEN w + 1 ELSE w + 1 - RingSize)
  BY <1>1, RingAt DEF RingIndex
<1>4. Ring(m - w) = (IF m - w < 0 THEN m - w + RingSize ELSE m - w)
  BY <1>1, RingAt DEF RingIndex
<1>5. Ring(n - v) = (IF n - v < 0 THEN n - v + RingSize ELSE n - v)
  BY <1>1, RingAt DEF RingIndex
<1>6. Ring(n - v) = Ring(m - w)  BY <1>1, <1>2, <1>3, <1>4, <1>5 DEF RingIndex
<1>7. Ring(n - 1) = m /\ Ring(v - 1) = w
  <2>1. ASSUME NEW a \in RingIndex, NEW b \in RingIndex,
               b = IF a + 1 < RingSize THEN a + 1 ELSE a + 1 - RingSize
        PROVE  Ring(b - 1) = a
    <3>1. Ring(b - 1) = IF b - 1 < 0 THEN b - 1 + RingSize ELSE b - 1
      BY <1>1, RingAt DEF RingIndex
    <3>2. QED BY <1>1, <2>1, <3>1 DEF RingIndex
  <2>2. QED BY <1>2, <1>3, <2>1
<1>8. Ring(m - w) > 0 => m # w  BY <1>4 DEF RingIndex
<1>9. ASSUME NEW j \in Nat \ {0}, j < Ring(m - w)
      PROVE  /\ Ring(n - 1 - j) = Ring(m - 1 - (j - 1)) /\ Ring(v - 1 - j) = Ring(w - 1 - (j - 1))
             /\ Ring(n - 1 - j) # w /\ Ring(v - 1 - j) # w
  <2>1. j < RingSize  BY <1>1, <1>4, <1>9 DEF RingIndex
  <2>2. ASSUME NEW a \in RingIndex, NEW b \in RingIndex,
               b = IF a + 1 < RingSize THEN a + 1 ELSE a + 1 - RingSize
        PROVE  /\ Ring(b - 1 - j) = Ring(a - 1 - (j - 1))
               /\ Ring(b - 1 - j) = IF a - j < 0 THEN a - j + RingSize ELSE a - j
    <3>1. Ring(b - 1 - j) = IF b - 1 - j < 0 THEN b - 1 - j + RingSize ELSE b - 1 - j
      BY <1>1, <2>1, <2>2, RingAt DEF RingIndex
    <3>2. Ring(a - 1 - (j - 1)) = IF a - j < 0 THEN a - j + RingSize ELSE a - j
      <4>1. a - 1 - (j - 1) = a - j /\ a - j \in Int  BY DEF RingIndex
      <4>2. Ring(a - j) = IF a - j < 0 THEN a - j + RingSize ELSE a - j
        BY <1>1, <2>1, <4>1, RingAt DEF RingIndex
      <4>3. QED BY <4>1, <4>2
    <3>3. Ring(b - 1 - j) = Ring(a - 1 - (j - 1))
      <4>1. CASE a + 1 < RingSize
        <5>1. b - 1 - j = a - j  BY <2>2, <4>1 DEF RingIndex
        <5>2. QED BY <3>1, <3>2, <5>1
      <4>2. CASE a + 1 = RingSize
        <5>1. b = 0  BY <1>1, <2>2, <4>2 DEF RingIndex
        <5>2. QED BY <1>1, <2>1, <3>1, <3>2, <4>2, <5>1 DEF RingIndex
      <4>3. QED BY <1>1, <4>1, <4>2 DEF RingIndex
    <3>4. QED BY <3>2, <3>3
  <2>3. Ring(n - 1 - j) = Ring(m - 1 - (j - 1))
        /\ Ring(n - 1 - j) = IF m - j < 0 THEN m - j + RingSize ELSE m - j
    BY <1>2, <2>2
  <2>4. Ring(v - 1 - j) = Ring(w - 1 - (j - 1))
        /\ Ring(v - 1 - j) = IF w - j < 0 THEN w - j + RingSize ELSE w - j
    BY <1>3, <2>2
  <2>5. Ring(n - 1 - j) # w  BY <1>1, <1>4, <1>9, <2>1, <2>3 DEF RingIndex
  <2>6. Ring(v - 1 - j) # w  BY <1>1, <2>1, <2>4 DEF RingIndex
  <2>7. QED BY <2>3, <2>4, <2>5, <2>6
<1>10. QED BY <1>6, <1>7, <1>8, <1>9

-----------------------------------------------------------------------------
(* MatchAgrees of any text. *)
Agrees(buf, pos, m, n) ==
  \A j \in 0 .. n - 1 :
    j < Ring(m - pos) => buf[Ring(m - 1 - j)] \div 2 = buf[Ring(pos - 1 - j)] \div 2

(* What is compared agrees up to the first difference.                     *)
LEMMA MatchBackAgrees ==
  ASSUME NEW buf, NEW pos \in RingIndex, NEW m \in RingIndex
  PROVE  MatchBack(buf, pos, m) \in 0 .. MAXLEN /\ Agrees(buf, pos, m, MatchBack(buf, pos, m))
<1> DEFINE Ends(n) == \/ n = MAXLEN
                      \/ Ring(m - n - 1) = pos
                      \/ buf[Ring(m - n - 1)] # buf[Ring(pos - n - 1)]
           First(n) == Ends(n) /\ \A l \in 0 .. n - 1 : ~Ends(l)
           b == CHOOSE n \in 0 .. MAXLEN : First(n)
<1>1. MAXLEN \in Nat  BY SizeFacts
<1>2. CASE m = pos
  <2>1. MatchBack(buf, pos, m) = 0  BY <1>2 DEF MatchBack
  <2>2. QED BY <1>1, <2>1 DEF Agrees
<1>3. CASE m # pos
  <2>1. \E n \in 0 .. MAXLEN : First(n)
    <3> DEFINE S == {n \in Nat : Ends(n)}
    <3>1. MAXLEN \in S  BY <1>1
    <3>2. S \in SUBSET Nat /\ S # {}  BY <3>1
    <3>3. PICK n \in S : \A k \in S : n <= k
      <4> HIDE DEF S
      <4>1. QED BY <3>2, LeastOf
    <3>4. n \in Nat /\ n <= MAXLEN /\ Ends(n)  BY <3>1, <3>3
    <3>5. \A l \in 0 .. n - 1 : ~Ends(l)
      <4>1. SUFFICES ASSUME NEW l \in 0 .. n - 1, Ends(l) PROVE FALSE  OBVIOUS
      <4>2. l \in Nat /\ l < n  BY <3>4
      <4>3. l \in S  BY <4>1, <4>2
      <4>4. QED BY <3>3, <3>4, <4>2, <4>3
    <3>6. QED BY <1>1, <3>4, <3>5
  <2>2. b \in 0 .. MAXLEN /\ First(b)
    <3> HIDE DEF First
    <3>1. QED BY <2>1
  <2>3. MatchBack(buf, pos, m) = b  BY <1>3 DEF MatchBack
  <2> HIDE DEF b
  <2>4. ASSUME NEW j \in 0 .. b - 1 PROVE buf[Ring(m - 1 - j)] = buf[Ring(pos - 1 - j)]
    <3>1. buf[Ring(m - j - 1)] = buf[Ring(pos - j - 1)]  BY <2>2
    <3>2. m - j - 1 = m - 1 - j /\ pos - j - 1 = pos - 1 - j  BY DEF RingIndex
    <3>3. QED BY <3>1, <3>2
  <2>5. QED BY <2>2, <2>3, <2>4 DEF Agrees
<1>4. QED BY <1>2, <1>3

Matched(p, hd, m, n) == [p EXCEPT !.match = m, !.len = n, !.heads = hd]
Heads == [0 .. HashSize - 1 -> RingIndex]

LEMMA WithMatch ==
  ASSUME NEW p \in Predictor, NEW hd \in Heads, NEW m \in RingIndex, NEW n \in Nat,
         NEW q, q = Matched(p, hd, m, n)
  PROVE  /\ q \in Predictor /\ SameText(q, p) /\ q.cp = p.cp
         /\ q.match = m /\ q.len = n
BY DEF Predictor, SameText, Matched, Heads, RingIndex

(* A match that is followed is one longer; another one is compared.        *)
LEMMA FindMatchAgrees ==
  ASSUME NEW p \in Predictor,
         p.len > 0 => /\ Agrees(p.buf, p.pos, Ring(p.match + 1), p.len + 1)
  PROVE  LET q == FindMatch(p)
         IN  /\ q \in Predictor /\ SameText(q, p) /\ q.cp = p.cp
             /\ Agrees(q.buf, q.pos, q.match, q.len)
<1> DEFINE q == FindMatch(p)
           first == p.heads[p.h1]
           second == p.heads[p.h2]
           m == IF p.len > 0
                  THEN [match |-> Ring(p.match + 1), len |-> IF p.len < MAXLEN THEN p.len + 1 ELSE MAXLEN]
                  ELSE [match |-> first, len |-> MatchBack(p.buf, p.pos, first)]
           n == IF m.len < 2 THEN [match |-> second, len |-> MatchBack(p.buf, p.pos, second)] ELSE m
           hd == [[p.heads EXCEPT ![p.h1] = p.pos] EXCEPT ![p.h2] = p.pos]
<1>1. /\ p.heads \in Heads /\ p.h1 \in 0 .. HashSize - 1 /\ p.h2 \in 0 .. HashSize - 1
      /\ p.pos \in RingIndex /\ p.match \in RingIndex /\ p.len \in Nat
  BY DEF Predictor, Heads, RingIndex
<1>2. first \in RingIndex /\ second \in RingIndex /\ hd \in Heads
  BY <1>1 DEF Heads
<1>3. q = Matched(p, hd, n.match, n.len)  BY <1>1 DEF FindMatch, Matched
<1>4. MAXLEN \in Nat /\ MAXLEN >= 2  BY SizeFacts
<1> HIDE DEF first, second, hd, q
<1>5. \A v \in RingIndex :
        MatchBack(p.buf, p.pos, v) \in 0 .. MAXLEN /\ Agrees(p.buf, p.pos, v, MatchBack(p.buf, p.pos, v))
  BY <1>1, MatchBackAgrees
<1>6. n.match \in RingIndex /\ n.len \in Nat /\ Agrees(p.buf, p.pos, n.match, n.len)
  <2>1. CASE p.len > 0
    <3>1. m.match = Ring(p.match + 1) /\ m.len >= 2 /\ m.len <= p.len + 1 /\ m.len \in Nat
      BY <1>1, <1>4, <2>1
    <3>2. n = m  BY <3>1
    <3>3. Ring(p.match + 1) \in RingIndex  BY <1>1, RingIn DEF RingIndex
    <3> HIDE DEF n, m
    <3>4. Agrees(p.buf, p.pos, Ring(p.match + 1), m.len)
      <4>1. \A j \in 0 .. m.len - 1 : j \in 0 .. (p.len + 1) - 1  BY <1>1, <3>1
      <4>2. QED BY <2>1, <4>1 DEF Agrees
    <3>5. QED BY <3>1, <3>2, <3>3, <3>4
  <2>2. CASE ~(p.len > 0)
    <3>1. m = [match |-> first, len |-> MatchBack(p.buf, p.pos, first)]  BY <2>2
    <3>2. n = [match |-> second, len |-> MatchBack(p.buf, p.pos, second)] \/ n = m
      OBVIOUS
    <3>3. PICK v \in RingIndex : n = [match |-> v, len |-> MatchBack(p.buf, p.pos, v)]
      BY <1>2, <3>1, <3>2
    <3>4. n.match = v /\ n.len = MatchBack(p.buf, p.pos, v)  BY <3>3
    <3> HIDE DEF n, m
    <3>5. QED BY <1>4, <1>5, <3>4
  <2>3. QED BY <2>1, <2>2
<1> HIDE DEF n, m
<1>7. q \in Predictor /\ SameText(q, p) /\ q.cp = p.cp /\ q.match = n.match /\ q.len = n.len
  BY <1>2, <1>3, <1>6, WithMatch
<1>8. Agrees(q.buf, q.pos, q.match, q.len)  BY <1>6, <1>7 DEF SameText
<1>9. QED BY <1>7, <1>8 DEF q

(* p(): what remains is followed, and agrees if it did. *)
LEMMA MatchPAgrees ==
  ASSUME NEW p \in Predictor,
         p.bcount = 0 /\ p.len > 0 => Agrees(p.buf, p.pos, Ring(p.match + 1), p.len + 1),
         p.bcount # 0 => Agrees(p.buf, p.pos, p.match, p.len)
  PROVE  LET q == MatchP(p)
         IN  /\ q \in Predictor /\ SameText(q, p) /\ q.cp = p.cp
             /\ Agrees(q.buf, q.pos, q.match, q.len)
             /\ q.len > 0 => Follows(q)
<1> DEFINE f == IF p.bcount = 0 THEN FindMatch(p) ELSE p
           q == MatchP(p)
<1>1. f \in Predictor /\ SameText(f, p) /\ f.cp = p.cp /\ Agrees(f.buf, f.pos, f.match, f.len)
  <2>1. CASE p.bcount = 0  BY <2>1, FindMatchAgrees
  <2>2. CASE p.bcount # 0  BY <2>2 DEF SameText
  <2>3. QED BY <2>1, <2>2
<1>2. q = IF f.len > 0 /\ Follows(f) THEN f ELSE [f EXCEPT !.len = 0]  BY DEF MatchP
<1> HIDE DEF f, q
<1>3. CASE f.len > 0 /\ Follows(f)  BY <1>1, <1>2, <1>3 DEF q
<1>4. CASE ~(f.len > 0 /\ Follows(f))
  <2>1. q = [f EXCEPT !.len = 0]  BY <1>2, <1>4
  <2>2. q \in Predictor /\ SameText(q, f) /\ q.cp = f.cp /\ q.len = 0
    BY <1>1, <2>1 DEF Predictor, SameText
  <2>3. Agrees(q.buf, q.pos, q.match, q.len)  BY <2>2 DEF Agrees
  <2>4. SameText(q, p)  BY <1>1, <2>2 DEF SameText
  <2>5. QED BY <1>1, <2>2, <2>3, <2>4 DEF q
<1>5. QED BY <1>3, <1>4

-----------------------------------------------------------------------------
(* The path of the bits of a half byte.                                    *)
LEMMA BitOfDigit == ASSUME NEW c \in Nat, NEW k \in Nat PROVE (c \div 2 ^ k) % 2 \in {0, 1}
<1>1. c \div 2 ^ k \in Nat  BY PowerOfTwo, DivMod
<1>2. QED BY <1>1

(* The state of the slot that d bits of c lead to. *)
PathOf(d, c) ==
  LET Bit(i) == (c \div 2 ^ (d - 1 - i)) % 2
      path[i \in 0 .. d] == IF i = 0 THEN 2 ^ d ELSE path[i - 1] + Bit(i - 1) * 2 ^ (i - 1)
  IN  path

LEMMA PathSteps ==
  ASSUME NEW d \in Nat, NEW c \in Nat
  PROVE  /\ PathOf(d, c)[0] = 2 ^ d
         /\ \A i \in 1 .. d :
              PathOf(d, c)[i] = PathOf(d, c)[i - 1] + ((c \div 2 ^ (d - i)) % 2) * 2 ^ (i - 1)
<1> DEFINE Bit(i) == (c \div 2 ^ (d - 1 - i)) % 2
           Is(f) == f = [i \in 0 .. d |-> IF i = 0 THEN 2 ^ d
                                          ELSE f[i - 1] + Bit(i - 1) * 2 ^ (i - 1)]
           f == CHOOSE f : Is(f)
           F == [arg \in (1 .. d) \X Nat |-> arg[2] + Bit(arg[1] - 1) * 2 ^ (arg[1] - 1)]
<1>1. ASSUME NEW i \in 1 .. d PROVE Bit(i - 1) * 2 ^ (i - 1) \in Nat
  <2>1. d - 1 - (i - 1) \in Nat /\ i - 1 \in Nat  OBVIOUS
  <2>2. Bit(i - 1) \in {0, 1}  BY <2>1, BitOfDigit
  <2>3. 2 ^ (i - 1) \in Nat  BY <2>1, PowerOfTwo
  <2> HIDE DEF Bit
  <2>4. QED BY <2>2, <2>3
<1>2. PathOf(d, c) = f  BY DEF PathOf
<1>3. \A i \in 1 .. d : Bit(i - 1) = (c \div 2 ^ (d - i)) % 2
  <2>1. \A i \in 1 .. d : d - 1 - (i - 1) = d - i  OBVIOUS
  <2>2. QED BY <2>1
<1> HIDE DEF Bit
<1>4. IsStep(d, Nat, F)
  <2>1. ASSUME NEW arg \in (1 .. d) \X Nat
        PROVE  arg[2] + Bit(arg[1] - 1) * 2 ^ (arg[1] - 1) \in Nat
    <3>1. arg[1] \in 1 .. d /\ arg[2] \in Nat  OBVIOUS
    <3>2. Bit(arg[1] - 1) * 2 ^ (arg[1] - 1) \in Nat  BY <1>1, <3>1
    <3>3. QED BY <3>1, <3>2
  <2>2. QED BY <2>1 DEF IsStep
<1>5. \E g : Is(g)
  <2>1. \A k \in 1 .. d, a \in Nat : F[<<k, a>>] = a + Bit(k - 1) * 2 ^ (k - 1)  OBVIOUS
  <2>2. 2 ^ d \in Nat  BY PowerOfTwo
  <2> HIDE DEF F
  <2>3. PICK g : IsRecursion(d, Nat, 2 ^ d, F, g)  BY <1>4, <2>2, RecursionExists
  <2>4. g \in [0 .. d -> Nat] /\ g[0] = 2 ^ d /\ \A k \in 1 .. d : g[k] = F[<<k, g[k - 1]>>]
    BY <2>3 DEF IsRecursion
  <2>5. ASSUME NEW i \in 0 .. d
        PROVE  g[i] = IF i = 0 THEN 2 ^ d ELSE g[i - 1] + Bit(i - 1) * 2 ^ (i - 1)
    <3>1. CASE i = 0  BY <2>4, <3>1
    <3>2. CASE i # 0
      <4>1. i \in 1 .. d /\ i - 1 \in 0 .. d  BY <3>2
      <4>2. g[i - 1] \in Nat  BY <2>4, <4>1
      <4>3. g[i] = F[<<i, g[i - 1]>>]  BY <2>4, <4>1
      <4>4. F[<<i, g[i - 1]>>] = g[i - 1] + Bit(i - 1) * 2 ^ (i - 1)  BY <2>1, <4>1, <4>2
      <4>5. QED BY <3>2, <4>3, <4>4
    <3>3. QED BY <3>1, <3>2
  <2>6. g = [i \in 0 .. d |-> g[i]]  BY <2>4
  <2>7. Is(g)  BY <2>5, <2>6
  <2>8. QED BY <2>7
<1>6. Is(f)
  <2> HIDE DEF Is
  <2>1. QED BY <1>5
<1> HIDE DEF f
<1>7. \A i \in 0 .. d : f[i] = IF i = 0 THEN 2 ^ d ELSE f[i - 1] + Bit(i - 1) * 2 ^ (i - 1)
  <2>1. PICK h : h = [i \in 0 .. d |-> IF i = 0 THEN 2 ^ d
                                       ELSE f[i - 1] + Bit(i - 1) * 2 ^ (i - 1)]
    OBVIOUS
  <2>2. f = h  BY <1>6, <2>1
  <2>3. \A i \in 0 .. d : h[i] = IF i = 0 THEN 2 ^ d ELSE f[i - 1] + Bit(i - 1) * 2 ^ (i - 1)
    BY <2>1
  <2>4. QED BY <2>2, <2>3
<1>8. f[0] = 2 ^ d /\ \A i \in 1 .. d : f[i] = f[i - 1] + Bit(i - 1) * 2 ^ (i - 1)
  <2>1. 0 \in 0 .. d /\ \A i \in 1 .. d : i \in 0 .. d /\ i # 0  OBVIOUS
  <2>2. QED BY <1>7, <2>1
<1>9. QED BY <1>2, <1>3, <1>8

LEMMA PathTyped ==
  ASSUME NEW d \in Nat, NEW c \in Nat, NEW i \in 0 .. d PROVE PathOf(d, c)[i] \in Nat
<1> DEFINE S == {k \in Nat : k <= d => PathOf(d, c)[k] \in Nat}
<1>1. 0 \in S  BY PathSteps, PowerOfTwo
<1>2. ASSUME NEW k \in S PROVE k + 1 \in S
  <2>1. SUFFICES ASSUME k + 1 <= d PROVE PathOf(d, c)[k + 1] \in Nat  OBVIOUS
  <2>2. PICK j \in 1 .. d : j = k + 1  BY <2>1
  <2>3. PathOf(d, c)[k] \in Nat /\ j - 1 = k /\ d - j \in Nat /\ j - 1 \in Nat  BY <2>1, <2>2
  <2>4. (c \div 2 ^ (d - j)) % 2 \in Nat /\ 2 ^ (j - 1) \in Nat
    BY <2>3, BitOfDigit, PowerOfTwo
  <2>5. ((c \div 2 ^ (d - j)) % 2) * 2 ^ (j - 1) \in Nat
    <3>1. \A a \in Nat, b \in Nat : a * b \in Nat  OBVIOUS
    <3>2. QED BY <2>4, <3>1
  <2>6. PathOf(d, c)[j] = PathOf(d, c)[j - 1] + ((c \div 2 ^ (d - j)) % 2) * 2 ^ (j - 1)
    BY PathSteps
  <2>7. QED BY <2>2, <2>3, <2>5, <2>6
<1>3. S = Nat
  <2>1. S \in SUBSET Nat  OBVIOUS
  <2> HIDE DEF S
  <2>2. QED BY <1>1, <1>2, <2>1, SetInduction
<1>4. i \in S
  <2> HIDE DEF S
  <2>1. QED BY <1>3
<1>5. QED BY <1>4

(* One bit more. *)
LEMMA PathGrows ==
  ASSUME NEW d \in Nat, NEW c \in Nat, NEW y \in {0, 1}
  PROVE  PathOf(d + 1, 2 * c + y)[d + 1] = PathOf(d, c)[d] + (y + 1) * 2 ^ d
<1> DEFINE new == PathOf(d + 1, 2 * c + y)
           old == PathOf(d, c)
           S == {k \in Nat : k <= d => new[k] = old[k] + 2 ^ d}
<1>1. PICK D \in Nat \ {0} : D = 2 ^ d /\ 2 ^ (d + 1) = 2 * D  BY PowerOfTwo
<1>2. /\ d + 1 \in Nat /\ 2 * c + y \in Nat  OBVIOUS
<1>3. new[0] = 2 ^ (d + 1) /\ \A i \in 1 .. d + 1 :
        new[i] = new[i - 1] + (((2 * c + y) \div 2 ^ (d + 1 - i)) % 2) * 2 ^ (i - 1)
  BY <1>2, PathSteps
<1>4. old[0] = 2 ^ d /\ \A i \in 1 .. d :
        old[i] = old[i - 1] + ((c \div 2 ^ (d - i)) % 2) * 2 ^ (i - 1)
  BY PathSteps
<1>5. \A i \in 0 .. d : old[i] \in Nat  BY PathTyped
<1> HIDE DEF new, old
<1>6. 0 \in S  BY <1>1, <1>3, <1>4
<1>7. ASSUME NEW k \in S PROVE k + 1 \in S
  <2>1. SUFFICES ASSUME k + 1 <= d PROVE new[k + 1] = old[k + 1] + 2 ^ d  OBVIOUS
  <2>2. PICK j \in 1 .. d : j = k + 1  BY <2>1
  <2>3. j \in 1 .. d + 1 /\ j - 1 = k /\ d - j \in Nat /\ d + 1 - j = (d - j) + 1 /\ k \in 0 .. d
    BY <2>1, <2>2
  <2>4. (2 * c + y) \div 2 ^ (d + 1 - j) = c \div 2 ^ (d - j)  BY <2>3, HalfDiv
  <2>5. PICK b \in Nat : b = ((c \div 2 ^ (d - j)) % 2) * 2 ^ (j - 1)
    <3>1. (c \div 2 ^ (d - j)) % 2 \in Nat  BY <2>3, BitOfDigit
    <3>2. 2 ^ (j - 1) \in Nat  BY <2>3, PowerOfTwo
    <3>3. \A a \in Nat, e \in Nat : a * e \in Nat  OBVIOUS
    <3>4. QED BY <3>1, <3>2, <3>3
  <2>6. new[j] = new[k] + b  BY <1>3, <2>3, <2>4, <2>5
  <2>7. old[j] = old[k] + b  BY <1>4, <2>3, <2>5
  <2>8. new[k] = old[k] + 2 ^ d  BY <2>1, <2>3
  <2>9. QED BY <1>1, <1>5, <2>2, <2>3, <2>6, <2>7, <2>8
<1>8. S = Nat
  <2>1. S \in SUBSET Nat  OBVIOUS
  <2> HIDE DEF S
  <2>2. QED BY <1>6, <1>7, <2>1, SetInduction
<1>9. new[d] = old[d] + 2 ^ d
  <2>1. d \in S
    <3> HIDE DEF S
    <3>1. QED BY <1>8
  <2>2. QED BY <2>1
<1>10. new[d + 1] = new[d] + y * 2 ^ d
  <2>1. d + 1 \in 1 .. d + 1 /\ (d + 1) - 1 = d /\ d + 1 - (d + 1) = 0  OBVIOUS
  <2>2. ((2 * c + y) \div 2 ^ 0) % 2 = y  OBVIOUS
  <2>3. QED BY <1>3, <2>1, <2>2
<1>11. QED BY <1>1, <1>5, <1>9, <1>10 DEF new, old

-----------------------------------------------------------------------------
(* StatePerPath of any model.                                              *)
OnPath(p) ==
  \A k \in Orders : p.cp[k] # Unset =>
    p.cp[k].at = PathOf(p.bcount % Nibble, p.c0)[p.bcount % Nibble]

(* The model of a run between two bits: c0 is a 1 and the bits so far, the *)
(* pointers are where these lead, and a match that is left has followed them. *)
Ready(p) ==
  /\ p \in Predictor
  /\ p.bcount \in 0 .. ByteBits - 1
  /\ 2 ^ p.bcount <= p.c0 /\ p.c0 < 2 ^ (p.bcount + 1)
  /\ OnPath(p)
  /\ Agrees(p.buf, p.pos, p.match, p.len)
  /\ p.len > 0 => Follows(p)

LEMMA NewIsReady == Ready(NewPredictor)
<1> DEFINE p == NewPredictor
<1>1. p \in Predictor
  <2>1. NewSlot(0) \in SlotValue  BY SizeFacts DEF NewSlot, SlotValue
  <2>2. Unset \in Pointer  BY SizeFacts DEF Pointer, Unset, Slot
  <2>3. PICK t \in Table : t = [s \in 0 .. Slots - 1 |-> NewSlot(0)]  BY <2>1 DEF Table, Slot
  <2>4. PICK c \in [Orders -> Pointer] : c = [k \in Orders |-> Unset]  BY <2>2
  <2>5. PICK d \in [1 .. ContextBytes -> Octet] : d = [k \in 1 .. ContextBytes |-> 0]
    BY SizeFacts
  <2>6. PICK b \in [0 .. RingSize - 1 -> Octet] : b = [i \in 0 .. RingSize - 1 |-> 0]
    BY SizeFacts
  <2>7. PICK h \in [0 .. HashSize - 1 -> 0 .. RingSize - 1] : h = [i \in 0 .. HashSize - 1 |-> 0]
    <3>1. 0 \in 0 .. RingSize - 1  BY SizeFacts
    <3>2. [i \in 0 .. HashSize - 1 |-> 0] \in [0 .. HashSize - 1 -> 0 .. RingSize - 1]  BY <3>1
    <3>3. QED BY <3>2
  <2>8. p = [ht |-> t, cp |-> c, c0 |-> 1, bcount |-> 0, c4 |-> d, buf |-> b, pos |-> 0,
             h1 |-> 0, h2 |-> 0, heads |-> h, match |-> 0, len |-> 0]
    BY <2>3, <2>4, <2>5, <2>6, <2>7 DEF NewPredictor
  <2>9. 0 \in 0 .. RingSize - 1 /\ 0 \in 0 .. HashSize - 1  BY SizeFacts
  <2> HIDE DEF p
  <2>10. QED BY <2>8, <2>9 DEF Predictor
<1>2. p.c0 = 1 /\ p.bcount = 0 /\ p.len = 0  BY DEF NewPredictor
<1>3. OnPath(p)
  <2>1. \A k \in Orders : p.cp[k] = Unset  BY DEF NewPredictor
  <2>2. QED BY <2>1 DEF OnPath
<1>4. 2 ^ 0 = 1 /\ 2 ^ (0 + 1) = 2
  <2>1. 2 ^ 0 = 1  OBVIOUS
  <2>2. 0 \in Nat  OBVIOUS
  <2>3. QED BY <2>1, <2>2, PowerOfTwo
<1> HIDE DEF p
<1>5. Agrees(p.buf, p.pos, p.match, p.len)  BY <1>2 DEF Agrees
<1>6. 0 \in 0 .. ByteBits - 1  BY SizeFacts
<1>7. Ready(p)  BY <1>1, <1>2, <1>3, <1>4, <1>5, <1>6 DEF Ready
<1>8. QED BY <1>7 DEF p

Counted(p, t, v, b) == [p EXCEPT !.ht = t, !.c0 = v, !.bcount = b]

LEMMA WithCount ==
  ASSUME NEW p \in Predictor, NEW t \in Table, NEW v \in Nat, NEW b \in Nat,
         NEW q, q = Counted(p, t, v, b)
  PROVE  /\ q \in Predictor /\ q.c0 = v /\ q.bcount = b
         /\ q.c4 = p.c4 /\ q.buf = p.buf /\ q.pos = p.pos /\ q.cp = p.cp
         /\ SameMatch(q, p)
BY DEF Predictor, SameMatch, Counted

(* The last byte is complete: the model before the next is looked up. *)
Moved(p) ==
  [p EXCEPT
    !.h1 = (@ * Factor1 + p.c0) % HashSize, !.h2 = (@ * Factor2 + p.c0) % HashSize,
    !.buf[p.pos] = p.c0 - Octets, !.pos = Ring(@ + 1),
    !.c4 = Append(Tail(@), p.c0 - Octets), !.c0 = 1, !.bcount = 0]

LEMMA MovedTyped ==
  ASSUME NEW p \in Predictor, p.c0 - Octets \in Octet
  PROVE  LET q == Moved(p)
         IN  /\ EndByte(p) = Find(q, 0) /\ q \in Predictor
             /\ q.c0 = 1 /\ q.bcount = 0
             /\ q.buf = [p.buf EXCEPT ![p.pos] = p.c0 - Octets] /\ q.pos = Ring(p.pos + 1)
             /\ q.match = p.match /\ q.len = p.len
<1> DEFINE q == Moved(p)
           c == p.c0 - Octets
           a == (p.h1 * Factor1 + p.c0) % HashSize
           b == (p.h2 * Factor2 + p.c0) % HashSize
           e == [p.buf EXCEPT ![p.pos] = c]
           w == Ring(p.pos + 1)
           z == Append(Tail(p.c4), c)
<1>1. EndByte(p) = Find(q, 0)  BY DEF EndByte, Moved
<1>2. /\ p.h1 \in 0 .. HashSize - 1 /\ p.h2 \in 0 .. HashSize - 1 /\ p.c0 \in Nat
      /\ p.buf \in [0 .. RingSize - 1 -> Octet] /\ p.pos \in 0 .. RingSize - 1
      /\ p.c4 \in [1 .. ContextBytes -> Octet]
  BY DEF Predictor
<1>3. a \in 0 .. HashSize - 1 /\ b \in 0 .. HashSize - 1
  <2>1. Factor1 \in Nat /\ Factor2 \in Nat  BY SizeAssumption
  <2>2. p.h1 * Factor1 + p.c0 \in Nat /\ p.h2 * Factor2 + p.c0 \in Nat
    <3>1. \A i \in Nat, j \in Nat, k \in Nat : i * j + k \in Nat  OBVIOUS
    <3>2. p.h1 \in Nat /\ p.h2 \in Nat  BY <1>2
    <3>3. QED BY <1>2, <2>1, <3>1, <3>2
  <2>3. QED BY <2>2, SizeFacts, DivMod
<1>4. e \in [0 .. RingSize - 1 -> Octet]  BY <1>2
<1>5. w \in 0 .. RingSize - 1
  <2>1. p.pos + 1 \in Int  BY <1>2, SizeFacts
  <2>2. QED BY <2>1, RingIn DEF RingIndex
<1>6. z \in [1 .. ContextBytes -> Octet]
  <2>1. ContextBytes \in Nat \ {0}  BY SizeAssumption
  <2>2. p.c4 \in Seq(Octet) /\ Len(p.c4) = ContextBytes  BY <1>2, <2>1
  <2>3. Tail(p.c4) \in Seq(Octet) /\ Len(Tail(p.c4)) = ContextBytes - 1  BY <2>1, <2>2
  <2>4. z \in Seq(Octet) /\ Len(z) = ContextBytes  BY <2>1, <2>3
  <2> HIDE DEF z
  <2>5. QED BY <2>1, <2>4
<1>7. q = [p EXCEPT !.h1 = a, !.h2 = b, !.buf = e, !.pos = w, !.c4 = z, !.c0 = 1, !.bcount = 0]
  BY <1>2 DEF Moved, Predictor
<1> HIDE DEF q, a, b, e, w, z
<1>8. /\ q \in Predictor /\ q.c0 = 1 /\ q.bcount = 0 /\ q.buf = e /\ q.pos = w
      /\ q.match = p.match /\ q.len = p.len
  BY <1>3, <1>4, <1>5, <1>6, <1>7 DEF Predictor
<1>9. QED BY <1>1, <1>8 DEF q, e, w

-----------------------------------------------------------------------------
(* How far the byte is. *)
LEMMA BitsSoFar ==
  ASSUME NEW b \in 0 .. ByteBits - 1, NEW c \in Nat, NEW y \in {0, 1},
         2 ^ b <= c, c < 2 ^ (b + 1), NEW z, z = 2 * c + y
  PROVE  /\ c \in Octet /\ z \in Nat
         /\ 2 ^ (b + 1) <= z /\ z < 2 ^ (b + 2)
         /\ z >= Octets => b = ByteBits - 1 /\ z - Octets \in Octet
         /\ z < Octets => b + 1 \in 0 .. ByteBits - 1 /\ z \in Octet
<1>1. ByteBits \in Nat \ {0} /\ Octets \in Nat /\ Octets = 2 ^ ByteBits /\ Octet = 0 .. Octets - 1
  BY SizeFacts DEF Octets
<1>2. b \in Nat /\ b + 1 \in Nat /\ (b + 1) + 1 = b + 2  BY <1>1
<1>3. PICK D \in Nat \ {0} : D = 2 ^ b /\ 2 ^ (b + 1) = 2 * D /\ 2 ^ (b + 2) = 4 * D
  <2>1. 2 ^ b \in Nat \ {0} /\ 2 ^ (b + 1) = 2 * 2 ^ b  BY <1>2, PowerOfTwo
  <2>2. 2 ^ ((b + 1) + 1) = 2 * 2 ^ (b + 1)  BY <1>2, PowerOfTwo
  <2>3. QED BY <1>2, <2>1, <2>2
<1>4. \A k \in Nat, m \in Nat : k <= m => 2 ^ k <= 2 ^ m
  <2>1. ASSUME NEW k \in Nat PROVE \A m \in Nat : k <= m => 2 ^ k <= 2 ^ m
    <3> DEFINE S == {e \in Nat : 2 ^ k <= 2 ^ (k + e)}
    <3>1. 0 \in S  BY PowerOfTwo
    <3>2. ASSUME NEW e \in S PROVE e + 1 \in S
      <4>1. k + e \in Nat /\ k + (e + 1) = (k + e) + 1  OBVIOUS
      <4>2. 2 ^ (k + e) \in Nat /\ 2 ^ ((k + e) + 1) = 2 * 2 ^ (k + e)  BY <4>1, PowerOfTwo
      <4>3. 2 ^ k \in Nat  BY PowerOfTwo
      <4>4. QED BY <4>1, <4>2, <4>3
    <3>3. S = Nat
      <4>1. S \in SUBSET Nat  OBVIOUS
      <4> HIDE DEF S
      <4>2. QED BY <3>1, <3>2, <4>1, SetInduction
    <3>4. ASSUME NEW m \in Nat, k <= m PROVE 2 ^ k <= 2 ^ m
      <4>1. m - k \in Nat /\ k + (m - k) = m  BY <3>4
      <4>2. m - k \in S
        <5> HIDE DEF S
        <5>1. QED BY <3>3, <4>1
      <4>3. 2 ^ k <= 2 ^ (k + (m - k))  BY <4>2
      <4>4. QED BY <4>1, <4>3
    <3>5. QED BY <3>4
  <2>2. QED BY <2>1
<1>5. 2 * D <= Octets
  <2>1. b + 1 <= ByteBits  BY <1>1
  <2>2. 2 ^ (b + 1) <= 2 ^ ByteBits  BY <1>1, <1>2, <1>4, <2>1
  <2>3. QED BY <1>1, <1>3, <2>2
<1>6. c \in Octet  BY <1>1, <1>3, <1>5
<1>7. 2 * D <= 2 * c + y /\ 2 * c + y < 4 * D  BY <1>3
<1>8. CASE b = ByteBits - 1
  <2>1. Octets = 2 * D  BY <1>1, <1>3, <1>8
  <2>2. 2 * c + y >= Octets /\ 2 * c + y - Octets < Octets  BY <1>1, <1>3, <1>7, <2>1
  <2>3. QED BY <1>1, <1>3, <1>6, <1>7, <1>8, <2>2
<1>9. CASE b # ByteBits - 1
  <2>1. b + 2 \in Nat /\ b + 2 <= ByteBits  BY <1>1, <1>9
  <2>2. 2 ^ (b + 2) <= 2 ^ ByteBits  BY <1>1, <1>4, <2>1
  <2>3. 4 * D <= Octets  BY <1>1, <1>3, <2>2
  <2>4. 2 * c + y < Octets  BY <1>1, <1>3, <1>7, <2>3
  <2>5. QED BY <1>1, <1>3, <1>6, <1>7, <2>1, <2>4
<1>10. QED BY <1>8, <1>9

(* At the end of a byte the match has followed all but its last bit. *)
LEMMA MovedAgrees ==
  ASSUME NEW p \in Predictor, p.c0 - Octets \in Octet,
         Agrees(p.buf, p.pos, p.match, p.len),
         p.len > 0 => (p.c0 - Octets) \div 2 = p.buf[p.match] \div 2,
         NEW q, q.buf = [p.buf EXCEPT ![p.pos] = p.c0 - Octets], q.pos = Ring(p.pos + 1),
         q.match = p.match, q.len = p.len, q.len > 0
  PROVE  Agrees(q.buf, q.pos, Ring(q.match + 1), q.len + 1)
<1> DEFINE c == p.c0 - Octets
           m == p.match
           w == p.pos
           n == Ring(m + 1)
           v == Ring(w + 1)
<1>1. /\ m \in RingIndex /\ w \in RingIndex /\ p.buf \in [RingIndex -> Octet] /\ p.len \in Nat
  BY DEF Predictor, RingIndex
<1>2. n \in RingIndex /\ v \in RingIndex
  <2>1. m + 1 \in Int /\ w + 1 \in Int  BY <1>1 DEF RingIndex
  <2>2. QED BY <2>1, RingIn
<1>3. /\ Ring(n - v) = Ring(m - w)
      /\ Ring(n - 1) = m /\ Ring(v - 1) = w
      /\ Ring(m - w) > 0 => m # w
      /\ \A j \in Nat \ {0} : j < Ring(m - w) =>
           /\ Ring(n - 1 - j) = Ring(m - 1 - (j - 1)) /\ Ring(v - 1 - j) = Ring(w - 1 - (j - 1))
           /\ Ring(n - 1 - j) # w /\ Ring(v - 1 - j) # w
  BY <1>1, <1>2, RingMoves
<1>4. PICK e : e = q.buf  OBVIOUS
<1>5. e[w] = c /\ \A i \in RingIndex : i # w => e[i] = p.buf[i]  BY <1>1, <1>4
<1>6. m \in Int /\ w \in Int /\ n \in Int /\ v \in Int /\ Ring(m - w) \in Nat
  <2>1. m \in Int /\ w \in Int /\ n \in Int /\ v \in Int  BY <1>1, <1>2 DEF RingIndex
  <2>2. m - w \in Int  BY <2>1
  <2>3. Ring(m - w) \in RingIndex  BY <2>2, RingIn
  <2>4. QED BY <2>1, <2>3 DEF RingIndex
<1> HIDE DEF n, v
<1>7. ASSUME NEW j \in 0 .. p.len, j < Ring(n - v)
      PROVE  e[Ring(n - 1 - j)] \div 2 = e[Ring(v - 1 - j)] \div 2
  <2>1. CASE j = 0
    <3>1. n - 1 - j = n - 1 /\ v - 1 - j = v - 1  BY <1>6, <2>1
    <3>2. m # w  BY <1>3, <1>6, <1>7, <2>1
    <3>3. e[m] = p.buf[m]  BY <1>1, <1>5, <3>2
    <3>4. QED BY <1>3, <1>5, <3>1, <3>3
  <2>2. CASE j # 0
    <3>1. j \in Nat \ {0} /\ j < Ring(m - w)  BY <1>1, <1>3, <1>7, <2>2
    <3>2. /\ Ring(n - 1 - j) = Ring(m - 1 - (j - 1)) /\ Ring(v - 1 - j) = Ring(w - 1 - (j - 1))
          /\ Ring(n - 1 - j) # w /\ Ring(v - 1 - j) # w
      BY <1>3, <3>1
    <3>3. Ring(n - 1 - j) \in RingIndex /\ Ring(v - 1 - j) \in RingIndex
      <4>1. n - 1 - j \in Int /\ v - 1 - j \in Int  BY <1>6, <3>1
      <4>2. QED BY <4>1, RingIn
    <3>4. e[Ring(n - 1 - j)] = p.buf[Ring(m - 1 - (j - 1))]
          /\ e[Ring(v - 1 - j)] = p.buf[Ring(w - 1 - (j - 1))]
      BY <1>5, <3>2, <3>3
    <3>5. j - 1 \in 0 .. p.len - 1 /\ j - 1 < Ring(m - w)  BY <1>1, <1>6, <1>7, <3>1
    <3>6. QED BY <3>4, <3>5 DEF Agrees
  <2>3. QED BY <2>1, <2>2
<1>8. \A j \in 0 .. (q.len + 1) - 1 : j \in 0 .. p.len  BY <1>1
<1>9. Agrees(e, v, n, q.len + 1)  BY <1>7, <1>8 DEF Agrees
<1>10. QED BY <1>4, <1>9 DEF n, v

-----------------------------------------------------------------------------
(* update(): at the end of a byte, at the half and in between.             *)
LEMMA UpdateReady ==
  ASSUME NEW p, Ready(p), NEW y \in {0, 1}
  PROVE  Ready(Update(p, y))
<1> DEFINE learned == [Learn(p, y) EXCEPT !.c0 = 2 * @ + y]
           counted == [learned EXCEPT !.bcount = @ + 1]
           q == IF learned.c0 >= Octets THEN EndByte(learned)
                ELSE IF counted.bcount = Nibble THEN Find(counted, counted.c0)
                ELSE Advance(counted, y)
           u == Update(p, y)
           b == p.bcount
           c == 2 * p.c0 + y
<1>1. u = MatchP(q)  BY DEF Update
<1>2. /\ p \in Predictor /\ b \in 0 .. ByteBits - 1 /\ b \in Nat /\ p.c0 \in Nat /\ c \in Nat
      /\ p.buf \in [RingIndex -> Octet] /\ p.match \in RingIndex /\ p.len \in Nat
  <2>1. p \in Predictor /\ b \in 0 .. ByteBits - 1  BY DEF Ready
  <2>2. b \in Nat /\ p.c0 \in Nat  BY <2>1 DEF Predictor
  <2>3. c \in Nat  BY <2>2
  <2>4. p.buf \in [RingIndex -> Octet] /\ p.match \in RingIndex /\ p.len \in Nat
    BY <2>1 DEF Predictor, RingIndex
  <2>5. QED BY <2>1, <2>2, <2>3, <2>4
<1>3. PICK t \in Table : Learn(p, y) = [p EXCEPT !.ht = t]  BY <1>2, LearnTyped
<1>4. learned = Counted(p, t, c, b) /\ counted = Counted(p, t, c, b + 1)
  BY <1>2, <1>3 DEF Counted, Predictor
<1> HIDE DEF learned, counted, u
<1>5. /\ learned \in Predictor /\ learned.c0 = c /\ learned.bcount = b
      /\ learned.buf = p.buf /\ learned.pos = p.pos /\ learned.cp = p.cp
      /\ SameMatch(learned, p)
  <2>1. p \in Predictor /\ b \in Nat /\ c \in Nat  BY <1>2
  <2>2. learned = Counted(p, t, c, b)  BY <1>4
  <2> HIDE DEF b, c, q
  <2>3. QED BY <2>1, <2>2, WithCount
<1>6. /\ counted \in Predictor /\ counted.c0 = c /\ counted.bcount = b + 1
      /\ counted.buf = p.buf /\ counted.pos = p.pos /\ counted.cp = p.cp
      /\ SameMatch(counted, p)
  <2>1. PICK e \in Nat : e = b + 1  BY <1>2
  <2>2. counted = Counted(p, t, c, e)  BY <1>4, <2>1
  <2>3. /\ counted \in Predictor /\ counted.c0 = c /\ counted.bcount = e
        /\ counted.buf = p.buf /\ counted.pos = p.pos /\ counted.cp = p.cp
        /\ SameMatch(counted, p)
    <3>1. p \in Predictor /\ c \in Nat  BY <1>2
    <3> HIDE DEF b, c, q
    <3>2. QED BY <2>2, <3>1, WithCount
  <2>4. QED BY <2>1, <2>3
<1>7. /\ 2 ^ (b + 1) <= c /\ c < 2 ^ (b + 2)
      /\ c >= Octets => b = ByteBits - 1 /\ c - Octets \in Octet
      /\ c < Octets => b + 1 \in 0 .. ByteBits - 1 /\ c \in Octet
  <2>1. 2 ^ b <= p.c0 /\ p.c0 < 2 ^ (b + 1)  BY DEF Ready
  <2>2. c = 2 * p.c0 + y  OBVIOUS
  <2> HIDE DEF b, c, q
  <2>3. QED BY <1>2, <2>1, <2>2, BitsSoFar
<1>8. Nibble \in Nat \ {0} /\ ByteBits = 2 * Nibble /\ Octets \in Nat /\ Octets = 2 ^ ByteBits
  BY SizeFacts DEF Octets
<1>9. 0 % Nibble = 0 /\ Nibble % Nibble = 0
  <2>1. 0 \in 0 .. Nibble - 1  BY <1>8
  <2>2. 0 % Nibble = 0 /\ (0 + Nibble) % Nibble = 0 % Nibble  BY <1>8, <2>1, ModSmall, ModAround
  <2>3. 0 + Nibble = Nibble  BY <1>8
  <2>4. QED BY <2>2, <2>3
<1>10. \A a \in Nat : PathOf(0, a)[0] = 1
  <2>1. 2 ^ 0 = 1  OBVIOUS
  <2>2. QED BY <2>1, PathSteps
<1> HIDE DEF c
<1>11. /\ q \in Predictor /\ q.bcount \in 0 .. ByteBits - 1
       /\ 2 ^ q.bcount <= q.c0 /\ q.c0 < 2 ^ (q.bcount + 1) /\ OnPath(q)
       /\ q.bcount = 0 /\ q.len > 0 => Agrees(q.buf, q.pos, Ring(q.match + 1), q.len + 1)
       /\ q.bcount # 0 => Agrees(q.buf, q.pos, q.match, q.len)
  <2>1. CASE c >= Octets
    <3> DEFINE m == Moved(learned)
    <3>1. learned.c0 - Octets \in Octet  BY <1>5, <1>7, <2>1
    <3>2. /\ EndByte(learned) = Find(m, 0) /\ m \in Predictor
          /\ m.c0 = 1 /\ m.bcount = 0
          /\ m.buf = [learned.buf EXCEPT ![learned.pos] = learned.c0 - Octets]
          /\ m.pos = Ring(learned.pos + 1)
          /\ m.match = learned.match /\ m.len = learned.len
      BY <1>5, <3>1, MovedTyped
    <3> HIDE DEF m
    <3>3. q = Find(m, 0)  BY <1>5, <2>1, <3>2
    <3>4. /\ q \in Predictor /\ SameText(q, m) /\ SameMatch(q, m)
          /\ \A k \in Orders : q.cp[k].at = 1
      BY <3>2, <3>3, FindTyped, SizeFacts
    <3> HIDE DEF q
    <3>5. q.c0 = 1 /\ q.bcount = 0  BY <3>2, <3>4 DEF SameText
    <3>6. OnPath(q)  BY <1>9, <1>10, <3>4, <3>5 DEF OnPath
    <3>7. 2 ^ 0 = 1 /\ 2 ^ (0 + 1) = 2
      <4>1. 2 ^ 0 = 1 /\ 0 \in Nat  OBVIOUS
      <4>2. QED BY <4>1, PowerOfTwo
    <3>8. 0 \in 0 .. ByteBits - 1  BY <1>8
    <3>9. Agrees(learned.buf, learned.pos, learned.match, learned.len)
      BY <1>5 DEF Ready, SameMatch
    <3>10. learned.len > 0 => (learned.c0 - Octets) \div 2 = learned.buf[learned.match] \div 2
      <4>1. SUFFICES ASSUME p.len > 0
                     PROVE  (c - Octets) \div 2 = p.buf[p.match] \div 2
        BY <1>5 DEF SameMatch
      <4>2. b = ByteBits - 1 /\ ByteBits - b = 1 /\ b + 1 = ByteBits  BY <1>2, <1>7, <1>8, <2>1
      <4>3. 2 ^ 1 = 2
        <5>1. 2 ^ (0 + 1) = 2 /\ 0 + 1 = 1  BY <3>7
        <5>2. QED BY <5>1
      <4>4. (p.buf[p.match] + Octets) \div 2 = p.c0
        BY <4>1, <4>2, <4>3 DEF Ready, Follows
      <4>5. p.buf[p.match] \in Nat
        <5>1. p.buf[p.match] \in Octet  BY <1>2
        <5>2. QED BY <5>1, SizeFacts
      <4>6. PICK h \in Nat : Octets = 2 * h  BY <1>2, <1>8, <4>2, PowerOfTwo
      <4>7. PICK a \in Nat : a = p.buf[p.match]  BY <4>5
      <4>8. (a + 2 * h) \div 2 = p.c0  BY <4>4, <4>6, <4>7
      <4>9. p.c0 = a \div 2 + h  BY <1>2, <4>8
      <4>10. (2 * p.c0 + y - 2 * h) \div 2 = p.c0 - h  BY <1>2
      <4>11. QED BY <1>2, <4>6, <4>7, <4>9, <4>10 DEF c
    <3>11. m.len > 0 => Agrees(m.buf, m.pos, Ring(m.match + 1), m.len + 1)
      BY <1>5, <3>1, <3>2, <3>9, <3>10, MovedAgrees
    <3>12. q.len > 0 => Agrees(q.buf, q.pos, Ring(q.match + 1), q.len + 1)
      BY <3>4, <3>11 DEF SameText, SameMatch
    <3>13. QED BY <3>4, <3>5, <3>6, <3>7, <3>8, <3>12
  <2>2. CASE ~(c >= Octets)
    <3>1. c < Octets /\ b + 1 \in 0 .. ByteBits - 1 /\ c \in Octet /\ b + 1 # 0 /\ b + 1 \in Nat
      BY <1>2, <1>7, <1>8, <2>2
    <3>2. q = IF counted.bcount = Nibble THEN Find(counted, counted.c0) ELSE Advance(counted, y)
      BY <1>5, <2>2
    <3> HIDE DEF q
    <3>3. /\ q \in Predictor /\ SameText(q, counted) /\ SameMatch(q, counted) /\ OnPath(q)
      <4>1. CASE counted.bcount = Nibble
        <5>1. q = Find(counted, c)  BY <1>6, <3>2, <4>1
        <5>2. /\ q \in Predictor /\ SameText(q, counted) /\ SameMatch(q, counted)
              /\ \A k \in Orders : q.cp[k].at = 1
          BY <1>6, <3>1, <5>1, FindTyped
        <5>3. q.bcount = Nibble /\ q.c0 \in Nat  BY <1>2, <1>6, <4>1, <5>2 DEF SameText
        <5>4. OnPath(q)  BY <1>9, <1>10, <5>2, <5>3 DEF OnPath
        <5>5. QED BY <5>2, <5>4
      <4>2. CASE counted.bcount # Nibble
        <5>1. q = Advance(counted, y)  BY <3>2, <4>2
        <5>2. PICK d \in Nat : d = b % Nibble /\ (b + 1) % Nibble = d + 1
          <6>1. b % Nibble \in 0 .. Nibble - 1  BY <1>2, <1>8, DivMod
          <6>2. (b + 1) % Nibble = IF (b % Nibble) + 1 = Nibble THEN 0 ELSE (b % Nibble) + 1
            BY <1>2, <1>8, ModNext
          <6>3. (b % Nibble) + 1 # Nibble
            <7>1. b + 1 # Nibble /\ b + 1 < 2 * Nibble  BY <1>6, <1>8, <3>1, <4>2
            <7>2. b % Nibble = IF b < 0 THEN b + Nibble ELSE IF b < Nibble THEN b ELSE b - Nibble
              <8>1. b \in Int /\ -Nibble <= b /\ b < 2 * Nibble  BY <1>2, <1>8, <7>1
              <8> HIDE DEF b
              <8>2. QED BY <1>8, <8>1, ModAbout
            <7>3. QED BY <1>2, <1>8, <7>1, <7>2
          <6>4. QED BY <6>1, <6>2, <6>3
        <5>3. (counted.bcount % Nibble) - 1 = d  BY <1>6, <5>2
        <5>4. /\ q \in Predictor /\ SameText(q, counted) /\ SameMatch(q, counted)
              /\ \A k \in Orders :
                   q.cp[k] = Unset
                   \/ (counted.cp[k] # Unset /\ q.cp[k].at = counted.cp[k].at + (y + 1) * 2 ^ d)
          BY <1>6, <5>1, <5>3, AdvanceTyped
        <5>5. q.bcount % Nibble = d + 1 /\ q.c0 = 2 * p.c0 + y
          BY <1>6, <5>2, <5>4 DEF SameText, c
        <5>6. PathOf(d + 1, 2 * p.c0 + y)[d + 1] = PathOf(d, p.c0)[d] + (y + 1) * 2 ^ d
          BY <1>2, PathGrows
        <5>7. ASSUME NEW k \in Orders, q.cp[k] # Unset
              PROVE  q.cp[k].at = PathOf(d + 1, 2 * p.c0 + y)[d + 1]
          <6>1. p.cp[k] # Unset /\ q.cp[k].at = p.cp[k].at + (y + 1) * 2 ^ d
            BY <1>6, <5>4, <5>7
          <6>2. p.cp[k].at = PathOf(d, p.c0)[d]  BY <5>2, <6>1 DEF Ready, OnPath
          <6>3. QED BY <5>6, <6>1, <6>2
        <5>8. OnPath(q)  BY <5>5, <5>7 DEF OnPath
        <5>9. QED BY <5>4, <5>8
      <4>3. QED BY <4>1, <4>2
    <3>4. q.bcount = b + 1 /\ q.c0 = c  BY <1>6, <3>3 DEF SameText
    <3>5. 2 ^ (b + 1) <= c /\ c < 2 ^ ((b + 1) + 1)
      <4>1. (b + 1) + 1 = b + 2  BY <1>2
      <4>2. QED BY <1>7, <4>1
    <3>6. Agrees(q.buf, q.pos, q.match, q.len)
      BY <1>6, <3>3 DEF Ready, SameText, SameMatch
    <3>7. QED BY <3>1, <3>3, <3>4, <3>5, <3>6
  <2>3. QED BY <2>1, <2>2
<1> HIDE DEF q
<1>12. /\ u \in Predictor /\ SameText(u, q) /\ u.cp = q.cp
       /\ Agrees(u.buf, u.pos, u.match, u.len)
       /\ u.len > 0 => Follows(u)
  BY <1>1, <1>11, MatchPAgrees
<1>13. OnPath(u)  BY <1>11, <1>12 DEF OnPath, SameText
<1>14. Ready(u)  BY <1>11, <1>12, <1>13 DEF Ready, SameText
<1>15. QED BY <1>14 DEF u

-----------------------------------------------------------------------------
(* The model of the run, which the bits of a file drive.                   *)
PInv == file \in Files /\ Ready(pd)

LEMMA InitPInv == Init => PInv
BY NewIsReady DEF Init, PInv

LEMMA NextPInv == IInv /\ PInv /\ [Next]_vars => PInv'
<1> SUFFICES ASSUME IInv, PInv, [Next]_vars PROVE PInv'  OBVIOUS
<1> USE DEF PInv
<1>1. CASE Encode
  <2>1. BitAt(sent + 1) \in {0, 1}
    <3>1. sent \in Nat  BY DEF IInv
    <3>2. sent < Bits  BY <1>1 DEF Encode
    <3>3. Bits \in Int
      <4>1. file \in Seq(0 .. Octets - 1)  BY WidthAssumption
      <4>2. Len(file) \in Nat  BY <4>1
      <4>3. QED BY <4>2, SizeFacts DEF Bits
    <3>4. sent + 1 \in 1 .. Bits  BY <3>1, <3>2, <3>3
    <3>5. QED BY <3>4, BitIsBit
  <2>2. pd' = Update(pd, BitAt(sent + 1))  BY <1>1 DEF Encode, Predict
  <2>3. QED BY <1>1, <2>1, <2>2, UpdateReady DEF Encode
<1>2. CASE EncodeShift  BY <1>2 DEF EncodeShift
<1>3. CASE Flush  BY <1>3, NewIsReady DEF Flush
<1>4. CASE Decode
  <2>1. PICK y \in {0, 1} : pd' = Update(pd, y)  BY <1>4 DEF Decode, Repredict
  <2>2. QED BY <1>4, <2>1, UpdateReady DEF Decode
<1>5. CASE DecodeShift  BY <1>5 DEF DecodeShift
<1>6. CASE Finish  BY <1>6 DEF Finish
<1>7. CASE UNCHANGED vars  BY <1>7 DEF vars
<1>8. QED BY <1>1, <1>2, <1>3, <1>4, <1>5, <1>6, <1>7 DEF Next

-----------------------------------------------------------------------------
LEMMA AlwaysPInv == Spec => [](IInv /\ PInv)
<1>1. Init => IInv /\ PInv  BY InitIInv, InitPInv
<1>2. IInv /\ PInv /\ [Next]_vars => (IInv /\ PInv)'  BY NextIInv, NextPInv
<1>3. QED BY <1>1, <1>2, PTL DEF Spec

(* Every way through the half of a byte has a state of its own in each     *)
(* slot: the additions of update() to the pointers amount to a path of     *)
(* the bits read so far, whatever the bits and the table.                  *)
THEOREM PathsStayApart == Spec => []StatePerPath
<1>1. PInv => StatePerPath
  <2>1. SUFFICES ASSUME PInv PROVE StatePerPath  OBVIOUS
  <2>2. OnPath(pd)  BY <2>1 DEF PInv, Ready
  <2>3. QED BY <2>2 DEF StatePerPath, OnPath, PathOf
<1>2. QED BY AlwaysPInv, <1>1, PTL

(* In every table that update() comes to, t() of HashTable.c replaces the  *)
(* least of the slots it looks at, and finds again what it made unless     *)
(* that is the fourth slot of the group.                                   *)
THEOREM AlwaysReplacementSound == Spec => []ReplacementSound
<1>1. PInv => ReplacementSound
  <2>1. SUFFICES ASSUME PInv PROVE ReplacementSound  OBVIOUS
  <2>2. pd.ht \in Table  BY <2>1 DEF PInv, Ready, Predictor
  <2>3. QED BY <2>2, TableReplaces DEF ReplacementSound, Slot
<1>2. QED BY AlwaysPInv, <1>1, PTL

(* A match that MatchModel.c follows agrees with the end of the text over  *)
(* its whole length, as far as the ring holds it, but for the last bit of  *)
(* each byte.                                                              *)
THEOREM MatchAlwaysAgrees == Spec => []MatchAgrees
<1>1. PInv => MatchAgrees
  <2>1. SUFFICES ASSUME PInv PROVE MatchAgrees  OBVIOUS
  <2>2. Agrees(pd.buf, pd.pos, pd.match, pd.len)  BY <2>1 DEF PInv, Ready
  <2>3. QED BY <2>2 DEF MatchAgrees, Agrees
<1>2. QED BY AlwaysPInv, <1>1, PTL
=============================================================================
