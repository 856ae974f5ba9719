--------------------------- MODULE UclPack_proofs ---------------------------
(***************************************************************************)
(* The block format and the container, for every size of byte, of block    *)
(* and of buffer, every file and every damaged block: the parser counts    *)
(* every byte once, the decompressor stays in its buffers, the checksum    *)
(* that is reduced now and then is the exact one, and, where no output     *)
(* overtakes its input in place, a block that was compressed is            *)
(* decompressed to its text and an archive that was not damaged gives the  *)
(* file back.                                                              *)
(*                                                                         *)
(* The last two rest on what is between the two sides: items of a block    *)
(* (bits and bytes), tokens that the items make, segments of an archive.   *)
(* Each is described apart from who writes or reads it; the compressor is  *)
(* shown to write it, and the decompressor to be somewhere in it.          *)
(***************************************************************************)
EXTENDS UclPack, NatLemmas, SequenceTheorems

N == BitsPerByte
Bits == {0, 1}
Item == ({"bit"} \X Bits) \cup ({"byte"} \X Byte)

LEMMA ByteFacts ==
  /\ N \in Nat /\ N >= 2 /\ ByteBase \in Nat /\ ByteBase = 2 * 2 ^ (N - 1) /\ 2 ^ (N - 1) \in Nat \ {0}
  /\ ByteBase >= 2 /\ ByteBase \div 2 = 2 ^ (N - 1)
  /\ HalfBase \in Nat \ {0} /\ WordBase \in Nat \ {0}
  /\ EofPrefix \in Nat \ {0} /\ M2_MAX_OFFSET \in Nat
<1>1. N \in Nat /\ N >= 2 /\ N - 1 \in Nat /\ (N - 1) + 1 = N
  BY FormatAssumption DEF N
<1>2. 2 ^ (N - 1) \in Nat \ {0} /\ 2 ^ N = 2 * 2 ^ (N - 1)  BY <1>1, PowerOfTwo
<1>3. ByteBase = 2 ^ N  BY DEF ByteBase, N
<1>4. ByteBase \in Nat /\ ByteBase >= 2 /\ ByteBase \div 2 = 2 ^ (N - 1)  BY <1>2, <1>3
<1>5. HalfBase \in Nat \ {0}  BY <1>4 DEF HalfBase
<1>6. WordBase \in Nat \ {0}  BY <1>5 DEF WordBase
<1>7. QED BY <1>1, <1>2, <1>3, <1>4, <1>5, <1>6, FormatAssumption

LEMMA ByteOfNat == ASSUME NEW x \in Nat PROVE x % ByteBase \in Byte
BY ByteFacts DEF Byte

LEMMA WordTyped == ASSUME NEW v \in Nat PROVE Word(v) \in Seq(Byte) /\ Len(Word(v)) = 4
<1>1. HalfBase * ByteBase \in Nat \ {0}  BY ByteFacts
<1>2. v \div (HalfBase * ByteBase) \in Nat /\ v \div HalfBase \in Nat /\ v \div ByteBase \in Nat
  BY <1>1, ByteFacts, DivMod
<1>3. QED BY <1>2, ByteOfNat DEF Word

LEMMA PowerOfZero == 2 ^ 0 = 1
<1>1. Cardinality(SUBSET {}) = 2 ^ Cardinality({})  BY FS_EmptySet, FS_SUBSET
<1>2. SUBSET {} = {{}}  OBVIOUS
<1>3. QED BY <1>1, <1>2, FS_EmptySet, FS_Singleton

(* The highest bit of a number. *)
LEMMA Log2Exists ==
  ASSUME NEW v \in Nat \ {0}
  PROVE  Log2(v) \in Nat /\ 2 ^ Log2(v) <= v /\ v < 2 ^ (Log2(v) + 1)
<1> DEFINE S == {k \in Nat : v < 2 ^ (k + 1)}
           T == {k \in Nat : k < 2 ^ k}
<1>0. \A k \in Nat : 2 ^ k \in Nat \ {0} /\ 2 ^ (k + 1) = 2 * 2 ^ k  BY PowerOfTwo
<1>1. 2 ^ 0 = 1  BY PowerOfZero
<1>2. T = Nat
  <2>1. 0 \in T  BY <1>1
  <2>2. ASSUME NEW k \in T PROVE k + 1 \in T
    <3>1. k \in Nat /\ k < 2 ^ k  OBVIOUS
    <3>2. 2 ^ k \in Nat \ {0} /\ 2 ^ (k + 1) = 2 * 2 ^ k  BY <1>0, <3>1
    <3>3. QED BY <3>1, <3>2
  <2>3. T \in SUBSET Nat  OBVIOUS
  <2> HIDE DEF T
  <2>4. QED BY <2>1, <2>2, <2>3, SetInduction
<1>3. v \in S
  <2>1. v < 2 ^ v  BY <1>2
  <2>2. 2 ^ v \in Nat \ {0} /\ 2 ^ (v + 1) = 2 * 2 ^ v  BY <1>0
  <2>3. QED BY <2>1, <2>2
<1>4. S \in SUBSET Nat /\ S # {}  BY <1>3
<1>5. PICK k \in S : \A j \in S : k <= j  BY <1>4, LeastOf
<1>6. k \in Nat /\ k <= v /\ v < 2 ^ (k + 1)  BY <1>3, <1>5
<1>7. 2 ^ k <= v
  <2>1. CASE k = 0  BY <1>1, <2>1
  <2>2. CASE k # 0
    <3>1. k - 1 \in Nat /\ (k - 1) + 1 = k /\ ~(k <= k - 1)  BY <1>6, <2>2
    <3>2. k - 1 \notin S  BY <1>5, <3>1
    <3>3. ~(v < 2 ^ k)  BY <3>1, <3>2
    <3>4. 2 ^ k \in Nat  BY <1>0, <1>6
    <3>5. QED BY <3>3, <3>4
  <2>3. QED BY <2>1, <2>2
<1>8. k \in 0 .. v  BY <1>6
<1> DEFINE P(j) == 2 ^ j <= v /\ v < 2 ^ (j + 1)
<1>9. P(k) /\ Log2(v) = CHOOSE j \in 0 .. v : P(j)  BY <1>6, <1>7 DEF Log2
<1>10. Log2(v) \in 0 .. v /\ P(Log2(v))
  <2> HIDE DEF P
  <2>1. QED BY <1>8, <1>9
<1>11. QED BY <1>10

(* A prefix code is bits. *)
LEMMA PrefixTyped ==
  ASSUME NEW i \in Nat PROVE Prefix(i) \in Seq(Bits)
<1> DEFINE v == i + 2
           k == Log2(v)
<1>1. v \in Nat \ {0}  OBVIOUS
<1>2. k \in Nat  BY <1>1, Log2Exists
<1> HIDE DEF k
<1>3. ASSUME NEW j \in Nat PROVE BitOf(v, j) \in Bits
  <2>1. 2 ^ j \in Nat \ {0}  BY PowerOfTwo
  <2>2. v \div 2 ^ j \in Nat  BY <1>1, <2>1, DivMod
  <2>3. QED BY <2>2 DEF BitOf, Bits
<1>4. ASSUME NEW j \in 1 .. 2 * k, j % 2 = 1 PROVE k - (j + 1) \div 2 \in Nat
  BY <1>2, <1>4
<1>5. 2 * k \in Nat  BY <1>2
<1> HIDE DEF v
<1>6. Prefix(i) = [j \in 1 .. 2 * k |-> IF j % 2 = 1 THEN BitOf(v, k - (j + 1) \div 2)
                                        ELSE IF j = 2 * k THEN 1 ELSE 0]
  BY DEF Prefix, k, v
<1>7. \A j \in 1 .. 2 * k : Prefix(i)[j] \in Bits  BY <1>3, <1>4, <1>6 DEF Bits
<1>8. QED BY <1>5, <1>6, <1>7

(* What is put is bits and bytes. *)
LEMMA PutTyped ==
  /\ \A s \in Seq(Bits) : bbPutBits(s) \in Seq(Item)
  /\ \A x \in Byte : bbPutByte(x) \in Seq(Item)
<1>1. ASSUME NEW s \in Seq(Bits) PROVE bbPutBits(s) \in Seq(Item)
  <2>1. \A i \in 1 .. Len(s) : s[i] \in Bits  OBVIOUS
  <2>2. \A i \in 1 .. Len(s) : <<"bit", s[i]>> \in Item  BY <2>1 DEF Item
  <2>3. QED BY <2>2 DEF bbPutBits
<1>2. ASSUME NEW x \in Byte PROVE bbPutByte(x) \in Seq(Item)
  <2>1. <<"byte", x>> \in Item  BY DEF Item
  <2>2. QED BY <2>1 DEF bbPutByte
<1>3. QED BY <1>1, <1>2

LEMMA CodeMatchTyped ==
  ASSUME NEW m, m.len \in Nat, m.len >= 3, m.off \in Nat, m.off >= 1
  PROVE  code_match(m) \in Seq(Item)
<1> DEFINE length == m.len - 1 - (IF m.off > M2_MAX_OFFSET THEN 1 ELSE 0)
           p == (m.off - 1) \div ByteBase
           offset == bbPutBits(<<0>> \o Prefix(1 + p)) \o bbPutByte((m.off - 1) % ByteBase)
           lens == bbPutBits(IF length >= 4 THEN <<0, 0>> \o Prefix(length - 4)
                             ELSE <<IF length > 1 THEN 1 ELSE 0, length % 2>>)
<1>1. m.off - 1 \in Nat /\ length \in Nat  BY ByteFacts
<1>2. p \in Nat /\ (m.off - 1) % ByteBase \in Byte
  <2>1. ByteBase \in Nat \ {0}  BY ByteFacts
  <2>2. QED BY <1>1, <2>1, DivMod, ByteOfNat
<1>3. <<0>> \in Seq(Bits) /\ <<0, 0>> \in Seq(Bits) /\ <<0, 0, 1>> \in Seq(Bits)  BY DEF Bits
<1>4. offset \in Seq(Item)
  <2>1. 1 + p \in Nat  BY <1>2
  <2> HIDE DEF p
  <2>2. Prefix(1 + p) \in Seq(Bits)  BY <2>1, PrefixTyped
  <2>3. <<0>> \o Prefix(1 + p) \in Seq(Bits)  BY <1>3, <2>2
  <2>4. bbPutBits(<<0>> \o Prefix(1 + p)) \in Seq(Item)  BY <2>3, PutTyped
  <2>5. bbPutByte((m.off - 1) % ByteBase) \in Seq(Item)  BY <1>2, PutTyped
  <2>6. QED BY <2>4, <2>5
<1>5. lens \in Seq(Item)
  <2> HIDE DEF length
  <2>1. CASE length >= 4
    <3>1. length - 4 \in Nat  BY <1>1, <2>1
    <3>2. <<0, 0>> \o Prefix(length - 4) \in Seq(Bits)  BY <1>3, <3>1, PrefixTyped
    <3>3. QED BY <2>1, <3>2, PutTyped
  <2>2. CASE ~(length >= 4)
    <3>1. length % 2 \in Bits /\ (IF length > 1 THEN 1 ELSE 0) \in Bits  BY <1>1 DEF Bits
    <3>2. <<IF length > 1 THEN 1 ELSE 0, length % 2>> \in Seq(Bits)  BY <3>1
    <3>3. QED BY <2>2, <3>2, PutTyped
  <2>3. QED BY <2>1, <2>2
<1>6. bbPutBits(<<0, 0, 1>>) \in Seq(Item)  BY <1>3, PutTyped
<1>7. code_match(m) = (IF m.off = last THEN bbPutBits(<<0, 0, 1>>) ELSE offset) \o lens
  BY DEF code_match
<1> HIDE DEF offset, lens
<1>8. QED BY <1>4, <1>5, <1>6, <1>7

LEMMA CodeRunTyped ==
  ASSUME NEW from \in Nat, NEW n \in Nat, text \in Seq(Byte), from + n <= Len(text)
  PROVE  code_run(from, n) \in Seq(Item)
<1>1. ASSUME NEW i \in 1 .. 2 * n, i % 2 # 1 PROVE from + i \div 2 \in 1 .. Len(text)
  BY <1>1
<1>2. ASSUME NEW i \in 1 .. 2 * n
      PROVE  (IF i % 2 = 1 THEN <<"bit", 1>> ELSE <<"byte", text[from + i \div 2]>>) \in Item
  BY <1>1 DEF Item, Bits
<1>3. 2 * n \in Nat  OBVIOUS
<1>4. QED BY <1>2, <1>3 DEF code_run

-----------------------------------------------------------------------------
(* A group of bits is a byte, also when zeros fill it up. *)
LEMMA GroupTyped ==
  ASSUME NEW bs \in Seq(Bits), NEW k \in Nat, k >= 1
  PROVE  Group(bs, k) \in Byte
<1> DEFINE B(j) == IF k + j - 1 <= Len(bs) THEN bs[k + j - 1] ELSE 0
           F == [y \in (1 .. N) \X Nat |-> 2 * y[2] + B(y[1])]
           G(g) == [j \in 0 .. N |-> IF j = 0 THEN 0 ELSE 2 * g[j - 1] + B(j)]
           group == CHOOSE g : g = G(g)
           S == {j \in Nat : j <= N => group[j] \in Nat /\ group[j] < 2 ^ j}
<1>1. N \in Nat  BY ByteFacts
<1>2. ASSUME NEW j \in 1 .. N PROVE B(j) \in Bits
  <2>1. k + j - 1 \in Nat /\ k + j - 1 >= 1  BY <1>1
  <2>2. k + j - 1 <= Len(bs) => k + j - 1 \in 1 .. Len(bs)  BY <2>1
  <2>3. QED BY <2>2 DEF Bits
<1>3. IsStep(N, Nat, F)
  <2> HIDE DEF B
  <2>1. \A j \in 1 .. N : B(j) \in Nat  BY <1>2 DEF Bits
  <2>2. QED BY <2>1 DEF IsStep
<1>4. \E g : g = G(g)
  <2> HIDE DEF F, B
  <2>1. PICK g : IsRecursion(N, Nat, 0, F, g)  BY <1>1, <1>3, RecursionExists
  <2>2. /\ g \in [0 .. N -> Nat] /\ g[0] = 0
        /\ \A j \in 1 .. N : g[j] = F[<<j, g[j - 1]>>]
    BY <2>1 DEF IsRecursion
  <2>3. ASSUME NEW j \in 0 .. N
        PROVE  g[j] = IF j = 0 THEN 0 ELSE 2 * g[j - 1] + B(j)
    <3>1. CASE j = 0  BY <2>2, <3>1
    <3>2. CASE j # 0
      <4>1. j \in 1 .. N /\ j - 1 \in 0 .. N  BY <1>1, <3>2
      <4>2. g[j - 1] \in Nat  BY <2>2, <4>1
      <4>3. F[<<j, g[j - 1]>>] = 2 * g[j - 1] + B(j)  BY <4>1, <4>2 DEF F
      <4>4. QED BY <2>2, <3>2, <4>1, <4>3
    <3>3. QED BY <3>1, <3>2
  <2>4. g = G(g)
    <3> HIDE DEF B
    <3>1. QED BY <2>2, <2>3 DEF G
  <2>5. QED BY <2>4
<1>5. group = G(group)
  <2> HIDE DEF G
  <2>1. QED BY <1>4
<1>6. Group(bs, k) = group[N]  BY DEF Group, N
<1> HIDE DEF group, B
<1>7. group[0] = 0  BY <1>1, <1>5
<1>8. ASSUME NEW j \in 1 .. N PROVE group[j] = 2 * group[j - 1] + B(j)
  <2>1. j \in 0 .. N /\ j # 0  BY <1>1
  <2>2. QED BY <1>5, <2>1
<1>9. 0 \in S
  <2>1. 2 ^ 0 \in Nat \ {0}  BY PowerOfTwo
  <2>2. QED BY <1>7, <2>1
<1>10. ASSUME NEW j \in S PROVE j + 1 \in S
  <2>1. SUFFICES ASSUME j + 1 <= N
                 PROVE  group[j + 1] \in Nat /\ group[j + 1] < 2 ^ (j + 1)
    OBVIOUS
  <2>2. j \in Nat /\ j <= N /\ j + 1 \in 1 .. N /\ (j + 1) - 1 = j  BY <1>1, <2>1
  <2>3. group[j] \in Nat /\ group[j] < 2 ^ j  BY <2>2
  <2>4. 2 ^ j \in Nat \ {0} /\ 2 ^ (j + 1) = 2 * 2 ^ j  BY <2>2, PowerOfTwo
  <2>5. group[j + 1] = 2 * group[j] + B(j + 1)  BY <1>8, <2>2
  <2>6. B(j + 1) \in {0, 1}  BY <1>2, <2>2 DEF Bits
  <2>7. QED BY <2>3, <2>4, <2>5, <2>6
<1>11. S = Nat
  <2> HIDE DEF S
  <2>1. S \in SUBSET Nat  BY DEF S
  <2>2. QED BY <1>9, <1>10, <2>1, SetInduction
<1>12. N \in S  BY <1>1, <1>11
<1>13. group[N] \in Nat /\ group[N] < 2 ^ N  BY <1>1, <1>12
<1>14. ByteBase = 2 ^ N  BY DEF ByteBase, N
<1>15. QED BY <1>6, <1>13, <1>14, ByteFacts DEF Byte

(* The sequences that Block is made of, item by item. *)
IsJoin(n, T, g) == g = [i \in 0 .. n |-> IF i = 0 THEN <<>> ELSE g[i - 1] \o T[i]]

LEMMA JoinExists ==
  ASSUME NEW n \in Nat, NEW D, NEW T \in [1 .. n -> Seq(D)]
  PROVE  \E g : IsJoin(n, T, g)
<1> DEFINE F == [y \in (1 .. n) \X Seq(D) |-> y[2] \o T[y[1]]]
<1>1. IsStep(n, Seq(D), F)  BY DEF IsStep
<1>2. <<>> \in Seq(D)  OBVIOUS
<1> HIDE DEF F
<1>3. PICK g : IsRecursion(n, Seq(D), <<>>, F, g)  BY <1>1, <1>2, RecursionExists
<1>4. /\ g \in [0 .. n -> Seq(D)] /\ g[0] = <<>>
      /\ \A j \in 1 .. n : g[j] = F[<<j, g[j - 1]>>]
  BY <1>3 DEF IsRecursion
<1>5. ASSUME NEW j \in 0 .. n
      PROVE  g[j] = IF j = 0 THEN <<>> ELSE g[j - 1] \o T[j]
  <2>1. CASE j = 0  BY <1>4, <2>1
  <2>2. CASE j # 0
    <3>1. j \in 1 .. n /\ j - 1 \in 0 .. n  BY <2>2
    <3>2. g[j - 1] \in Seq(D)  BY <1>4, <3>1
    <3>3. F[<<j, g[j - 1]>>] = g[j - 1] \o T[j]  BY <3>1, <3>2 DEF F
    <3>4. QED BY <1>4, <2>2, <3>1, <3>3
  <2>3. QED BY <2>1, <2>2
<1>6. QED BY <1>4, <1>5 DEF IsJoin

LEMMA JoinTyped ==
  ASSUME NEW n \in Nat, NEW D, NEW T \in [1 .. n -> Seq(D)], NEW g, IsJoin(n, T, g)
  PROVE  \A i \in 0 .. n : g[i] \in Seq(D)
<1> DEFINE S == {i \in Nat : i <= n => g[i] \in Seq(D)}
<1>0. \A i \in 0 .. n : g[i] = IF i = 0 THEN <<>> ELSE g[i - 1] \o T[i]
  BY DEF IsJoin
<1>1. g[0] = <<>> /\ 0 \in S
  <2>1. 0 \in 0 .. n  OBVIOUS
  <2>2. g[0] = <<>>  BY <1>0, <2>1
  <2>3. <<>> \in Seq(D)  OBVIOUS
  <2>4. g[0] \in Seq(D)  BY <2>2, <2>3
  <2>5. QED BY <2>2, <2>4
<1>2. ASSUME NEW i \in S PROVE i + 1 \in S
  <2>1. SUFFICES ASSUME i + 1 <= n PROVE g[i + 1] \in Seq(D)  OBVIOUS
  <2>2. i \in Nat /\ i + 1 \in 0 .. n /\ i + 1 \in 1 .. n /\ i + 1 # 0 /\ (i + 1) - 1 = i
    BY <2>1
  <2>3. g[i] \in Seq(D)  BY <2>1, <2>2
  <2>4. g[i + 1] = g[i] \o T[i + 1]  BY <1>0, <2>2
  <2>5. T[i + 1] \in Seq(D)  BY <2>2
  <2> HIDE DEF S
  <2>6. \A a, b \in Seq(D) : a \o b \in Seq(D)  OBVIOUS
  <2>7. QED BY <2>3, <2>4, <2>5, <2>6
<1>3. S = Nat
  <2> HIDE DEF S
  <2>1. S \in SUBSET Nat  BY DEF S
  <2>2. QED BY <1>1, <1>2, <2>1, SetInduction
<1>4. QED BY <1>3

(* A block is a sequence of bytes. *)
LEMMA BlockTyped ==
  ASSUME NEW items \in Seq(Item)
  PROVE  Block(items) \in Seq(Byte)
<1> DEFINE n == Len(items)
           BitsOf(i) == IF items[i][1] = "bit" THEN <<items[i][2]>> ELSE <<>>
           T1 == [i \in 1 .. n |-> BitsOf(i)]
           G1(g) == [i \in 0 .. n |-> IF i = 0 THEN <<>> ELSE g[i - 1] \o BitsOf(i)]
           bits == CHOOSE g : g = G1(g)
           Takes(i) ==
             CASE items[i][1] = "byte" -> <<items[i][2]>>
               [] items[i][1] = "bit" /\ Reserves(Len(bits[i])) ->
                    <<Group(bits[n], Len(bits[i]))>>
               [] OTHER -> <<>>
           T2 == [i \in 1 .. n |-> Takes(i)]
           G2(g) == [i \in 0 .. n |-> IF i = 0 THEN <<>> ELSE g[i - 1] \o Takes(i)]
           block == CHOOSE g : g = G2(g)
<1>0. n \in Nat  OBVIOUS
<1>1. Block(items) = block[n]  BY DEF Block
<1>2. ASSUME NEW i \in 1 .. n
      PROVE  \/ items[i][1] = "bit" /\ items[i][2] \in Bits
             \/ items[i][1] = "byte" /\ items[i][2] \in Byte
  <2>1. items[i] \in Item  OBVIOUS
  <2>2. QED BY <2>1 DEF Item
<1> HIDE DEF n
<1>3. \A i \in 0 .. n : i # 0 => i \in 1 .. n  BY <1>0
<1>4. \A i \in 0 .. n : bits[i] \in Seq(Bits)
  <2>1. T1 \in [1 .. n -> Seq(Bits)]
    <3>1. ASSUME NEW i \in 1 .. n PROVE BitsOf(i) \in Seq(Bits)  BY <1>2
    <3> HIDE DEF BitsOf
    <3>2. QED BY <3>1
  <2> HIDE DEF BitsOf
  <2>2. ASSUME NEW g PROVE (g = G1(g)) <=> IsJoin(n, T1, g)
    BY <1>3 DEF IsJoin
  <2> HIDE DEF T1, G1
  <2>3. \E g : IsJoin(n, T1, g)  BY <1>0, <2>1, JoinExists
  <2>4. bits = G1(bits)  BY <2>2, <2>3
  <2>5. IsJoin(n, T1, bits)  BY <2>2, <2>4
  <2> HIDE DEF bits
  <2>6. QED BY <1>0, <2>1, <2>5, JoinTyped
<1> HIDE DEF bits
<1>5. \A i \in 0 .. n : block[i] \in Seq(Byte)
  <2>1. T2 \in [1 .. n -> Seq(Byte)]
    <3>1. ASSUME NEW i \in 1 .. n PROVE Takes(i) \in Seq(Byte)
      <4>1. bits[n] \in Seq(Bits) /\ bits[i] \in Seq(Bits)
        <5>1. n \in 0 .. n /\ i \in 0 .. n  BY <1>0
        <5>2. QED BY <1>4, <5>1
      <4> DEFINE k == Len(bits[i])
      <4>2. k \in Nat  BY <4>1
      <4> HIDE DEF k
      <4>3. Reserves(k) => k >= 1  BY <4>2, ByteFacts DEF Reserves, N
      <4>4. Reserves(k) => Group(bits[n], k) \in Byte  BY <4>1, <4>2, <4>3, GroupTyped
      <4>5. CASE items[i][1] = "byte" /\ items[i][2] \in Byte
        BY <4>5
      <4>6. CASE items[i][1] = "bit"
        <5>1. items[i][1] # "byte"  BY <4>6
        <5>2. QED BY <4>4, <4>6, <5>1 DEF k
      <4>7. QED BY <1>2, <4>5, <4>6
    <3> HIDE DEF Takes
    <3>2. QED BY <3>1
  <2> HIDE DEF Takes
  <2>2. ASSUME NEW g PROVE (g = G2(g)) <=> IsJoin(n, T2, g)
    BY <1>3 DEF IsJoin
  <2> HIDE DEF T2, G2
  <2>3. \E g : IsJoin(n, T2, g)  BY <1>0, <2>1, JoinExists
  <2>4. block = G2(block)  BY <2>2, <2>3
  <2>5. IsJoin(n, T2, block)  BY <2>2, <2>4
  <2> HIDE DEF block
  <2>6. QED BY <1>0, <2>1, <2>5, JoinTyped
<1> HIDE DEF block
<1>6. n \in 0 .. n  BY <1>0
<1>7. QED BY <1>1, <1>5, <1>6

-----------------------------------------------------------------------------
(* The parser: a match is inside the text, and the bytes it has passed are *)
(* in a token, in the pending run or under the candidate.                  *)
MatchAt(m, p) ==
  /\ m.len \in Nat /\ m.off \in Nat
  /\ m.len < 2 \/ (m.len >= 3 /\ m.off >= 1 /\ p + m.len <= Len(text))

CType ==
  /\ text \in Seq(Byte) /\ out \in Seq(Item)
  /\ bp \in Nat /\ bp <= Len(text)
  /\ ahead \in Nat /\ lit \in Nat /\ coded \in Nat
  /\ cpc \in {"parse", "lazy", "done"}

CInv ==
  /\ CType /\ Accounted
  /\ MatchAt(found, bp)
  /\ cpc # "lazy" => ahead = 0
  /\ cpc = "lazy" => MatchAt(cand, bp - ahead) /\ cand.len >= 3

(* A match ends where the text does or a byte differs. *)
LEMMA CommonFound ==
  ASSUME text \in Seq(Byte), NEW p \in Nat, p <= Len(text), NEW off \in 1 .. p
  PROVE  /\ Common(p, off) \in 0 .. Len(text) - p
         /\ \A i \in 1 .. Common(p, off) : text[p + i] = text[p + i - off]
<1> DEFINE L == Len(text) - p
           Agrees(n) == \A i \in 1 .. n : text[p + i] = text[p + i - off]
           Stops(n) == p + n = Len(text) \/ text[p + n + 1] # text[p + n + 1 - off]
           S == {n \in Nat : Stops(n)}
<1>1. L \in Nat /\ p + L = Len(text)  OBVIOUS
<1>2. L \in S  BY <1>1
<1>3. PICK n \in S : \A k \in S : n <= k
  <2>1. S \in SUBSET Nat /\ S # {}  BY <1>2
  <2> HIDE DEF S
  <2>2. QED BY <2>1, LeastOf
<1>4. n \in 0 .. L /\ Stops(n)
  <2>1. n \in Nat /\ n <= L  BY <1>2, <1>3
  <2>2. Stops(n)  OBVIOUS
  <2> HIDE DEF Stops, S, L
  <2>3. QED BY <1>1, <2>1, <2>2
<1>5. Agrees(n)
  <2>1. SUFFICES ASSUME NEW i \in 1 .. n PROVE text[p + i] = text[p + i - off]
    OBVIOUS
  <2>2. i - 1 \in Nat /\ ~(n <= i - 1) /\ p + (i - 1) + 1 = p + i  BY <1>4
  <2>3. i - 1 \notin S  BY <1>3, <2>2
  <2>4. ~Stops(i - 1)  BY <2>2, <2>3
  <2>5. QED BY <2>2, <2>4
<1>6. Common(p, off) = CHOOSE k \in 0 .. L : Agrees(k) /\ Stops(k)  BY DEF Common
<1>7. Common(p, off) \in 0 .. L /\ Agrees(Common(p, off))
  <2> HIDE DEF Agrees, Stops
  <2>1. QED BY <1>4, <1>5, <1>6
<1>8. QED BY <1>7

(* What the finder returns is a match inside the text, or none. *)
LEMMA FindMatch ==
  ASSUME text \in Seq(Byte), text' = text, NEW p \in Nat, p <= Len(text), find_match(p)
  PROVE  bp' = p /\ MatchAt(found, bp)'
<1>1. bp' = p  BY DEF find_match
<1>2. CASE found' \in {NoMatch, [len |-> 0, off |-> 0]}
  BY <1>1, <1>2 DEF NoMatch, MatchAt
<1>3. CASE found' \notin {NoMatch, [len |-> 0, off |-> 0]}
  <2>1. found' \in Matches(p) /\ found'.len >= 3  BY <1>3 DEF find_match
  <2>2. PICK off \in 1 .. p : found' = [len |-> Common(p, off), off |-> off]
    BY <2>1 DEF Matches
  <2>3. Common(p, off) \in 0 .. Len(text) - p  BY CommonFound
  <2>4. off \in Nat /\ off >= 1 /\ found'.off = off /\ found'.len = Common(p, off)
    BY <2>2
  <2>5. p + found'.len <= Len(text) /\ found'.len \in Nat  BY <2>3, <2>4
  <2>6. QED BY <1>1, <2>1, <2>4, <2>5 DEF MatchAt
<1>4. QED BY <1>2, <1>3

LEMMA IdleCompressor == CompressIdle => CInv
BY DEF CompressIdle, CInv, CType, Accounted, MatchAt, NoMatch, look

LEMMA StartCompressor ==
  ASSUME NEW t \in Seq(Byte), CompressStart(t)
  PROVE  CInv'
<1>1. <<>> \in Seq(Item)  OBVIOUS
<1>2. QED
  BY <1>1 DEF CompressStart, CInv, CType, Accounted, MatchAt, NoMatch, look

LEMMA CompressorStays == ASSUME CInv, UNCHANGED cvars PROVE CInv'
BY DEF cvars, CInv, CType, Accounted, MatchAt, look

(* The actions of the parser. *)
LEMMA LiteralKeeps == ASSUME CInv, Literal PROVE CInv'
<1>1. /\ text \in Seq(Byte) /\ bp \in Nat /\ bp + 1 \in Nat /\ bp + 1 <= Len(text) /\ text' = text
      /\ find_match(bp + 1)
  BY DEF CInv, CType, Literal, look
<1>2. bp' = bp + 1 /\ MatchAt(found, bp)'  BY <1>1, FindMatch
<1>3. CType'  BY <1>1, <1>2 DEF CInv, CType, Literal
<1>4. Accounted'  BY <1>1, <1>2 DEF CInv, CType, Accounted, Literal, look
<1>5. QED BY <1>2, <1>3, <1>4 DEF CInv, Literal

LEMMA CandidateKeeps == ASSUME CInv, Candidate PROVE CInv'
<1>1. found.len \in Nat /\ found.len >= 3 /\ found.off >= 1 /\ bp + found.len <= Len(text)
  BY DEF CInv, MatchAt, Candidate, IsLiteral
<1>2. CType'  BY DEF CInv, CType, Candidate
<1>3. Accounted'  BY <1>1 DEF CInv, CType, Accounted, Candidate, look
<1>4. MatchAt(found, bp)' /\ MatchAt(cand, bp - ahead)'
  BY DEF CInv, CType, MatchAt, Candidate
<1>5. QED BY <1>1, <1>2, <1>3, <1>4 DEF CInv, Candidate

LEMMA LazyStepKeeps == ASSUME CInv, LazyStep PROVE CInv'
<1>1. /\ text \in Seq(Byte) /\ bp \in Nat /\ bp + 1 \in Nat /\ bp + 1 <= Len(text) /\ text' = text
      /\ find_match(bp + 1) /\ cand.len \in Nat /\ Len(text) - bp > cand.len
  BY DEF CInv, CType, MatchAt, LazyStep, look
<1>2. bp' = bp + 1 /\ MatchAt(found, bp)'  BY <1>1, FindMatch
<1>3. CType'  BY <1>1, <1>2 DEF CInv, CType, LazyStep
<1>4. CASE lit' = lit + ahead + 1 /\ ahead' = 0 /\ cpc' = "parse"
  <2>1. Accounted'  BY <1>1, <1>2, <1>4 DEF CInv, CType, Accounted, LazyStep, look
  <2>2. QED BY <1>2, <1>3, <1>4, <2>1 DEF CInv
<1>5. CASE ahead' = ahead + 1 /\ lit' = lit /\ cpc' = cpc
  <2>1. bp' - ahead' = bp - ahead  BY <1>2, <1>5 DEF CInv, CType
  <2>2. MatchAt(cand, bp - ahead)' /\ cand' = cand
    BY <1>1, <1>5, <2>1 DEF CInv, MatchAt, LazyStep
  <2>3. Accounted'  BY <1>1, <1>2, <1>5 DEF CInv, CType, Accounted, LazyStep, look
  <2>4. QED BY <1>2, <1>3, <1>5, <2>2, <2>3 DEF CInv, LazyStep
<1>6. QED BY <1>4, <1>5 DEF LazyStep

LEMMA CodeMatchKeeps == ASSUME CInv, CodeMatch PROVE CInv'
<1> DEFINE p == bp + cand.len - ahead
<1>1. /\ text \in Seq(Byte) /\ text' = text /\ cpc = "lazy" /\ out \in Seq(Item)
      /\ cand.len \in Nat /\ cand.len >= 3 /\ cand.off \in Nat /\ cand.off >= 1
      /\ bp - ahead + cand.len <= Len(text)
  BY DEF CInv, CType, MatchAt, CodeMatch
<1>2. bp \in Nat /\ ahead \in Nat /\ lit \in Nat /\ coded \in Nat /\ coded + lit + ahead = bp
  BY <1>1 DEF CInv, CType, Accounted
<1>3. p \in Nat /\ p <= Len(text) /\ find_match(p)  BY <1>1, <1>2 DEF CodeMatch
<1> HIDE DEF p
<1>4. bp' = p /\ MatchAt(found, bp)'  BY <1>1, <1>3, FindMatch
<1>5. code_run(bp - ahead - lit, lit) \in Seq(Item)
  <2>1. bp - ahead - lit = coded /\ coded + lit <= Len(text)  BY <1>2 DEF CInv, CType
  <2>2. QED BY <1>1, <1>2, <2>1, CodeRunTyped
<1>6. code_match(cand) \in Seq(Item)  BY <1>1, CodeMatchTyped
<1>7. out' \in Seq(Item)  BY <1>1, <1>5, <1>6 DEF CodeMatch
<1>8. CType'
  <2>1. /\ bp' \in Nat /\ bp' <= Len(text') /\ ahead' = 0 /\ lit' = 0 /\ cpc' = "parse"
        /\ coded' = coded + lit + cand.len
    BY <1>1, <1>3, <1>4 DEF CodeMatch
  <2>2. coded' \in Nat  BY <1>1, <1>2, <2>1
  <2>3. QED BY <1>1, <1>7, <2>1, <2>2 DEF CType
<1>9. Accounted'
  BY <1>1, <1>2, <1>3, <1>4 DEF Accounted, CodeMatch, look, p
<1>10. QED BY <1>4, <1>8, <1>9 DEF CInv, CodeMatch

LEMMA FinishKeeps == ASSUME CInv, Finish PROVE CInv'
<1>1. /\ text \in Seq(Byte) /\ out \in Seq(Item) /\ bp \in Nat /\ lit \in Nat /\ coded \in Nat
      /\ ahead = 0 /\ coded + lit = bp /\ bp = Len(text)
  BY DEF CInv, CType, Accounted, Finish, look
<1>2. code_run(bp - lit, lit) \in Seq(Item)
  <2>1. bp - lit = coded /\ coded + lit <= Len(text)  BY <1>1
  <2>2. QED BY <1>1, <2>1, CodeRunTyped
<1>3. bbPutBits(<<0>> \o Prefix(EofPrefix)) \in Seq(Item)
  <2>1. Prefix(EofPrefix) \in Seq(Bits) /\ <<0>> \in Seq(Bits)
    BY ByteFacts, PrefixTyped DEF Bits
  <2>2. <<0>> \o Prefix(EofPrefix) \in Seq(Bits)  BY <2>1
  <2>3. QED BY <2>2, PutTyped
<1>4. bbPutByte(ByteBase - 1) \in Seq(Item)
  <2>1. ByteBase - 1 \in Byte  BY ByteFacts DEF Byte
  <2>2. QED BY <2>1, PutTyped
<1>5. out' \in Seq(Item)  BY <1>1, <1>2, <1>3, <1>4 DEF Finish
<1>6. CType'  BY <1>1, <1>5 DEF CInv, CType, Finish
<1>7. Accounted'  BY <1>1 DEF Accounted, Finish, look
<1>8. MatchAt(found, bp)'  BY DEF CInv, MatchAt, Finish
<1>9. QED BY <1>1, <1>6, <1>7, <1>8 DEF CInv, Finish

LEMMA CompressKeeps == ASSUME CInv, Compress PROVE CInv'
BY LiteralKeeps, CandidateKeeps, LazyStepKeeps, CodeMatchKeeps, FinishKeeps DEF Compress

-----------------------------------------------------------------------------
(* The bit buffer.  k bits are left in it: shifted by them, what is below  *)
(* the top is the mark.  At the start it is empty and has none.            *)
Buffer == [bb : Nat, ilen : Nat]
Left(d, k) == \/ d.bb = 0 /\ k = 0
              \/ (2 ^ k * d.bb) % ByteBase = 2 ^ (N - 1)

(* Bits that were read. *)
Read(d, k) == N * d.ilen - k

(* The test of getbit: the mark is alone in the low bits when none is left. *)
LEMMA MarkFound ==
  ASSUME NEW d \in Buffer, NEW k \in 0 .. N - 1, Left(d, k)
  PROVE  d.bb % (ByteBase \div 2) # 0 <=> k > 0
<1> DEFINE H == 2 ^ (N - 1)
           x == d.bb
<1>1. H \in Nat \ {0} /\ ByteBase = 2 * H /\ ByteBase \div 2 = H /\ ByteBase \in Nat \ {0}
      /\ k \in Nat /\ x \in Nat
  BY ByteFacts DEF Buffer
<1>2. CASE k = 0
  <2>1. CASE x = 0
    <3>1. 0 % H = 0  BY <1>1, ModSmall
    <3>2. QED BY <1>1, <1>2, <2>1, <3>1
  <2>2. CASE x # 0
    <3>1. x % ByteBase = H
      <4>1. 2 ^ 0 * x = x
        <5>1. 2 ^ 0 = 1  BY PowerOfZero
        <5>2. QED BY <1>1, <5>1
      <4>2. QED BY <1>2, <2>2, <4>1 DEF Left
    <3>2. PICK q \in Nat : x = q * ByteBase + H
      <4>1. x \div ByteBase \in Nat /\ x = (x \div ByteBase) * ByteBase + (x % ByteBase)
        BY <1>1, DivMod
      <4>2. QED BY <3>1, <4>1
    <3> HIDE DEF H
    <3>3. x = (2 * q + 1) * H + 0 /\ 2 * q + 1 \in Nat /\ 0 \in 0 .. H - 1
      BY <1>1, <3>2
    <3>4. x % H = 0  BY <1>1, <3>3, DivModUnique
    <3>5. QED BY <1>1, <1>2, <3>4
  <2>3. QED BY <2>1, <2>2
<1>3. CASE k > 0
  <2>1. (2 ^ k * x) % ByteBase = H  BY <1>3 DEF Left
  <2>2. k - 1 \in Nat /\ (k - 1) + 1 = k  BY <1>1, <1>3
  <2> DEFINE P == 2 ^ (k - 1)
  <2>3. P \in Nat \ {0} /\ 2 ^ k = 2 * P  BY <2>2, PowerOfTwo
  <2> HIDE DEF P, H
  <2>4. SUFFICES ASSUME x % H = 0 PROVE FALSE  BY <1>1, <1>3
  <2>5. PICK q \in Nat : x = q * H
    <3>1. x \div H \in Nat /\ x = (x \div H) * H + (x % H)  BY <1>1, DivMod
    <3>2. (x \div H) * H + 0 = (x \div H) * H  BY <1>1, <3>1
    <3>3. QED BY <2>4, <3>1, <3>2
  <2>6. 2 ^ k * x = (P * q) * ByteBase + 0
    <3>1. 2 ^ k * x = (2 * P) * (q * H)  BY <2>3, <2>5
    <3>2. (2 * P) * (q * H) = (P * q) * (2 * H)  BY <1>1, <2>3
    <3>3. QED BY <1>1, <2>3, <3>1, <3>2
  <2>7. P * q \in Nat  BY <2>3
  <2>8. (2 ^ k * x) % ByteBase = 0  BY <1>1, <2>6, <2>7, DivModUnique
  <2>9. QED BY <1>1, <2>1, <2>8
<1>4. QED BY <1>1, <1>2, <1>3

(* A bit is read: from the buffer, or the first of another byte. *)
LEMMA GetBit ==
  ASSUME NEW d \in Buffer, NEW k \in 0 .. N - 1, Left(d, k), NEW g \in Byte,
         At(d.ilen, g) \in Byte
  PROVE  /\ getbit(d, g) \in Buffer /\ Bit(getbit(d, g)) \in {0, 1}
         /\ \E j \in 0 .. N - 1 : /\ Left(getbit(d, g), j)
                                  /\ Read(getbit(d, g), j) = Read(d, k) + 1
<1> DEFINE H == 2 ^ (N - 1)
           e == getbit(d, g)
           c == At(d.ilen, g)
<1>1. /\ H \in Nat \ {0} /\ ByteBase = 2 * H /\ ByteBase \in Nat \ {0} /\ N \in Nat /\ N >= 2
      /\ k \in Nat /\ d.bb \in Nat /\ d.ilen \in Nat /\ N - 1 \in 0 .. N - 1
  BY ByteFacts DEF Buffer
<1>2. c \in Byte /\ c \in Nat
  <2>1. Byte \subseteq Nat  BY <1>1 DEF Byte
  <2>2. QED BY <2>1
<1> HIDE DEF H, c
<1>3. CASE k > 0
  <2>1. e = [d EXCEPT !.bb = 2 * @]  BY <1>3, MarkFound DEF getbit
  <2> HIDE DEF e
  <2>2. e \in Buffer /\ e.bb = 2 * d.bb /\ e.ilen = d.ilen
    <3>1. 2 * d.bb \in Nat  BY <1>1
    <3>2. QED BY <2>1, <3>1 DEF Buffer
  <2>3. k - 1 \in 0 .. N - 1 /\ k - 1 \in Nat /\ (k - 1) + 1 = k  BY <1>1, <1>3
  <2>4. Left(e, k - 1)
    <3> DEFINE P == 2 ^ (k - 1)
    <3>1. P \in Nat \ {0} /\ 2 ^ k = 2 * P  BY <2>3, PowerOfTwo
    <3>2. (2 ^ k * d.bb) % ByteBase = 2 ^ (N - 1)  BY <1>3 DEF Left
    <3> HIDE DEF P
    <3>3. 2 ^ k * d.bb = P * (2 * d.bb)  BY <1>1, <3>1
    <3>4. QED BY <2>2, <3>2, <3>3 DEF Left, P
  <2>5. Read(e, k - 1) = Read(d, k) + 1  BY <1>1, <2>2 DEF Read
  <2>6. Bit(e) \in {0, 1}
    <3>1. e.bb \in Nat  BY <2>2 DEF Buffer
    <3>2. e.bb \div ByteBase \in Nat  BY <1>1, <3>1, DivMod
    <3>3. QED BY <3>2 DEF Bit
  <2>7. QED BY <2>2, <2>3, <2>4, <2>5, <2>6 DEF e
<1>4. CASE ~(k > 0)
  <2>1. e = [bb |-> 2 * c + 1, ilen |-> d.ilen + 1]  BY <1>4, MarkFound DEF getbit, c
  <2>2. e \in Buffer /\ e.bb = 2 * c + 1 /\ e.ilen = d.ilen + 1  BY <1>1, <1>2, <2>1 DEF Buffer
  <2> HIDE DEF e
  <2>3. Left(e, N - 1)
    <3>1. H * e.bb = c * ByteBase + H  BY <1>1, <1>2, <2>2
    <3>2. H \in 0 .. ByteBase - 1  BY <1>1
    <3>3. (H * e.bb) % ByteBase = H  BY <1>1, <1>2, <3>1, <3>2, DivModUnique
    <3>4. QED BY <3>3 DEF Left, H
  <2>4. k = 0  BY <1>1, <1>4
  <2>5. N * (d.ilen + 1) = N * d.ilen + N /\ N * d.ilen \in Nat  BY <1>1
  <2>6. Read(e, N - 1) = Read(d, k) + 1  BY <1>1, <2>2, <2>4, <2>5 DEF Read
  <2>7. Bit(e) \in {0, 1}
    <3>1. e.bb \in Nat  BY <2>2 DEF Buffer
    <3>2. e.bb \div ByteBase \in Nat  BY <1>1, <3>1, DivMod
    <3>3. QED BY <3>2 DEF Bit
  <2>8. QED BY <1>1, <2>2, <2>3, <2>6, <2>7 DEF e
<1>5. QED BY <1>3, <1>4

(* No more than n bits past the end of an input of L bytes were read. *)
Placed(d, n, L) ==
  d \in Buffer /\ \E k \in 0 .. N - 1 : Left(d, k) /\ Read(d, k) <= N * L + n

LEMMA PlacedMore ==
  ASSUME NEW d, NEW n \in Int, NEW m \in Int, n <= m, NEW L \in Nat, Placed(d, n, L)
  PROVE  Placed(d, m, L)
<1>1. PICK k \in 0 .. N - 1 : Left(d, k) /\ Read(d, k) <= N * L + n  BY DEF Placed
<1>2. d.ilen \in Nat /\ d \in Buffer  BY DEF Placed, Buffer
<1>3. Read(d, k) \in Int /\ N * L \in Int  BY <1>2, ByteFacts DEF Read
<1>4. Read(d, k) <= N * L + m  BY <1>1, <1>3
<1>5. QED BY <1>1, <1>2, <1>4 DEF Placed

-----------------------------------------------------------------------------
(* How many bits past its end the input may have been read, at each part   *)
(* of a token.                                                             *)
Past(pc) ==
  CASE pc \in {"offset_byte", "length", "end"} -> 0
    [] pc \in {"flag", "copy", "long_length"} -> 2
    [] pc = "offset" -> 3
    [] OTHER -> 4

DInv ==
  /\ src \in Seq(Byte) /\ dst \in Seq(Byte) /\ place \in Nat \cup {Apart}
  /\ oend \in Nat /\ Len(dst) <= oend + 1
  /\ m_off \in Nat /\ m_len \in Nat /\ last_m_off \in Nat \ {0}
  /\ Placed(in, Past(dpc), Len(src))
  /\ dpc \in {"offset", "length", "long_length", "copy"} => m_off >= 1
  /\ dpc = "offset_byte" => m_off >= 2
  /\ dpc \in {"long_length", "copy"} => m_len >= 1

LEMMA InputTyped ==
  ASSUME DInv, NEW i \in Nat, i < Len(src) PROVE Input(i) \in Byte
<1>1. i + 1 \in 1 .. Len(src) /\ src \in Seq(Byte) /\ dst \in Seq(Byte)  BY DEF DInv
<1>2. src[i + 1] \in Byte  BY <1>1
<1>3. CASE place # Apart /\ place + i < Len(dst)
  <2>1. place + i + 1 \in 1 .. Len(dst)  BY <1>1, <1>3 DEF DInv
  <2>2. QED BY <1>1, <1>3, <2>1 DEF Input
<1>4. QED BY <1>2, <1>3 DEF Input

LEMMA AtTyped == ASSUME DInv, NEW i \in Nat, NEW g \in Byte PROVE At(i, g) \in Byte
BY InputTyped DEF At

LEMMA PlacedBit ==
  ASSUME NEW d, NEW n \in Int, DInv, Placed(d, n, Len(src)), NEW g \in Byte
  PROVE  Placed(getbit(d, g), n + 1, Len(src)) /\ Bit(getbit(d, g)) \in {0, 1}
<1> DEFINE e == getbit(d, g)
           L == Len(src)
<1>1. d \in Buffer /\ d.ilen \in Nat  BY DEF Placed, Buffer
<1>2. PICK k \in 0 .. N - 1 : Left(d, k) /\ Read(d, k) <= N * L + n  BY DEF Placed
<1>3. /\ e \in Buffer /\ Bit(e) \in {0, 1}
      /\ \E j \in 0 .. N - 1 : Left(e, j) /\ Read(e, j) = Read(d, k) + 1
  BY <1>1, <1>2, AtTyped, GetBit
<1>4. PICK j \in 0 .. N - 1 : Left(e, j) /\ Read(e, j) = Read(d, k) + 1  BY <1>3
<1>5. Read(d, k) \in Int /\ N * L \in Int
  <2>1. L \in Nat  BY DEF DInv
  <2>2. QED BY <1>1, <2>1, ByteFacts DEF Read
<1> HIDE DEF e, L
<1>6. Read(e, j) <= N * L + (n + 1)  BY <1>2, <1>4, <1>5
<1>7. QED BY <1>3, <1>4, <1>6 DEF Placed, e, L

(* Where the end of the input was tested, none was read past it, and the   *)
(* next byte may be taken.                                                 *)
NextByte(d) == [d EXCEPT !.ilen = @ + 1]

LEMMA PlacedTested ==
  ASSUME NEW d, NEW n \in Int, NEW L \in Nat, Placed(d, n, L), d.ilen < L
  PROVE  Placed(d, -N, L) /\ Placed(NextByte(d), 0, L)
<1> DEFINE e == NextByte(d)
<1>1. d \in Buffer /\ d.ilen \in Nat /\ d.ilen + 1 <= L  BY DEF Placed, Buffer
<1>2. PICK k \in 0 .. N - 1 : Left(d, k)  BY DEF Placed
<1>3. e \in Buffer /\ e.bb = d.bb /\ e.ilen = d.ilen + 1  BY <1>1 DEF Buffer, NextByte
<1> HIDE DEF e
<1>4. N \in Nat /\ k \in Nat /\ N * L \in Nat /\ N * d.ilen \in Nat  BY <1>1, ByteFacts
<1>5. N * (d.ilen + 1) = N * d.ilen + N  BY <1>1, <1>4
<1>6. N * (d.ilen + 1) <= N * L
  <2>1. d.ilen + 1 \in Nat /\ d.ilen + 1 <= L  BY <1>1
  <2>2. (d.ilen + 1) * N <= L * N  BY <1>4, <2>1, MulMono
  <2>3. QED BY <1>4, <2>1, <2>2
<1>7. Read(d, k) <= N * L + (-N)  BY <1>4, <1>5, <1>6 DEF Read
<1>8. Left(e, k)  BY <1>2, <1>3 DEF Left
<1>9. Read(e, k) <= N * L + 0  BY <1>3, <1>4, <1>5, <1>6 DEF Read
<1>10. QED BY <1>1, <1>2, <1>3, <1>7, <1>8, <1>9 DEF Placed, e

(* Four bits past the end are in at most so many bytes. *)
LEMMA PlacedInside ==
  ASSUME NEW d, NEW L \in Nat, Placed(d, 4, L)
  PROVE  d.ilen <= L + (N + 3) \div N
<1> DEFINE q == (N + 3) \div N
           x == d.ilen
<1>1. N \in Nat \ {0} /\ N + 3 \in Nat  BY ByteFacts
<1>2. q \in Nat /\ N + 3 < q * N + N
  <2>1. q \in Nat /\ (N + 3) % N \in 0 .. N - 1 /\ N + 3 = q * N + ((N + 3) % N)
    BY <1>1, DivMod
  <2>2. QED BY <1>1, <2>1
<1> HIDE DEF q
<1>3. x \in Nat  BY DEF Placed, Buffer
<1>4. PICK k \in 0 .. N - 1 : N * x - k <= N * L + 4  BY DEF Placed, Read
<1>5. N * x <= N * L + N + 3
  <2>1. k \in Nat /\ k <= N - 1 /\ N * x \in Nat /\ N * L \in Nat  BY <1>1, <1>3
  <2>2. QED BY <1>1, <1>4, <2>1
<1>6. SUFFICES ASSUME L + q + 1 <= x PROVE FALSE  BY <1>2, <1>3 DEF q
<1>7. (L + q + 1) * N <= x * N
  <2>1. L + q + 1 \in Nat  BY <1>2
  <2>2. QED BY <1>1, <1>3, <1>6, <2>1, MulMono
<1>8. (L + q + 1) * N = N * L + q * N + N /\ x * N = N * x  BY <1>1, <1>2, <1>3
<1>9. N * L \in Nat /\ q * N \in Nat /\ N * x \in Nat  BY <1>1, <1>2, <1>3
<1>10. QED BY <1>1, <1>2, <1>5, <1>7, <1>8, <1>9

LEMMA DInvBounds == DInv => StaysInBounds
<1> SUFFICES ASSUME DInv PROVE StaysInBounds  OBVIOUS
<1>1. Past(dpc) \in Int /\ Past(dpc) <= 4  BY DEF Past
<1>2. Len(src) \in Nat  BY DEF DInv
<1>3. Placed(in, 4, Len(src))  BY <1>1, <1>2, PlacedMore DEF DInv
<1>4. in.ilen <= Len(src) + (N + 3) \div N  BY <1>2, <1>3, PlacedInside
<1>5. QED BY <1>4 DEF StaysInBounds, DInv, N

(* The empty buffer, before the first bit. *)
LEMMA PlacedStart ==
  ASSUME NEW L \in Nat PROVE Placed([bb |-> 0, ilen |-> 0], 2, L)
<1> DEFINE d == [bb |-> 0, ilen |-> 0]
<1>1. d \in Buffer /\ d.bb = 0 /\ d.ilen = 0  BY DEF Buffer
<1> HIDE DEF d
<1>2. 0 \in 0 .. N - 1 /\ N * 0 = 0 /\ N * L \in Nat  BY ByteFacts
<1>3. Left(d, 0) /\ Read(d, 0) <= N * L + 2  BY <1>1, <1>2 DEF Left, Read
<1>4. QED BY <1>1, <1>2, <1>3 DEF Placed, d

LEMMA StartDecompressor ==
  /\ \A block \in Seq(Byte), room \in Nat : Start(block, room) => DInv
  /\ \A block \in Seq(Byte), where \in Nat \cup {Apart}, room \in Nat :
       DecompressStart(block, where, room) => DInv'
  /\ DecompressIdle => DInv
<1>1. Past("flag") = 2 /\ Past("OK") = 4  BY DEF Past
<1>2. <<>> \in Seq(Byte) /\ Len(<<>>) = 0 /\ \A s \in Seq(Byte) : Len(s) \in Nat  OBVIOUS
<1>3. ASSUME NEW block \in Seq(Byte), NEW room \in Nat, Start(block, room) PROVE DInv
  BY <1>1, <1>2, <1>3, PlacedStart DEF Start, DInv
<1>4. ASSUME NEW block \in Seq(Byte), NEW where \in Nat \cup {Apart}, NEW room \in Nat,
             DecompressStart(block, where, room)
      PROVE  DInv'
  <2>1. Placed(in', 2, Len(src'))  BY <1>2, <1>4, PlacedStart DEF DecompressStart
  <2>2. Placed(in, Past(dpc), Len(src))'  BY <1>1, <1>4, <2>1 DEF DecompressStart
  <2>3. QED BY <1>2, <1>4, <2>2 DEF DecompressStart, DInv
<1>5. ASSUME DecompressIdle PROVE DInv
  <2>1. Placed([bb |-> 0, ilen |-> 0], 4, 0)
    <3>1. Placed([bb |-> 0, ilen |-> 0], 2, 0)  BY PlacedStart
    <3>2. QED BY <3>1, PlacedMore
  <2>2. QED BY <1>1, <1>2, <1>5, <2>1 DEF DecompressIdle, DInv
<1>6. QED BY <1>3, <1>4, <1>5

LEMMA DecompressorStays == ASSUME DInv, UNCHANGED dvars PROVE DInv'
BY DEF dvars, DInv

LEMMA BufferOf == \A d, n, L : Placed(d, n, L) => d \in Buffer /\ d.ilen \in Nat
BY DEF Placed, Buffer

LEMMA FailKeeps ==
  ASSUME DInv, NEW d, NEW n \in Int, n <= 4, Placed(d, n, Len(src)), in' = d,
         NEW x \in {"INPUT_OVERRUN", "OUTPUT_OVERRUN", "LOOKBEHIND_OVERRUN"}, Fail(x)
  PROVE  DInv'
<1>1. Past(x) = 4  BY DEF Past
<1>2. Len(src) \in Nat  BY DEF DInv
<1>3. Placed(d, 4, Len(src))  BY <1>2, PlacedMore
<1>4. Placed(in, Past(dpc), Len(src))'  BY <1>1, <1>3 DEF Fail
<1>5. QED BY <1>4 DEF Fail, DInv

(* The actions of the decompressor. *)
LEMMA FlagKeeps == ASSUME DInv, NEW g \in Byte, Flag(g) PROVE DInv'
<1> DEFINE d == getbit(in, g)
           L == Len(src)
<1>1. src \in Seq(Byte) /\ L \in Nat /\ Past("flag") = 2 /\ Past("offset") = 3
  BY DEF DInv, Past
<1>2. Placed(in, 2, L)  BY <1>1 DEF DInv, Flag
<1>3. Placed(d, 3, L)
  <2>1. Placed(d, 2 + 1, L)  BY <1>1, <1>2, PlacedBit
  <2>2. QED BY <2>1
<1>4. CASE in' = d /\ m_off' = 1 /\ dpc' = "offset" /\ UNCHANGED <<src, place, oend, dst, m_len, last_m_off>>
  <2> HIDE DEF d
  <2>1. Placed(in, Past(dpc), Len(src))'  BY <1>1, <1>3, <1>4
  <2>2. QED BY <1>4, <2>1 DEF DInv
<1>5. CASE in' = d /\ (Fail("INPUT_OVERRUN") \/ Fail("OUTPUT_OVERRUN"))
  <2> HIDE DEF d, L
  <2>1. QED BY <1>1, <1>3, <1>5, FailKeeps DEF L
<1>6. CASE /\ d.ilen < Len(src) /\ Len(dst) < oend
           /\ dst' = Append(dst, Input(d.ilen))
           /\ in' = NextByte(d)
           /\ UNCHANGED <<src, place, oend, m_off, m_len, last_m_off, dpc>>
  <2> HIDE DEF d
  <2>1. Placed(NextByte(d), 0, L)
    <3>1. d.ilen < L  BY <1>6
    <3> HIDE DEF L
    <3>2. QED BY <1>1, <1>3, <3>1, PlacedTested
  <2>2. Placed(NextByte(d), 2, L)  BY <1>1, <2>1, PlacedMore
  <2>3. Placed(in, Past(dpc), Len(src))'  BY <1>1, <1>6, <2>2 DEF Flag
  <2>4. d.ilen \in Nat  BY <1>3, BufferOf
  <2>6. Input(d.ilen) \in Byte  BY <1>6, <2>4, InputTyped
  <2>7. dst' \in Seq(Byte) /\ Len(dst') = Len(dst) + 1  BY <1>6, <2>6 DEF DInv
  <2>8. oend \in Nat /\ Len(dst) \in Nat  BY DEF DInv
  <2>9. Len(dst') <= oend'  BY <1>6, <2>7, <2>8
  <2>10. QED BY <1>6, <2>3, <2>7, <2>8, <2>9 DEF DInv, Flag
<1>7. QED BY <1>4, <1>5, <1>6 DEF Flag, NextByte

LEMMA OffsetTurnKeeps == ASSUME DInv, NEW g \in Byte, OffsetTurn(g) PROVE DInv'
<1> DEFINE d1 == getbit(in, g)
           off == 2 * m_off + Bit(d1)
           d2 == getbit(d1, g)
           L == Len(src)
<1>1. /\ src \in Seq(Byte) /\ L \in Nat /\ N \in Nat /\ N >= 2
      /\ Past("offset") = 3 /\ Past("offset_byte") = 0 /\ m_off \in Nat /\ m_off >= 1
  BY ByteFacts DEF DInv, Past, OffsetTurn
<1>2. Placed(in, 3, L)  BY <1>1 DEF DInv, OffsetTurn
<1>3. Placed(d1, 4, L) /\ Bit(d1) \in {0, 1}
  <2>1. Placed(d1, 3 + 1, L) /\ Bit(d1) \in {0, 1}  BY <1>1, <1>2, PlacedBit
  <2>2. QED BY <2>1
<1> HIDE DEF d1
<1>4. CASE in' = d1 /\ (Fail("INPUT_OVERRUN") \/ Fail("LOOKBEHIND_OVERRUN"))
  <2> HIDE DEF L
  <2>1. QED BY <1>1, <1>3, <1>4, FailKeeps DEF L
<1>5. CASE /\ d1.ilen < Len(src) /\ in' = d2 /\ m_off' = off
           /\ dpc' = IF Bit(d2) = 1 THEN "offset_byte" ELSE "offset"
           /\ UNCHANGED <<src, place, oend, dst, m_len, last_m_off>>
  <2>1. Placed(d1, -N, L)
    <3>1. d1.ilen < L  BY <1>5
    <3> HIDE DEF L
    <3>2. QED BY <1>1, <1>3, <3>1, PlacedTested
  <2>2. Placed(d2, -N + 1, L)  BY <1>1, <2>1, PlacedBit
  <2> HIDE DEF d2
  <2>3. Placed(d2, 0, L) /\ Placed(d2, 3, L)  BY <1>1, <2>2, PlacedMore
  <2>4. Placed(in, Past(dpc), Len(src))'  BY <1>1, <1>5, <2>3
  <2>5. off \in Nat /\ off >= 2  BY <1>1, <1>3
  <2>6. QED BY <1>5, <2>4, <2>5 DEF DInv
<1>6. QED BY <1>4, <1>5 DEF OffsetTurn, d1

LEMMA OffsetKeeps == ASSUME DInv, Offset PROVE DInv'
<1> DEFINE L == Len(src)
           c == Input(in.ilen)
           e == NextByte(in)
<1>1. /\ src \in Seq(Byte) /\ L \in Nat /\ m_off \in Nat /\ m_off >= 2
      /\ Past("length") = 0 /\ Past("end") = 0 /\ Past("INPUT_OVERRUN") = 4
  BY DEF DInv, Past, Offset
<1>2. Placed(in, 0, L) /\ Placed(in, 4, L)
  <2>1. Placed(in, 0, L)  BY DEF DInv, Past, Offset
  <2>2. QED BY <1>1, <2>1, PlacedMore
<1>3. CASE m_off = 2 /\ m_off' = last_m_off /\ dpc' = "length" /\ UNCHANGED <<in, last_m_off>>
  <2>1. Placed(in, Past(dpc), Len(src))'  BY <1>1, <1>2, <1>3 DEF Offset
  <2>2. QED BY <1>3, <2>1 DEF DInv, Offset
<1>4. CASE dpc' = "INPUT_OVERRUN" /\ UNCHANGED <<in, m_off, last_m_off>>
  <2>1. Placed(in, Past(dpc), Len(src))'  BY <1>1, <1>2, <1>4 DEF Offset
  <2>2. QED BY <1>4, <2>1 DEF DInv, Offset
<1>5. CASE /\ m_off # 2 /\ in.ilen < Len(src)
           /\ in' = e /\ m_off' = (m_off - 3) * ByteBase + c + 1
           /\ \/ dpc' = "end" /\ UNCHANGED last_m_off
              \/ dpc' = "length" /\ last_m_off' = m_off'
  <2>1. Placed(e, 0, L)  BY <1>1, <1>2, <1>5, PlacedTested
  <2>2. in.ilen \in Nat  BY <1>2, BufferOf
  <2>4. c \in Byte  BY <1>5, <2>2, InputTyped
  <2> HIDE DEF c, e
  <2>5. (m_off - 3) * ByteBase + c + 1 \in Nat \ {0}
    <3>1. m_off - 3 \in Nat /\ c \in Nat  BY <1>1, <1>5, <2>4, ByteFacts DEF Byte
    <3>2. (m_off - 3) * ByteBase \in Nat  BY <3>1, ByteFacts
    <3>3. QED BY <3>1, <3>2
  <2>6. Placed(in, Past(dpc), Len(src))'  BY <1>1, <1>5, <2>1 DEF Offset
  <2>7. QED BY <1>5, <2>5, <2>6 DEF DInv, Offset
<1>6. QED BY <1>3, <1>4, <1>5 DEF Offset, NextByte

LEMMA LengthKeeps == ASSUME DInv, NEW g \in Byte, Length(g) PROVE DInv'
<1> DEFINE d1 == getbit(in, g)
           d2 == getbit(d1, g)
           len == 2 * Bit(d1) + Bit(d2)
           L == Len(src)
<1>1. /\ src \in Seq(Byte) /\ L \in Nat
      /\ Past("length") = 0 /\ Past("long_length") = 2 /\ Past("copy") = 2
  BY DEF DInv, Past
<1>2. Placed(in, 0, L)  BY <1>1 DEF DInv, Length
<1>3. Placed(d1, 1, L) /\ Bit(d1) \in {0, 1}
  <2>1. Placed(d1, 0 + 1, L) /\ Bit(d1) \in {0, 1}  BY <1>1, <1>2, PlacedBit
  <2>2. QED BY <2>1
<1>4. Placed(d2, 2, L) /\ Bit(d2) \in {0, 1}
  <2> HIDE DEF d1
  <2>1. Placed(d2, 1 + 1, L) /\ Bit(d2) \in {0, 1}  BY <1>1, <1>3, PlacedBit
  <2>2. QED BY <2>1
<1>5. /\ in' = d2 /\ m_len' = (IF len = 0 THEN 1 ELSE len)
      /\ dpc' = (IF len = 0 THEN "long_length" ELSE "copy")
      /\ dpc = "length" /\ UNCHANGED <<src, place, oend, dst, m_off, last_m_off>>
  BY DEF Length
<1> HIDE DEF d1, d2
<1>6. len \in Nat /\ m_len' \in Nat /\ m_len' >= 1  BY <1>3, <1>4, <1>5
<1> HIDE DEF len
<1>7. Placed(in, Past(dpc), Len(src))'  BY <1>1, <1>4, <1>5
<1>8. QED BY <1>5, <1>6, <1>7 DEF DInv

LEMMA LengthTurnKeeps == ASSUME DInv, NEW g \in Byte, LengthTurn(g) PROVE DInv'
<1> DEFINE d1 == getbit(in, g)
           len == 2 * m_len + Bit(d1)
           d2 == getbit(d1, g)
           L == Len(src)
<1>1. /\ src \in Seq(Byte) /\ L \in Nat /\ N \in Nat /\ N >= 2
      /\ Past("long_length") = 2 /\ Past("copy") = 2 /\ m_len \in Nat /\ m_len >= 1
  BY ByteFacts DEF DInv, Past, LengthTurn
<1>2. Placed(in, 2, L)  BY <1>1 DEF DInv, LengthTurn
<1>3. Placed(d1, 3, L) /\ Bit(d1) \in {0, 1}
  <2>1. Placed(d1, 2 + 1, L) /\ Bit(d1) \in {0, 1}  BY <1>1, <1>2, PlacedBit
  <2>2. QED BY <2>1
<1> HIDE DEF d1
<1>4. CASE in' = d1 /\ (Fail("INPUT_OVERRUN") \/ Fail("OUTPUT_OVERRUN"))
  <2> HIDE DEF L
  <2>1. QED BY <1>1, <1>3, <1>4, FailKeeps DEF L
<1>5. CASE /\ d1.ilen < Len(src) /\ in' = d2
           /\ m_len' = (IF Bit(d2) = 1 THEN len + 2 ELSE len)
           /\ dpc' = (IF Bit(d2) = 1 THEN "copy" ELSE "long_length")
           /\ UNCHANGED <<src, place, oend, dst, m_off, last_m_off>>
  <2>1. Placed(d1, -N, L)
    <3>1. d1.ilen < L  BY <1>5
    <3> HIDE DEF L
    <3>2. QED BY <1>1, <1>3, <3>1, PlacedTested
  <2>2. Placed(d2, -N + 1, L)  BY <1>1, <2>1, PlacedBit
  <2> HIDE DEF d2
  <2>3. Placed(d2, 2, L)  BY <1>1, <2>2, PlacedMore
  <2>4. Placed(in, Past(dpc), Len(src))'  BY <1>1, <1>5, <2>3
  <2>5. len \in Nat /\ len >= 2  BY <1>1, <1>3
  <2> HIDE DEF len
  <2>6. m_len' \in Nat /\ m_len' >= 1  BY <1>5, <2>5
  <2>7. QED BY <1>5, <2>4, <2>6 DEF DInv, LengthTurn
<1>6. QED BY <1>4, <1>5 DEF LengthTurn, d1

(* The copy loop reads what was written, from the match on. *)
LEMMA CopiedTyped ==
  ASSUME NEW t \in Seq(Byte), NEW off \in Nat, off >= 1, off <= Len(t), NEW n \in Nat
  PROVE  Copied(t, off, n) \in Seq(Byte) /\ Len(Copied(t, off, n)) = Len(t) + n
<1> DEFINE l == Len(t)
           Source(i) == IF i <= l THEN t[i] ELSE t[l - off + 1 + ((i - l - 1) % off)]
<1>1. l \in Nat /\ l + n \in Nat /\ off \in Nat \ {0}  OBVIOUS
<1>2. ASSUME NEW i \in 1 .. l + n PROVE Source(i) \in Byte
  <2>1. CASE i <= l
    <3>1. i \in 1 .. Len(t)  BY <1>1, <2>1
    <3>2. QED BY <2>1, <3>1
  <2>2. CASE ~(i <= l)
    <3>1. i - l - 1 \in Nat  BY <1>1, <2>2
    <3> DEFINE x == (i - l - 1) % off
    <3>2. x \in 0 .. off - 1  BY <1>1, <3>1, DivMod
    <3> HIDE DEF x
    <3>3. l - off + 1 + x \in 1 .. Len(t)  BY <1>1, <3>2
    <3>4. t[l - off + 1 + x] \in Byte  BY <3>3
    <3>5. QED BY <2>2, <3>4 DEF x
  <2>3. QED BY <2>1, <2>2
<1>3. Copied(t, off, n) = [i \in 1 .. l + n |-> Source(i)]  BY DEF Copied
<1> HIDE DEF Source, l
<1>4. Copied(t, off, n) \in Seq(Byte) /\ Len(Copied(t, off, n)) = l + n
  BY <1>1, <1>2, <1>3
<1>5. QED BY <1>4 DEF l

LEMMA CopyKeeps == ASSUME DInv, Copy PROVE DInv'
<1> DEFINE len == IF m_off > M2_MAX_OFFSET THEN m_len + 1 ELSE m_len
<1>1. /\ m_off \in Nat /\ m_off >= 1 /\ m_len \in Nat /\ m_len >= 1
      /\ oend \in Nat /\ dst \in Seq(Byte) /\ Len(dst) \in Nat
      /\ Past("copy") = 2 /\ Past("flag") = 2 /\ dpc = "copy" /\ in' = in
  BY DEF DInv, Past, Copy
<1>2. len \in Nat  BY <1>1
<1>3. Placed(in, 2, Len(src))  BY <1>1 DEF DInv
<1>4. CASE Fail("OUTPUT_OVERRUN") \/ Fail("LOOKBEHIND_OVERRUN")
  BY <1>1, <1>3, <1>4, FailKeeps
<1>5. CASE /\ Len(dst) + len <= oend /\ m_off <= Len(dst)
           /\ dst' = Copied(dst, m_off, len + 1) /\ dpc' = "flag"
           /\ UNCHANGED <<src, place, oend, m_off, m_len, last_m_off>>
  <2> HIDE DEF len
  <2>1. dst' \in Seq(Byte) /\ Len(dst') = Len(dst) + (len + 1)
    BY <1>1, <1>2, <1>5, CopiedTyped
  <2>2. Len(dst') <= oend + 1  BY <1>1, <1>2, <1>5, <2>1
  <2>3. Placed(in, Past(dpc), Len(src))'  BY <1>1, <1>3, <1>5
  <2>4. QED BY <1>5, <2>1, <2>2, <2>3 DEF DInv
<1>6. QED BY <1>4, <1>5 DEF Copy

LEMMA ResultKeeps == ASSUME DInv, Result PROVE DInv'
<1>1. Past("end") = 0 /\ Len(src) \in Nat  BY DEF DInv, Past
<1>2. Placed(in, 4, Len(src))
  <2>1. Placed(in, 0, Len(src))  BY <1>1 DEF DInv, Result
  <2>2. QED BY <1>1, <2>1, PlacedMore
<1>3. dpc' \in {"OK", "INPUT_NOT_CONSUMED", "INPUT_OVERRUN"}  BY DEF Result
<1>4. Past(dpc') = 4  BY <1>3 DEF Past
<1>5. Placed(in, Past(dpc), Len(src))'  BY <1>2, <1>4 DEF Result
<1>6. QED BY <1>3, <1>5 DEF DInv, Result

LEMMA DecompressKeeps == ASSUME DInv, Decompress PROVE DInv'
BY FlagKeeps, OffsetTurnKeeps, OffsetKeeps, LengthKeeps, LengthTurnKeeps, CopyKeeps,
   ResultKeeps DEF Decompress

-----------------------------------------------------------------------------
(* The checksum.  Between two reductions, j bytes after the last one, the  *)
(* sums are below these bounds, which a word holds.                        *)
Triangle(j) == (j * (j + 1)) \div 2
Bound1(j) == (BASE - 1) + j * (ByteBase - 1)
Bound2(j) == (ByteBase - 1) * Triangle(j) + (j + 1) * (BASE - 1)
Rest == 0 .. BASE - 1

LEMMA BaseFacts ==
  /\ BASE \in Nat /\ BASE >= 2 /\ ByteBase <= BASE /\ BASE < HalfBase
  /\ NMAX \in Nat \ {0} /\ Bound2(NMAX) < WordBase
  /\ ByteBase - 1 \in Nat /\ BASE - 1 \in Nat
<1>1. Bound2(NMAX) < WordBase  BY PackAssumption DEF Bound2, Triangle
<1>2. QED BY <1>1, PackAssumption, ByteFacts

LEMMA TriangleStep ==
  ASSUME NEW j \in Nat
  PROVE  Triangle(j) \in Nat /\ Triangle(j + 1) = Triangle(j) + (j + 1)
<1> DEFINE a == j * (j + 1)
<1>1. a \in Nat /\ (j + 1) * ((j + 1) + 1) = a + 2 * (j + 1)  OBVIOUS
<1> HIDE DEF a
<1>2. a \div 2 \in Nat /\ (a + 2 * (j + 1)) \div 2 = a \div 2 + (j + 1)  BY <1>1
<1>3. QED BY <1>1, <1>2 DEF Triangle, a

LEMMA TriangleMono ==
  ASSUME NEW j \in Nat, NEW n \in Nat, j <= n
  PROVE  Triangle(j) <= Triangle(n)
<1> DEFINE a == j * (j + 1)
           b == n * (n + 1)
<1>1. j + 1 \in Nat /\ n + 1 \in Nat /\ j + 1 <= n + 1  OBVIOUS
<1>2. j * (j + 1) <= n * (j + 1) /\ (j + 1) * n <= (n + 1) * n  BY <1>1, MulMono
<1>3. n * (j + 1) = (j + 1) * n /\ (n + 1) * n = n * (n + 1) /\ n * (j + 1) \in Nat
      /\ a \in Nat /\ b \in Nat
  OBVIOUS
<1>4. a <= b  BY <1>2, <1>3
<1> HIDE DEF a, b
<1>5. a \div 2 <= b \div 2  BY <1>3, <1>4
<1>6. QED BY <1>5 DEF Triangle, a, b

LEMMA BoundsAtStart == Bound1(0) = BASE - 1 /\ Bound2(0) = BASE - 1
<1>1. (0 * (0 + 1)) \div 2 = 0  OBVIOUS
<1>2. Triangle(0) = 0  BY <1>1 DEF Triangle
<1>3. QED BY <1>2, BaseFacts DEF Bound1, Bound2

LEMMA BoundsStep ==
  ASSUME NEW j \in Nat
  PROVE  /\ Bound1(j) \in Nat /\ Bound2(j) \in Nat
         /\ Bound1(j + 1) = Bound1(j) + (ByteBase - 1)
         /\ Bound2(j + 1) = Bound2(j) + Bound1(j + 1)
<1> DEFINE c == ByteBase - 1
           e == BASE - 1
           t == Triangle(j)
<1>1. c \in Nat /\ e \in Nat  BY BaseFacts
<1>2. t \in Nat /\ Triangle(j + 1) = t + (j + 1)  BY TriangleStep
<1> HIDE DEF c, e, t
<1>3. (j + 1) * c = j * c + c /\ j * c \in Nat  BY <1>1
<1>4. c * (t + (j + 1)) = c * t + (j + 1) * c /\ c * t \in Nat  BY <1>1, <1>2
<1>5. ((j + 1) + 1) * e = (j + 1) * e + e /\ (j + 1) * e \in Nat  BY <1>1
<1>6. Bound1(j) = e + j * c /\ Bound1(j + 1) = e + (j + 1) * c  BY DEF Bound1, c, e
<1>7. Bound2(j) = c * t + (j + 1) * e
      /\ Bound2(j + 1) = c * (t + (j + 1)) + ((j + 1) + 1) * e
  BY <1>2 DEF Bound2, c, e, t
<1>8. QED BY <1>1, <1>3, <1>4, <1>5, <1>6, <1>7 DEF c

LEMMA BoundHeld ==
  ASSUME NEW j \in Nat, j <= NMAX
  PROVE  Bound2(j) \in Nat /\ Bound2(j) < WordBase
<1> DEFINE c == ByteBase - 1
           e == BASE - 1
           t == Triangle(j)
           u == Triangle(NMAX)
<1>1. c \in Nat /\ e \in Nat /\ NMAX \in Nat /\ Bound2(NMAX) < WordBase  BY BaseFacts
<1>2. t \in Nat /\ u \in Nat /\ t <= u  BY <1>1, TriangleStep, TriangleMono
<1>3. WordBase \in Nat /\ j + 1 \in Nat /\ NMAX + 1 \in Nat /\ j + 1 <= NMAX + 1
  BY <1>1, ByteFacts
<1>4. Bound2(j) = c * t + (j + 1) * e /\ Bound2(NMAX) = c * u + (NMAX + 1) * e
  BY DEF Bound2
<1> HIDE DEF c, e, t, u
<1>5. t * c <= u * c /\ t * c = c * t /\ u * c = c * u /\ c * t \in Nat /\ c * u \in Nat
  BY <1>1, <1>2, MulMono
<1>6. (j + 1) * e <= (NMAX + 1) * e /\ (j + 1) * e \in Nat /\ (NMAX + 1) * e \in Nat
  BY <1>1, <1>3, MulMono
<1>7. QED BY <1>1, <1>3, <1>4, <1>5, <1>6

(* The sums that are reduced after every byte. *)
AddExact(sums, b) == <<(sums[1] + b) % BASE, (sums[2] + sums[1] + b) % BASE>>
Exact(s, f) ==
  f = [i \in 0 .. Len(s) |-> IF i = 0 THEN <<1, 0>> ELSE AddExact(f[i - 1], s[i])]

LEMMA AddExactTyped ==
  ASSUME NEW sums \in Rest \X Rest, NEW b \in Byte
  PROVE  AddExact(sums, b) \in Rest \X Rest
<1>1. sums[1] \in Nat /\ sums[2] \in Nat /\ b \in Nat  BY ByteFacts DEF Rest, Byte
<1>2. sums[1] + b \in Nat /\ sums[2] + sums[1] + b \in Nat /\ BASE \in Nat \ {0}
  BY <1>1, BaseFacts
<1>3. (sums[1] + b) % BASE \in Rest /\ (sums[2] + sums[1] + b) % BASE \in Rest
  BY <1>2, DivMod DEF Rest
<1>4. QED BY <1>3 DEF AddExact

(* The exact sums are remainders. *)
LEMMA ExactTyped ==
  ASSUME NEW s \in Seq(Byte), NEW f, Exact(s, f)
  PROVE  /\ f[0] = <<1, 0>> /\ \A i \in 0 .. Len(s) : f[i] \in Rest \X Rest
         /\ \A i \in 1 .. Len(s) : f[i] = AddExact(f[i - 1], s[i])
<1> DEFINE n == Len(s)
           S == {i \in Nat : i <= n => f[i] \in Rest \X Rest}
<1>0. \A i \in 0 .. n : f[i] = IF i = 0 THEN <<1, 0>> ELSE AddExact(f[i - 1], s[i])
  BY DEF Exact
<1>1. n \in Nat /\ \A i \in 1 .. n : s[i] \in Byte  OBVIOUS
<1> HIDE DEF n
<1>2. f[0] = <<1, 0>>  BY <1>0, <1>1
<1>3. \A i \in 1 .. n : f[i] = AddExact(f[i - 1], s[i])  BY <1>0, <1>1
<1>4. 0 \in S
  <2>1. <<1, 0>> \in Rest \X Rest  BY BaseFacts DEF Rest
  <2>2. QED BY <1>2, <2>1
<1>5. ASSUME NEW i \in S PROVE i + 1 \in S
  <2>1. SUFFICES ASSUME i + 1 <= n PROVE f[i + 1] \in Rest \X Rest  OBVIOUS
  <2>2. i \in Nat /\ i <= n /\ i + 1 \in 1 .. n /\ (i + 1) - 1 = i  BY <1>1, <2>1
  <2>3. f[i] \in Rest \X Rest  BY <2>2
  <2>4. QED BY <1>1, <1>3, <2>2, <2>3, AddExactTyped
<1>6. S = Nat
  <2> HIDE DEF S
  <2>1. S \in SUBSET Nat  BY DEF S
  <2>2. QED BY <1>4, <1>5, <2>1, SetInduction
<1>7. QED BY <1>1, <1>2, <1>3, <1>6 DEF n

LEMMA ExactExists ==
  ASSUME NEW s \in Seq(Byte)
  PROVE  \E f : /\ Exact(s, f)
                /\ EachByte(s) = f[Len(s)][2] * HalfBase + f[Len(s)][1]
<1> DEFINE n == Len(s)
           D == Rest \X Rest
           F == [y \in (1 .. n) \X D |-> AddExact(y[2], s[y[1]])]
           f == CHOOSE f : Exact(s, f)
<1>1. n \in Nat /\ \A i \in 1 .. n : s[i] \in Byte  OBVIOUS
<1>2. <<1, 0>> \in D  BY BaseFacts DEF Rest
<1>3. IsStep(n, D, F)
  <2>1. \A y \in (1 .. n) \X D : AddExact(y[2], s[y[1]]) \in D  BY <1>1, AddExactTyped
  <2>2. QED BY <2>1 DEF IsStep
<1>4. \E g : Exact(s, g)
  <2> HIDE DEF D, F, n
  <2>1. PICK g : IsRecursion(n, D, <<1, 0>>, F, g)  BY <1>1, <1>2, <1>3, RecursionExists
  <2>2. /\ g \in [0 .. n -> D] /\ g[0] = <<1, 0>>
        /\ \A j \in 1 .. n : g[j] = F[<<j, g[j - 1]>>]
    BY <2>1 DEF IsRecursion
  <2>3. ASSUME NEW j \in 0 .. n
        PROVE  g[j] = IF j = 0 THEN <<1, 0>> ELSE AddExact(g[j - 1], s[j])
    <3>1. CASE j = 0  BY <2>2, <3>1
    <3>2. CASE j # 0
      <4>1. j \in 1 .. n /\ j - 1 \in 0 .. n  BY <1>1, <3>2
      <4>2. g[j - 1] \in D  BY <2>2, <4>1
      <4>3. F[<<j, g[j - 1]>>] = AddExact(g[j - 1], s[j])  BY <4>1, <4>2 DEF F
      <4>4. QED BY <2>2, <3>2, <4>1, <4>3
    <3>3. QED BY <3>1, <3>2
  <2>4. g = [i \in 0 .. n |-> g[i]]  BY <2>2
  <2>5. QED BY <2>3, <2>4 DEF Exact, n
<1>5. Exact(s, f)
  <2>1. QED BY <1>4
<1>6. EachByte(s) = f[Len(s)][2] * HalfBase + f[Len(s)][1]
  BY DEF EachByte, Exact, AddExact
<1>7. QED BY <1>5, <1>6

LEMMA HalvesTyped ==
  ASSUME NEW v \in Nat PROVE v % HalfBase \in Nat /\ v \div HalfBase \in Nat
<1>1. HalfBase \in Nat \ {0}  BY ByteFacts
<1>2. v \div HalfBase \in Nat /\ v % HalfBase \in 0 .. HalfBase - 1  BY <1>1, DivMod
<1>3. QED BY <1>1, <1>2

(* The sums that are reduced now and then. *)
AddDeferred(sums, s, i) ==
  IF i % Defer = 0 \/ i = Len(s) THEN Reduced(SumUp(sums, s[i])) ELSE SumUp(sums, s[i])
Deferred(adler, s, g) ==
  g = [i \in 0 .. Len(s) |->
         IF i = 0 THEN <<adler % HalfBase, adler \div HalfBase>> ELSE AddDeferred(g[i - 1], s, i)]

LEMMA AddDeferredTyped ==
  ASSUME NEW sums \in Nat \X Nat, NEW s, NEW i \in Nat, s[i] \in Byte
  PROVE  AddDeferred(sums, s, i) \in Nat \X Nat
<1>1. sums[1] \in Nat /\ sums[2] \in Nat /\ s[i] \in Nat  BY ByteFacts DEF Byte
<1>2. WordBase \in Nat \ {0} /\ BASE \in Nat \ {0}  BY ByteFacts, BaseFacts
<1>3. \A a \in Nat : a % WordBase \in Nat /\ a % BASE \in Nat  BY <1>2, DivMod
<1> DEFINE x == (sums[1] + s[i]) % WordBase
           y == (sums[2] + x) % WordBase
<1>4. x \in Nat  BY <1>1, <1>3
<1>5. y \in Nat
  <2> HIDE DEF x
  <2>1. sums[2] + x \in Nat  BY <1>1, <1>4
  <2>2. QED BY <1>3, <2>1
<1>6. SumUp(sums, s[i]) = <<x, y>>  BY DEF SumUp
<1> HIDE DEF x, y
<1>7. Reduced(<<x, y>>) = <<x % BASE, y % BASE>>  BY DEF Reduced
<1>8. <<x, y>> \in Nat \X Nat  BY <1>4, <1>5
<1>9. <<x % BASE, y % BASE>> \in Nat \X Nat  BY <1>3, <1>4, <1>5
<1>10. QED BY <1>6, <1>7, <1>8, <1>9 DEF AddDeferred

LEMMA DeferredTyped ==
  ASSUME NEW s \in Seq(Byte), NEW adler \in Nat, NEW g, Deferred(adler, s, g)
  PROVE  /\ g[0] = <<adler % HalfBase, adler \div HalfBase>>
         /\ \A i \in 0 .. Len(s) : g[i] \in Nat \X Nat
         /\ \A i \in 1 .. Len(s) : g[i] = AddDeferred(g[i - 1], s, i)
<1> DEFINE n == Len(s)
           z == <<adler % HalfBase, adler \div HalfBase>>
           S == {i \in Nat : i <= n => g[i] \in Nat \X Nat}
<1>0. \A i \in 0 .. n : g[i] = IF i = 0 THEN z ELSE AddDeferred(g[i - 1], s, i)
  BY DEF Deferred
<1>1. n \in Nat /\ \A i \in 1 .. n : s[i] \in Byte  OBVIOUS
<1>2. z \in Nat \X Nat
  <2>1. adler % HalfBase \in Nat /\ adler \div HalfBase \in Nat  BY HalvesTyped
  <2>2. QED BY <2>1
<1> HIDE DEF n, z
<1>3. g[0] = z  BY <1>0, <1>1
<1>4. \A i \in 1 .. n : g[i] = AddDeferred(g[i - 1], s, i)  BY <1>0, <1>1
<1>5. 0 \in S  BY <1>2, <1>3
<1>6. ASSUME NEW i \in S PROVE i + 1 \in S
  <2>1. SUFFICES ASSUME i + 1 <= n PROVE g[i + 1] \in Nat \X Nat  OBVIOUS
  <2>2. i \in Nat /\ i <= n /\ i + 1 \in Nat /\ i + 1 \in 1 .. n /\ (i + 1) - 1 = i  BY <1>1, <2>1
  <2>3. g[i] \in Nat \X Nat  BY <2>2
  <2>4. s[i + 1] \in Byte  BY <1>1, <2>2
  <2>5. AddDeferred(g[i], s, i + 1) \in Nat \X Nat  BY <2>2, <2>3, <2>4, AddDeferredTyped
  <2>6. QED BY <1>4, <2>2, <2>5
<1>7. S = Nat
  <2> HIDE DEF S
  <2>1. S \in SUBSET Nat  BY DEF S
  <2>2. QED BY <1>5, <1>6, <2>1, SetInduction
<1>8. QED BY <1>1, <1>3, <1>4, <1>7 DEF n, z

LEMMA DeferredExists ==
  ASSUME NEW s \in Seq(Byte), NEW adler \in Nat
  PROVE  \E g : /\ Deferred(adler, s, g)
                /\ xadler32(adler, s) = g[Len(s)][2] * HalfBase + g[Len(s)][1]
<1> DEFINE n == Len(s)
           D == Nat \X Nat
           z == <<adler % HalfBase, adler \div HalfBase>>
           F == [y \in (1 .. n) \X D |-> AddDeferred(y[2], s, y[1])]
           g == CHOOSE g : Deferred(adler, s, g)
<1>1. n \in Nat /\ \A i \in 1 .. n : s[i] \in Byte  OBVIOUS
<1>2. z \in D
  <2>1. adler % HalfBase \in Nat /\ adler \div HalfBase \in Nat  BY HalvesTyped
  <2>2. QED BY <2>1
<1>3. IsStep(n, D, F)
  <2>1. ASSUME NEW y \in (1 .. n) \X D PROVE AddDeferred(y[2], s, y[1]) \in D
    <3>1. y[1] \in 1 .. n /\ y[1] \in Nat /\ y[2] \in D  OBVIOUS
    <3>2. s[y[1]] \in Byte  BY <1>1, <3>1
    <3>3. QED BY <3>1, <3>2, AddDeferredTyped
  <2>2. QED BY <2>1 DEF IsStep
<1>4. \E h : Deferred(adler, s, h)
  <2> HIDE DEF D, F, n, z
  <2>1. PICK h : IsRecursion(n, D, z, F, h)  BY <1>1, <1>2, <1>3, RecursionExists
  <2>2. /\ h \in [0 .. n -> D] /\ h[0] = z
        /\ \A j \in 1 .. n : h[j] = F[<<j, h[j - 1]>>]
    BY <2>1 DEF IsRecursion
  <2>3. ASSUME NEW j \in 0 .. n
        PROVE  h[j] = IF j = 0 THEN z ELSE AddDeferred(h[j - 1], s, j)
    <3>1. CASE j = 0  BY <2>2, <3>1
    <3>2. CASE j # 0
      <4>1. j \in 1 .. n /\ j - 1 \in 0 .. n  BY <1>1, <3>2
      <4>2. h[j - 1] \in D  BY <2>2, <4>1
      <4>3. F[<<j, h[j - 1]>>] = AddDeferred(h[j - 1], s, j)  BY <4>1, <4>2 DEF F
      <4>4. QED BY <2>2, <3>2, <4>1, <4>3
    <3>3. QED BY <3>1, <3>2
  <2>4. h = [i \in 0 .. n |-> h[i]]  BY <2>2
  <2>5. QED BY <2>3, <2>4 DEF Deferred, n, z
<1>5. Deferred(adler, s, g)
  <2>1. QED BY <1>4
<1>6. xadler32(adler, s) = g[Len(s)][2] * HalfBase + g[Len(s)][1]
  BY DEF xadler32, Deferred, AddDeferred
<1>7. QED BY <1>5, <1>6

(* One byte: the two agree but for the reductions, and nothing is lost.    *)
Agree(g, f) == g[1] % BASE = f[1] /\ g[2] % BASE = f[2]
Bounded(g, j) == g[1] <= Bound1(j) /\ g[2] <= Bound2(j)

LEMMA AddAgrees ==
  ASSUME NEW g \in Nat \X Nat, NEW f \in Rest \X Rest, Agree(g, f), NEW b \in Byte,
         NEW j \in 0 .. NMAX - 1, Bounded(g, j)
  PROVE  /\ SumUp(g, b) \in Nat \X Nat
         /\ Agree(SumUp(g, b), AddExact(f, b))
         /\ Bounded(SumUp(g, b), j + 1)
<1> DEFINE x == g[1]
           y == g[2]
<1>1. x \in Nat /\ y \in Nat /\ b \in Nat /\ b <= ByteBase - 1 /\ ByteBase - 1 \in Nat
  BY ByteFacts DEF Byte
<1>2. f = <<x % BASE, y % BASE>>  BY DEF Agree
<1>3. x <= Bound1(j) /\ y <= Bound2(j)  BY DEF Bounded
<1>4. NMAX \in Nat \ {0} /\ j \in Nat /\ j + 1 <= NMAX /\ j + 1 \in Nat  BY BaseFacts
<1>5. /\ Bound1(j) \in Nat /\ Bound2(j) \in Nat
      /\ Bound1(j + 1) = Bound1(j) + (ByteBase - 1)
      /\ Bound2(j + 1) = Bound2(j) + Bound1(j + 1)
  BY <1>4, BoundsStep
<1>6. Bound2(j + 1) < WordBase /\ WordBase \in Nat \ {0}  BY <1>4, BoundHeld, ByteFacts
<1> HIDE DEF x, y
<1>7. x + b <= Bound1(j + 1) /\ y + (x + b) <= Bound2(j + 1)  BY <1>1, <1>3, <1>5
<1>8. x + b \in 0 .. WordBase - 1 /\ y + (x + b) \in 0 .. WordBase - 1
  BY <1>1, <1>5, <1>6, <1>7
<1>9. SumUp(g, b) = <<x + b, y + (x + b)>>
  <2>1. (x + b) % WordBase = x + b /\ (y + (x + b)) % WordBase = y + (x + b)
    BY <1>6, <1>8, ModSmall
  <2>2. QED BY <2>1 DEF SumUp, x, y
<1>10. AddExact(f, b) = <<(x + b) % BASE, (y + (x + b)) % BASE>>
  <2> DEFINE u == x % BASE
             v == y % BASE
  <2>1. BASE \in Nat \ {0}  BY BaseFacts
  <2>2. u \in Nat /\ (u + b) % BASE = (x + b) % BASE  BY <1>1, <2>1, ModSum
  <2>3. v \in Nat  BY <1>1, <2>1, ModSum
  <2>4. (v + (u + b)) % BASE = (y + (u + b)) % BASE
    <3> HIDE DEF u
    <3>1. u + b \in Nat  BY <1>1, <2>2
    <3>2. QED BY <1>1, <2>1, <3>1, ModSum
  <2>5. (u + (y + b)) % BASE = (x + (y + b)) % BASE
    <3>1. y + b \in Nat  BY <1>1
    <3>2. QED BY <1>1, <2>1, <3>1, ModSum
  <2>6. AddExact(f, b) = <<(u + b) % BASE, (v + u + b) % BASE>>  BY <1>2 DEF AddExact
  <2> HIDE DEF u, v
  <2>7. v + u + b = v + (u + b) /\ y + (u + b) = u + (y + b) /\ x + (y + b) = y + (x + b)
    BY <1>1, <2>2, <2>3
  <2>8. QED BY <2>2, <2>4, <2>5, <2>6, <2>7
<1>11. x + b \in Nat /\ y + (x + b) \in Nat  BY <1>1
<1>12. QED BY <1>7, <1>9, <1>10, <1>11 DEF Agree, Bounded

LEMMA ReducedAgrees ==
  ASSUME NEW g \in Nat \X Nat, NEW f \in Rest \X Rest, Agree(g, f)
  PROVE  Reduced(g) = f /\ Agree(Reduced(g), f) /\ Bounded(Reduced(g), 0)
<1>1. Reduced(g) = f  BY DEF Agree, Reduced
<1>2. f[1] \in Rest /\ f[2] \in Rest  OBVIOUS
<1>3. f[1] % BASE = f[1] /\ f[2] % BASE = f[2]  BY <1>2, BaseFacts, ModSmall DEF Rest
<1>4. f[1] <= BASE - 1 /\ f[2] <= BASE - 1  BY <1>2, BaseFacts DEF Rest
<1>5. QED BY <1>1, <1>3, <1>4, BoundsAtStart DEF Agree, Bounded

(* The exact sums of a text begin with those of its beginning. *)
LEMMA ExactBegins ==
  ASSUME NEW s \in Seq(Byte), NEW t \in Seq(Byte), NEW e, Exact(s, e), NEW f, Exact(s \o t, f)
  PROVE  e[Len(s)] = f[Len(s)]
<1> DEFINE n == Len(s)
           u == s \o t
           S == {i \in Nat : i <= n => e[i] = f[i]}
<1>1. n \in Nat /\ u \in Seq(Byte) /\ Len(u) >= n /\ Len(u) \in Nat
      /\ \A i \in 1 .. n : u[i] = s[i]
  BY ConcatProperties
<1>2. e[0] = f[0] /\ (\A i \in 1 .. n : e[i] = AddExact(e[i - 1], s[i]))
      /\ (\A i \in 1 .. n : f[i] = AddExact(f[i - 1], u[i]))
  <2>1. e[0] = <<1, 0>> /\ (\A i \in 1 .. n : e[i] = AddExact(e[i - 1], s[i]))
    BY ExactTyped
  <2>2. f[0] = <<1, 0>> /\ (\A i \in 1 .. Len(u) : f[i] = AddExact(f[i - 1], u[i]))
    <3> HIDE DEF n
    <3>1. u \in Seq(Byte) /\ Exact(u, f)  BY <1>1
    <3> HIDE DEF u
    <3>2. QED BY <3>1, ExactTyped
  <2> HIDE DEF u, n
  <2>3. QED BY <1>1, <2>1, <2>2
<1> HIDE DEF n, u
<1>3. 0 \in S  BY <1>2
<1>4. ASSUME NEW i \in S PROVE i + 1 \in S
  <2>1. SUFFICES ASSUME i + 1 <= n PROVE e[i + 1] = f[i + 1]  OBVIOUS
  <2>2. i \in Nat /\ i <= n /\ i + 1 \in 1 .. n /\ (i + 1) - 1 = i  BY <1>1, <2>1
  <2>3. e[i] = f[i]  BY <2>2
  <2>4. QED BY <1>1, <1>2, <2>2, <2>3
<1>5. S = Nat
  <2> HIDE DEF S
  <2>1. S \in SUBSET Nat  BY DEF S
  <2>2. QED BY <1>3, <1>4, <2>1, SetInduction
<1>6. QED BY <1>1, <1>5 DEF n

(* The checksum of a text, carried on over another, is that of both:      *)
(* between two reductions the sums agree up to BASE and fit in a word.     *)
LEMMA ChecksumJoins ==
  ASSUME NEW s \in Seq(Byte), NEW t \in Seq(Byte)
  PROVE  xadler32(EachByte(s), t) = EachByte(s \o t) /\ EachByte(s) \in Nat
<1> DEFINE n == Len(s)
           l == Len(t)
           u == s \o t
           a == EachByte(s)
<1>1. /\ n \in Nat /\ l \in Nat /\ u \in Seq(Byte) /\ Len(u) = n + l
      /\ \A i \in 1 .. l : t[i] \in Byte /\ u[n + i] = t[i]
  <2>1. u \in Seq(Byte) /\ Len(u) = n + l
        /\ \A i \in 1 .. n + l : u[i] = IF i <= n THEN s[i] ELSE t[i - n]
    BY ConcatProperties
  <2>2. n \in Nat /\ l \in Nat /\ \A i \in 1 .. l : t[i] \in Byte  OBVIOUS
  <2> HIDE DEF u, n, l
  <2>3. \A i \in 1 .. l : n + i \in 1 .. n + l /\ ~(n + i <= n) /\ (n + i) - n = i  BY <2>2
  <2>4. QED BY <2>1, <2>2, <2>3
<1>2. PICK e : Exact(s, e) /\ a = e[n][2] * HalfBase + e[n][1]  BY ExactExists
<1>3. PICK f : Exact(u, f) /\ EachByte(u) = f[n + l][2] * HalfBase + f[n + l][1]
  <2> HIDE DEF u, n, l
  <2>1. QED BY <1>1, ExactExists
<1>4. e[n] = f[n]  BY <1>2, <1>3, ExactBegins
<1> HIDE DEF u
<1>5. \A i \in 0 .. l : f[n + i] \in Rest \X Rest
  <2>1. \A k \in 0 .. n + l : f[k] \in Rest \X Rest  BY <1>1, <1>3, ExactTyped
  <2> HIDE DEF n, l
  <2>2. \A i \in 0 .. l : n + i \in 0 .. n + l  BY <1>1
  <2>3. QED BY <2>1, <2>2
<1>6. \A i \in 1 .. l : f[n + i] = AddExact(f[n + (i - 1)], t[i])
  <2>1. \A k \in 1 .. n + l : f[k] = AddExact(f[k - 1], u[k])  BY <1>1, <1>3, ExactTyped
  <2> HIDE DEF n, l
  <2>2. \A i \in 1 .. l : n + i \in 1 .. n + l /\ (n + i) - 1 = n + (i - 1)  BY <1>1
  <2>3. QED BY <1>1, <2>1, <2>2
<1>7. f[n] \in Rest \X Rest
  <2> HIDE DEF n, l
  <2>1. 0 \in 0 .. l /\ n + 0 = n  BY <1>1
  <2>2. QED BY <1>5, <2>1
<1>8. a \in Nat /\ <<a % HalfBase, a \div HalfBase>> = f[n]
  <2> DEFINE x == f[n][1]
             y == f[n][2]
  <2>1. x \in Rest /\ y \in Rest /\ f[n] = <<x, y>>  BY <1>7
  <2>2. a = y * HalfBase + x  BY <1>2, <1>4
  <2> HIDE DEF a, x, y
  <2>3. HalfBase \in Nat \ {0} /\ y \in Nat /\ x \in 0 .. HalfBase - 1
    BY <2>1, ByteFacts, BaseFacts DEF Rest
  <2>4. a % HalfBase = x /\ a \div HalfBase = y  BY <2>2, <2>3, DivModUnique
  <2>5. a \in Nat
    <3>1. y * HalfBase \in Nat  BY <2>3
    <3>2. QED BY <2>2, <2>3, <3>1
  <2>6. QED BY <2>1, <2>4, <2>5
<1> HIDE DEF a
<1>9. PICK g : /\ Deferred(a, t, g)
               /\ xadler32(a, t) = g[l][2] * HalfBase + g[l][1]
  BY <1>8, DeferredExists
<1>10. /\ g[0] = f[n] /\ \A i \in 0 .. l : g[i] \in Nat \X Nat
       /\ \A i \in 1 .. l : g[i] = AddDeferred(g[i - 1], t, i)
  BY <1>8, <1>9, DeferredTyped
<1> HIDE DEF n
<1> DEFINE Holds(i) == /\ Agree(g[i], f[n + i])
                       /\ i < l => Bounded(g[i], i % NMAX)
                       /\ i = l => g[i] = f[n + i]
           S == {i \in Nat : i <= l => Holds(i)}
<1>11. NMAX \in Nat \ {0} /\ BASE \in Nat \ {0}  BY BaseFacts
<1>12. 0 \in S
  <2>1. n + 0 = n /\ 0 % NMAX = 0 /\ 0 \in Nat  BY <1>1, <1>11, ModSmall
  <2>2. f[n][1] \in Rest /\ f[n][2] \in Rest  BY <1>7
  <2>3. f[n][1] % BASE = f[n][1] /\ f[n][2] % BASE = f[n][2]
    BY <2>2, <1>11, ModSmall DEF Rest
  <2>4. f[n][1] <= BASE - 1 /\ f[n][2] <= BASE - 1  BY <2>2, <1>11 DEF Rest
  <2>5. Agree(g[0], f[n]) /\ Bounded(g[0], 0)
    BY <1>10, <2>3, <2>4, BoundsAtStart DEF Agree, Bounded
  <2>6. QED BY <1>10, <2>1, <2>5
<1>13. ASSUME NEW i \in S PROVE i + 1 \in S
  <2> DEFINE j == i % NMAX
             G == g[i]
             E == f[n + i]
             b == t[i + 1]
  <2>1. SUFFICES ASSUME i + 1 <= l PROVE Holds(i + 1)  OBVIOUS
  <2>2. i \in Nat /\ i < l /\ i + 1 \in 1 .. l /\ (i + 1) - 1 = i /\ i \in 0 .. l /\ i + 1 \in 0 .. l
    BY <1>1, <2>1
  <2>3. Agree(G, E) /\ Bounded(G, j)  BY <2>2
  <2>4. G \in Nat \X Nat /\ E \in Rest \X Rest /\ b \in Byte  BY <1>1, <1>5, <1>10, <2>2
  <2>5. j \in 0 .. NMAX - 1 /\ (i + 1) % NMAX = IF j + 1 = NMAX THEN 0 ELSE j + 1
    BY <1>11, <2>2, DivMod, ModNext
  <2>6. g[i + 1] = AddDeferred(G, t, i + 1) /\ f[n + (i + 1)] = AddExact(E, b)
    BY <1>6, <1>10, <2>2
  <2>7. AddExact(E, b) \in Rest \X Rest  BY <2>4, AddExactTyped
  <2> HIDE DEF j, G, E, b, S
  <2>8. /\ SumUp(G, b) \in Nat \X Nat /\ Agree(SumUp(G, b), AddExact(E, b))
        /\ Bounded(SumUp(G, b), j + 1)
    BY <2>3, <2>4, <2>5, AddAgrees
  <2>9. CASE (i + 1) % NMAX = 0 \/ i + 1 = l
    <3>1. g[i + 1] = Reduced(SumUp(G, b))  BY <2>6, <2>9 DEF AddDeferred, Defer, b
    <3>2. /\ Reduced(SumUp(G, b)) = AddExact(E, b)
          /\ Agree(Reduced(SumUp(G, b)), AddExact(E, b)) /\ Bounded(Reduced(SumUp(G, b)), 0)
      BY <2>7, <2>8, ReducedAgrees
    <3>3. i + 1 < l => (i + 1) % NMAX = 0  BY <2>2, <2>9, <1>1
    <3>4. QED BY <2>6, <3>1, <3>2, <3>3
  <2>10. CASE ~((i + 1) % NMAX = 0 \/ i + 1 = l)
    <3>1. g[i + 1] = SumUp(G, b)  BY <2>6, <2>10 DEF AddDeferred, Defer, b
    <3>2. (i + 1) % NMAX = j + 1  BY <2>5, <2>10
    <3>3. QED BY <2>6, <2>8, <2>10, <3>1, <3>2
  <2>11. QED BY <2>9, <2>10
<1>14. S = Nat
  <2> HIDE DEF S
  <2>1. S \in SUBSET Nat  BY DEF S
  <2>2. QED BY <1>12, <1>13, <2>1, SetInduction
<1>15. g[l] = f[n + l]  BY <1>1, <1>14
<1>16. QED BY <1>3, <1>8, <1>9, <1>15 DEF a, u

LEMMA ChecksumOfNothing == EachByte(<<>>) = NoChecksum
<1>1. <<>> \in Seq(Byte) /\ Len(<<>>) = 0  OBVIOUS
<1>2. PICK f : Exact(<<>>, f) /\ EachByte(<<>>) = f[0][2] * HalfBase + f[0][1]
  BY <1>1, ExactExists
<1>3. f[0] = <<1, 0>>  BY <1>1, <1>2, ExactTyped
<1>4. 0 * HalfBase + 1 = 1  BY ByteFacts
<1>5. QED BY <1>2, <1>3, <1>4 DEF NoChecksum

LEMMA ChecksumTyped ==
  ASSUME NEW adler \in Nat, NEW s \in Seq(Byte)
  PROVE  xadler32(adler, s) \in Nat
<1> DEFINE n == Len(s)
<1>1. PICK g : /\ Deferred(adler, s, g)
               /\ xadler32(adler, s) = g[n][2] * HalfBase + g[n][1]
  BY DeferredExists
<1>2. n \in 0 .. Len(s)  OBVIOUS
<1>3. g[n] \in Nat \X Nat  BY <1>1, <1>2, DeferredTyped
<1> HIDE DEF n
<1>4. g[n][1] \in Nat /\ g[n][2] \in Nat  BY <1>3
<1>5. g[n][2] * HalfBase \in Nat  BY <1>4, ByteFacts
<1>6. QED BY <1>1, <1>4, <1>5

-----------------------------------------------------------------------------
(* The container. *)
PInv ==
  /\ file \in Seq(Byte) /\ archive \in Seq(Byte) /\ fo \in Seq(Byte)
  /\ fi \in Nat /\ checksum \in Nat /\ header_size \in Nat /\ out_len \in Nat
  /\ ppc \in {"read", "compress"} => fi <= Len(file)
  /\ ppc \in {"read", "compress", "header"} => fo = <<>>
  /\ ChecksumExact

IInv == CInv /\ DInv /\ PInv

LEMMA MinOf ==
  ASSUME NEW S \in SUBSET Nat, S # {}
  PROVE  Min(S) \in S /\ \A y \in S : Min(S) <= y
BY LeastOf DEF Min

LEMMA SubSeqJoin ==
  ASSUME NEW s \in Seq(Byte), NEW i \in Nat, NEW j \in Nat, i <= j, j <= Len(s)
  PROVE  /\ SubSeq(s, 1, i) \in Seq(Byte) /\ SubSeq(s, i + 1, j) \in Seq(Byte)
         /\ Len(SubSeq(s, i + 1, j)) = j - i
         /\ SubSeq(s, 1, j) = SubSeq(s, 1, i) \o SubSeq(s, i + 1, j)
<1>0. Len(s) \in Nat /\ \A k \in 1 .. Len(s) : s[k] \in Byte  OBVIOUS
<1>1. SubSeq(s, 1, i) \in Seq(Byte)  BY <1>0, SubSeqProperties
<1>2. SubSeq(s, i + 1, j) \in Seq(Byte) /\ Len(SubSeq(s, i + 1, j)) = j - i
  BY <1>0, SubSeqProperties
<1>3. 1 \in 1 .. Len(s) + 1 /\ i \in 1 - 1 .. Len(s) /\ j \in i .. Len(s)  BY <1>0
<1>4. SubSeq(s, 1, i) \o SubSeq(s, i + 1, j) = SubSeq(s, 1, j)
  BY <1>3, ConcatAdjacentSubSeq
<1>5. QED BY <1>1, <1>2, <1>4

LEMMA Joined ==
  \A s, t \in Seq(Byte) : s \o t \in Seq(Byte) /\ Len(s \o t) = Len(s) + Len(t)
BY ConcatProperties

LEMMA Typing ==
  /\ block_size \in Nat \ {0} /\ Slack \in Nat /\ MaxDamaged \in Nat
  /\ MinBlockSize .. MaxBlockSize \subseteq Nat
  /\ Header \in Seq(Byte) /\ Len(Header) = Len(magic) + 10 /\ Len(magic) \in Nat
<1>1. /\ block_size \in Nat \ {0} /\ Slack \in Nat /\ MaxDamaged \in Nat
      /\ MinBlockSize \in Nat /\ MaxBlockSize \in Nat
  BY BlockAssumption, PackAssumption
<1> DEFINE v == Word(1)
           w == Word(block_size)
           x == <<MethodByte, LevelByte>>
<1>2. v \in Seq(Byte) /\ Len(v) = 4 /\ w \in Seq(Byte) /\ Len(w) = 4  BY <1>1, WordTyped
<1>3. x \in Seq(Byte) /\ Len(x) = 2 /\ magic \in Seq(Byte)  BY PackAssumption
<1>4. Header = magic \o v \o x \o w  BY DEF Header
<1> HIDE DEF v, w, x
<1>5. Header \in Seq(Byte) /\ Len(Header) = Len(magic) + 10
  <2>1. magic \o v \in Seq(Byte) /\ Len(magic \o v) = Len(magic) + 4
    BY <1>2, <1>3, Joined
  <2>2. magic \o v \o x \in Seq(Byte) /\ Len(magic \o v \o x) = Len(magic) + 4 + 2
    BY <1>3, <2>1, Joined
  <2>3. Header \in Seq(Byte) /\ Len(Header) = Len(magic) + 4 + 2 + 4
    BY <1>2, <1>4, <2>2, Joined
  <2>4. QED BY <1>3, <2>3
<1>6. MinBlockSize .. MaxBlockSize \subseteq Nat  BY <1>1
<1>7. Len(magic) \in Nat  BY <1>3
<1>8. QED BY <1>1, <1>5, <1>6, <1>7

LEMMA NumberTyped ==
  ASSUME archive \in Seq(Byte), NEW p \in Nat, p + 4 <= Len(archive)
  PROVE  Number(p) \in Nat
<1>1. \A k \in 1 .. 4 : p + k \in 1 .. Len(archive)  OBVIOUS
<1>2. Byte \subseteq Nat /\ ByteBase \in Nat  BY ByteFacts DEF Byte
<1>3. \A k \in 1 .. 4 : archive[p + k] \in Nat
  <2>1. \A k \in 1 .. Len(archive) : archive[k] \in Byte  OBVIOUS
  <2>2. QED BY <1>1, <1>2, <2>1
<1> DEFINE a == archive[p + 1]
           b == archive[p + 2]
           c == archive[p + 3]
           d == archive[p + 4]
<1>4. a \in Nat /\ b \in Nat /\ c \in Nat /\ d \in Nat  BY <1>3
<1>5. Number(p) = ((a * ByteBase + b) * ByteBase + c) * ByteBase + d  BY DEF Number
<1> HIDE DEF a, b, c, d
<1>6. a * ByteBase + b \in Nat  BY <1>2, <1>4
<1>7. (a * ByteBase + b) * ByteBase + c \in Nat  BY <1>2, <1>4, <1>6
<1>8. ((a * ByteBase + b) * ByteBase + c) * ByteBase + d \in Nat  BY <1>2, <1>4, <1>7
<1>9. QED BY <1>5, <1>8

(* The sizes that are taken for a block's, and its bytes. *)
LEMMA BlockReadTyped ==
  ASSUME PInv, BlockRead
  PROVE  /\ Number(fi) \in Nat /\ Number(fi + 4) \in Nat
         /\ Payload(Number(fi + 4)) \in Seq(Byte)
<1>1. archive \in Seq(Byte) /\ fi \in Nat /\ Len(archive) \in Nat /\ fi + 8 <= Len(archive)
  BY DEF PInv, BlockRead, Has
<1>2. Number(fi) \in Nat /\ Number(fi + 4) \in Nat
  <2>1. fi + 4 <= Len(archive) /\ fi + 4 \in Nat /\ (fi + 4) + 4 <= Len(archive)  BY <1>1
  <2>2. QED BY <1>1, <2>1, NumberTyped
<1> DEFINE n == Number(fi + 4)
<1>3. fi + (8 + n) <= Len(archive)  BY DEF BlockRead, Has
<1>4. Payload(n) = SubSeq(archive, fi + 9, fi + 8 + n)  BY DEF Payload
<1>5. n \in Nat  BY <1>2
<1> HIDE DEF n
<1>6. \A k \in fi + 9 .. fi + 8 + n : archive[k] \in Byte
  <2>1. \A k \in fi + 9 .. fi + 8 + n : k \in 1 .. Len(archive)  BY <1>1, <1>3, <1>5
  <2>2. QED BY <1>1, <2>1
<1>7. fi + 9 \in Int /\ fi + 8 + n \in Int  BY <1>1, <1>5
<1>8. SubSeq(archive, fi + 9, fi + 8 + n) \in Seq(Byte)  BY <1>6, <1>7, SubSeqProperties
<1>9. QED BY <1>2, <1>4, <1>8 DEF n

(* What is written is added to the checksum. *)
LEMMA WriteOutKeeps ==
  ASSUME PInv, ppc \in {"sizes", "decompress"}, NEW s \in Seq(Byte), WriteOut(s),
         ppc' = "sizes", fi' \in Nat, UNCHANGED <<kept, archive, header_size, out_len>>
  PROVE  PInv'
<1>1. fo \in Seq(Byte) /\ checksum \in Nat  BY DEF PInv
<1>2. fo' = fo \o s /\ checksum' = xadler32(checksum, s)  BY DEF WriteOut
<1>3. fo' \in Seq(Byte)  BY <1>1, <1>2, ConcatProperties
<1>4. checksum' \in Nat  BY <1>1, <1>2, ChecksumTyped
<1>5. client = "uclpack" => checksum' = EachByte(fo')
  <2>1. client = "uclpack" => checksum = EachByte(fo)  BY DEF PInv, ChecksumExact
  <2>2. xadler32(EachByte(fo), s) = EachByte(fo \o s)  BY <1>1, ChecksumJoins
  <2>3. QED BY <1>2, <2>1, <2>2
<1>6. EachByte(fo)' = EachByte(fo')  BY DEF EachByte
<1>7. ChecksumExact'  BY <1>5, <1>6 DEF ChecksumExact, kept
<1>8. QED BY <1>3, <1>4, <1>7 DEF PInv, kept

(* A refusal, and any step that leaves the container. *)
LEMMA RefuseKeeps == ASSUME IInv, NEW code, Refuse(code) PROVE IInv'
<1>1. CInv' /\ DInv'  BY CompressorStays, DecompressorStays DEF IInv, Refuse
<1>2. PInv'  BY DEF IInv, PInv, ChecksumExact, Refuse, kept
<1>3. QED BY <1>1, <1>2 DEF IInv

LEMMA ContainerStays == ASSUME PInv, UNCHANGED pvars PROVE PInv'
<1>1. EachByte(SubSeq(file, 1, fi))' = EachByte(SubSeq(file', 1, fi'))
      /\ EachByte(fo)' = EachByte(fo')
  BY DEF EachByte
<1>2. ChecksumExact'  BY <1>1 DEF PInv, ChecksumExact, pvars
<1>3. QED BY <1>2 DEF PInv, pvars

(* The actions of the container. *)
LEMMA ReadBlockKeeps == ASSUME IInv, ReadBlock PROVE IInv'
<1> DEFINE S == {fi + block_size, Len(file)}
           e == Min(S)
           t == SubSeq(file, fi + 1, e)
           b == SubSeq(file, 1, fi)
<1>1. /\ file \in Seq(Byte) /\ fi \in Nat /\ checksum \in Nat /\ fi < Len(file)
      /\ Len(file) \in Nat /\ block_size \in Nat \ {0} /\ ppc = "read"
  BY Typing DEF IInv, PInv, ReadBlock
<1>2. S \in SUBSET Nat /\ S # {}  BY <1>1
<1>3. e \in S /\ \A y \in S : e <= y  BY <1>2, MinOf
<1> HIDE DEF e
<1>4. e \in Nat /\ fi <= e /\ e <= Len(file)  BY <1>1, <1>3
<1>5. /\ b \in Seq(Byte) /\ t \in Seq(Byte) /\ Len(t) = e - fi
      /\ SubSeq(file, 1, e) = b \o t
  BY <1>1, <1>4, SubSeqJoin
<1>6. /\ fi' = fi + Len(t) /\ checksum' = xadler32(checksum, t) /\ CompressStart(t)
      /\ ppc' = "compress"
      /\ UNCHANGED <<dvars, kept, archive, hit, header_size, out_len, fo, r>>
  BY DEF ReadBlock, t, e
<1> HIDE DEF t, b
<1>7. CInv'  BY <1>5, <1>6, StartCompressor
<1>8. DInv'  BY <1>6, DecompressorStays DEF IInv
<1>9. fi' = e  BY <1>1, <1>4, <1>5, <1>6
<1>10. checksum' \in Nat  BY <1>1, <1>5, <1>6, ChecksumTyped
<1>11. client = "uclpack" => checksum' = EachByte(SubSeq(file, 1, e))
  <2>1. client = "uclpack" => checksum = EachByte(b)
    BY <1>1 DEF IInv, PInv, ChecksumExact, b
  <2>2. xadler32(EachByte(b), t) = EachByte(b \o t)  BY <1>5, ChecksumJoins
  <2>3. QED BY <1>5, <1>6, <2>1, <2>2
<1>12. EachByte(SubSeq(file, 1, fi))' = EachByte(SubSeq(file', 1, fi'))  BY DEF EachByte
<1>13. ChecksumExact'  BY <1>6, <1>9, <1>11, <1>12 DEF ChecksumExact, kept
<1>14. PInv'
  <2>1. /\ file' = file /\ archive' = archive /\ fo' = fo /\ header_size' = header_size
        /\ out_len' = out_len
    BY <1>6 DEF kept
  <2>2. QED BY <1>1, <1>4, <1>6, <1>9, <1>10, <1>13, <2>1 DEF IInv, PInv
<1>15. QED BY <1>7, <1>8, <1>14 DEF IInv

(* The container reads on with what it had read. *)
LEMMA ReadsOn ==
  ASSUME PInv, ppc = "compress", ppc' = "read", archive' \in Seq(Byte),
         UNCHANGED <<kept, fi, header_size, out_len, checksum, fo>>
  PROVE  PInv'
<1>1. EachByte(SubSeq(file, 1, fi))' = EachByte(SubSeq(file', 1, fi'))  BY DEF EachByte
<1>2. ChecksumExact'  BY <1>1 DEF PInv, ChecksumExact, kept
<1>3. QED BY <1>2 DEF PInv, kept

LEMMA WriteBlockKeeps == ASSUME IInv, WriteBlock PROVE IInv'
<1>1. CInv' /\ DInv'  BY CompressorStays, DecompressorStays DEF IInv, WriteBlock
<1> DEFINE block == Block(out)
           part == IF Len(block) < Len(text) THEN Word(Len(block)) \o block
                   ELSE Word(Len(text)) \o text
<1>2. block \in Seq(Byte) /\ text \in Seq(Byte) /\ archive \in Seq(Byte)
  BY BlockTyped DEF IInv, CInv, CType, PInv
<1>3. /\ ppc = "compress" /\ UNCHANGED <<kept, fi, header_size, out_len, checksum, fo>>
      /\ \/ ppc' = "end" /\ archive' = archive
         \/ ppc' = "read" /\ archive' = archive \o Word(Len(text)) \o part
  BY DEF WriteBlock
<1> HIDE DEF block
<1>4. Len(block) \in Nat /\ Len(text) \in Nat  BY <1>2
<1>5. Word(Len(block)) \in Seq(Byte) /\ Word(Len(text)) \in Seq(Byte)  BY <1>4, WordTyped
<1>6. part \in Seq(Byte)  BY <1>2, <1>5, Joined
<1> HIDE DEF part
<1>7. archive \o Word(Len(text)) \in Seq(Byte)  BY <1>2, <1>5, Joined
<1>8. archive \o Word(Len(text)) \o part \in Seq(Byte)  BY <1>6, <1>7, Joined
<1>9. CASE ppc' = "end" /\ archive' = archive
  <2>1. PInv'  BY <1>3, <1>9 DEF IInv, PInv, ChecksumExact, kept
  <2>2. QED BY <1>1, <2>1 DEF IInv
<1>10. CASE ppc' = "read" /\ archive' = archive \o Word(Len(text)) \o part
  <2>1. archive' \in Seq(Byte)  BY <1>8, <1>10
  <2>2. PInv /\ ppc' = "read"  BY <1>10 DEF IInv
  <2>3. PInv'  BY <1>3, <2>1, <2>2, ReadsOn
  <2>4. QED BY <1>1, <2>3 DEF IInv
<1>11. QED BY <1>3, <1>9, <1>10

LEMMA WriteEOFKeeps == ASSUME IInv, WriteEOF PROVE IInv'
<1>1. CInv' /\ DInv'  BY CompressorStays, DecompressorStays DEF IInv, WriteEOF
<1>2. archive \in Seq(Byte) /\ checksum \in Nat /\ 0 \in Nat  BY DEF IInv, PInv
<1>3. Word(0) \in Seq(Byte) /\ Word(checksum) \in Seq(Byte)  BY <1>2, WordTyped
<1>4. archive \o Word(0) \in Seq(Byte)  BY <1>2, <1>3, Joined
<1>5. archive \o Word(0) \o Word(checksum) \in Seq(Byte)  BY <1>3, <1>4, Joined
<1>6. PInv'  BY <1>5 DEF IInv, PInv, ChecksumExact, WriteEOF, kept
<1>7. QED BY <1>1, <1>6 DEF IInv

LEMMA DamageKeeps == ASSUME IInv, Damage PROVE IInv'
<1>1. CInv' /\ DInv'  BY CompressorStays, DecompressorStays DEF IInv, Damage
<1>2. archive \in Seq(Byte) /\ DOMAIN archive = 1 .. Len(archive) /\ Len(archive) \in Nat
  BY DEF IInv, PInv
<1>3. PICK p \in DOMAIN archive :
        \/ archive' = SubSeq(archive, 1, p - 1)
        \/ \E b \in Byte \ {archive[p]} : archive' = [archive EXCEPT ![p] = b]
  BY DEF Damage
<1>4. p \in 1 .. Len(archive)  BY <1>2, <1>3
<1>5. archive' \in Seq(Byte)
  <2>1. CASE archive' = SubSeq(archive, 1, p - 1)
    <3>1. p - 1 \in Int /\ \A k \in 1 .. p - 1 : archive[k] \in Byte  BY <1>2, <1>4
    <3>2. SubSeq(archive, 1, p - 1) \in Seq(Byte)  BY <3>1, SubSeqProperties
    <3>3. QED BY <2>1, <3>2
  <2>2. CASE \E b \in Byte : archive' = [archive EXCEPT ![p] = b]
    BY <1>2, <1>4, <2>2, ExceptSeq
  <2>3. QED BY <1>3, <2>1, <2>2
<1>6. PInv'  BY <1>5 DEF IInv, PInv, ChecksumExact, Damage, kept
<1>7. QED BY <1>1, <1>6 DEF IInv

LEMMA ReadHeaderKeeps == ASSUME IInv, ReadHeader PROVE IInv'
<1> DEFINE size == Number(MethodAt + 2)
<1>1. CASE Refuse(1) \/ Refuse(3)  BY <1>1, RefuseKeeps
<1>2. CASE /\ size \in MinBlockSize .. MaxBlockSize /\ header_size' = size
           /\ fi' = Len(Header) /\ checksum' = NoChecksum /\ ppc' = "sizes"
           /\ UNCHANGED <<cvars, dvars, kept, archive, hit, out_len, fo, r>>
  <2>1. CInv' /\ DInv'  BY <1>2, CompressorStays, DecompressorStays DEF IInv
  <2>2. fo = <<>>  BY DEF IInv, PInv, ReadHeader
  <2>3. checksum' \in Nat /\ checksum' = EachByte(<<>>)
    BY <1>2, ChecksumOfNothing DEF NoChecksum
  <2>4. fi' \in Nat /\ header_size' \in Nat  BY <1>2, Typing
  <2>5. EachByte(fo)' = EachByte(fo')  BY DEF EachByte
  <2> HIDE DEF size
  <2>6. ChecksumExact'  BY <1>2, <2>2, <2>3, <2>5 DEF ChecksumExact
  <2>7. PInv'  BY <1>2, <2>3, <2>4, <2>6 DEF IInv, PInv, kept
  <2>8. QED BY <2>1, <2>7 DEF IInv
<1>3. QED BY <1>1, <1>2 DEF ReadHeader

LEMMA StoredBlockKeeps == ASSUME IInv, StoredBlock PROVE IInv'
<1> DEFINE n == Number(fi)
<1>1. CInv' /\ DInv'  BY CompressorStays, DecompressorStays DEF IInv, StoredBlock
<1>2. PInv /\ BlockRead /\ n = Number(fi + 4)  BY DEF IInv, StoredBlock
<1>3. n \in Nat /\ Payload(n) \in Seq(Byte)  BY <1>2, BlockReadTyped
<1>4. /\ WriteOut(Payload(n)) /\ fi' = fi + 8 + n /\ ppc = "sizes" /\ ppc' = "sizes"
      /\ UNCHANGED <<kept, archive, header_size, out_len>>
  BY DEF StoredBlock, BlockRead
<1> HIDE DEF n
<1>5. fi' \in Nat  BY <1>2, <1>3, <1>4 DEF PInv
<1>6. PInv'  BY <1>2, <1>3, <1>4, <1>5, WriteOutKeeps
<1>7. QED BY <1>1, <1>6 DEF IInv

LEMMA UnknownMethodKeeps == ASSUME IInv, UnknownMethod PROVE IInv'
<1> DEFINE n == Number(fi)
           m == Number(fi + 4)
<1>1. CInv' /\ DInv'  BY CompressorStays, DecompressorStays DEF IInv, UnknownMethod
<1>2. PInv /\ BlockRead  BY DEF IInv, UnknownMethod
<1>3. n \in Nat /\ m \in Nat  BY <1>2, BlockReadTyped
<1>4. PICK g \in Byte : WriteOut([k \in 1 .. n |-> g])  BY DEF UnknownMethod
<1>5. /\ fi' = fi + 8 + m /\ ppc = "sizes" /\ ppc' = "sizes"
      /\ UNCHANGED <<kept, archive, header_size, out_len>>
  BY DEF UnknownMethod, BlockRead
<1> HIDE DEF n, m
<1>6. fi' \in Nat  BY <1>2, <1>3, <1>5 DEF PInv
<1>7. [k \in 1 .. n |-> g] \in Seq(Byte)  BY <1>3, <1>4
<1>8. PInv'  BY <1>2, <1>4, <1>5, <1>6, <1>7, WriteOutKeeps
<1>9. QED BY <1>1, <1>8 DEF IInv

LEMMA CompressedBlockKeeps == ASSUME IInv, CompressedBlock PROVE IInv'
<1> DEFINE n == Number(fi)
           m == Number(fi + 4)
           where == buf_len - m
<1>1. PInv /\ BlockRead /\ ppc = "sizes"  BY DEF IInv, CompressedBlock, BlockRead
<1>2. /\ n \in Nat /\ m \in Nat /\ Payload(m) \in Seq(Byte)
      /\ where \in Nat
  <2>1. n \in Nat /\ m \in Nat /\ Payload(m) \in Seq(Byte)  BY <1>1, BlockReadTyped
  <2>2. m <= header_size /\ header_size \in Nat  BY <1>1 DEF BlockRead, Sane, PInv
  <2>3. N \in Nat \ {0} /\ Slack \in Nat  BY ByteFacts, Typing
  <2>4. header_size \div N \in Nat  BY <2>2, <2>3, DivMod
  <2>5. buf_len = header_size + header_size \div N + Slack  BY DEF buf_len, N
  <2>6. QED BY <2>1, <2>2, <2>3, <2>4, <2>5
<1>3. /\ DecompressStart(Payload(m), where, n) /\ out_len' = n /\ fi' = fi + 8 + m
      /\ ppc' = "decompress"
      /\ UNCHANGED <<cvars, kept, archive, hit, header_size, checksum, fo, r>>
  BY DEF CompressedBlock
<1> HIDE DEF n, m, where
<1>4. CInv'  BY <1>3, CompressorStays DEF IInv
<1>5. DInv'  BY <1>2, <1>3, StartDecompressor
<1>6. EachByte(fo)' = EachByte(fo')  BY DEF EachByte
<1>7. ChecksumExact'  BY <1>1, <1>3, <1>6 DEF PInv, ChecksumExact, kept
<1>8. fi' \in Nat  BY <1>1, <1>2, <1>3 DEF PInv
<1>9. PInv'  BY <1>1, <1>2, <1>3, <1>7, <1>8 DEF PInv, kept
<1>10. QED BY <1>4, <1>5, <1>9 DEF IInv

LEMMA DecompressedKeeps == ASSUME IInv, Decompressed PROVE IInv'
<1>1. CASE Refuse(6)  BY <1>1, RefuseKeeps
<1>2. CASE /\ WriteOut(dst) /\ ppc' = "sizes"
           /\ UNCHANGED <<cvars, dvars, kept, fi, archive, hit, header_size, out_len, r>>
  <2>1. CInv' /\ DInv'  BY <1>2, CompressorStays, DecompressorStays DEF IInv
  <2>2. dst \in Seq(Byte) /\ PInv /\ ppc = "decompress"  BY DEF IInv, DInv, Decompressed
  <2>3. fi' \in Nat  BY <1>2, <2>2 DEF PInv
  <2>4. PInv'  BY <1>2, <2>2, <2>3, WriteOutKeeps
  <2>5. QED BY <2>1, <2>4 DEF IInv
<1>3. QED BY <1>1, <1>2 DEF Decompressed

LEMMA TransferKeeps == ASSUME IInv, Transfer PROVE IInv'
<1>1. Block(out) \in Seq(Byte) /\ text \in Seq(Byte) /\ Len(text) \in Nat
  BY BlockTyped DEF IInv, CInv, CType
<1>2. CInv'  BY CompressorStays DEF IInv, Transfer
<1>3. DInv'  BY <1>1, StartDecompressor DEF Transfer
<1>4. PInv'  BY <1>1 DEF IInv, PInv, ChecksumExact, Transfer, kept
<1>5. QED BY <1>2, <1>3, <1>4 DEF IInv

-----------------------------------------------------------------------------
LEMMA InitHolds == Init => IInv
<1> SUFFICES ASSUME Init PROVE IInv  OBVIOUS
<1>1. CInv  BY IdleCompressor DEF Init
<1>2. DInv
  <2>1. CASE DecompressIdle  BY <2>1, StartDecompressor
  <2>2. CASE DamagedInit
    <3>1. PICK n, room \in 0 .. MaxDamaged : \E block \in [1 .. n -> Byte] : Start(block, room)
      BY <2>2 DEF DamagedInit
    <3>2. PICK block \in [1 .. n -> Byte] : Start(block, room)  BY <3>1
    <3>3. n \in Nat /\ room \in Nat  BY <3>1, Typing
    <3>4. block \in Seq(Byte)  BY <3>2, <3>3
    <3>5. QED BY <3>2, <3>3, <3>4, StartDecompressor
  <2>3. QED BY <2>1, <2>2 DEF Init
<1>3. file \in Seq(Byte) /\ archive \in Seq(Byte)
  <2>1. CASE PackInit  BY <2>1, Typing, PackAssumption DEF PackInit
  <2>2. CASE SimpleInit  BY <2>2, PackAssumption DEF SimpleInit
  <2>3. CASE DamagedInit  BY <2>3 DEF DamagedInit
  <2>4. QED BY <2>1, <2>2, <2>3 DEF Init
<1>4. /\ fi = 0 /\ header_size \in Nat /\ out_len = 0 /\ checksum = NoChecksum /\ fo = <<>>
      /\ Len(file) \in Nat
  BY <1>3, Typing DEF Init
<1>5. client = "uclpack" => ppc = "read"  BY DEF Init, PackInit, SimpleInit, DamagedInit
<1>6. SubSeq(file, 1, fi) = <<>>  BY <1>4, SubSeqEmpty
<1>7. ChecksumExact  BY <1>4, <1>5, <1>6, ChecksumOfNothing DEF ChecksumExact
<1>8. fo \in Seq(Byte) /\ checksum \in Nat  BY <1>4 DEF NoChecksum
<1>9. PInv  BY <1>3, <1>4, <1>7, <1>8 DEF PInv
<1>10. QED BY <1>1, <1>2, <1>9 DEF IInv

(* Every step keeps the invariant. *)
LEMMA StepKeeps == IInv /\ [Next]_vars => IInv'
<1> SUFFICES ASSUME IInv, [Next]_vars PROVE IInv'  OBVIOUS
<1>1. CASE ReadBlock  BY <1>1, ReadBlockKeeps
<1>2. CASE CompressBlock
  <2>1. CInv' /\ DInv' /\ PInv'
    BY <1>2, CompressKeeps, DecompressorStays, ContainerStays DEF IInv, CompressBlock
  <2>2. QED BY <2>1 DEF IInv
<1>3. CASE WriteBlock  BY <1>3, WriteBlockKeeps
<1>4. CASE WriteEOF  BY <1>4, WriteEOFKeeps
<1>5. CASE Damage  BY <1>5, DamageKeeps
<1>6. CASE ReadHeader  BY <1>6, ReadHeaderKeeps
<1>7. CASE EOFMarker  BY <1>7, RefuseKeeps DEF EOFMarker
<1>8. CASE BlockRefused  BY <1>8, RefuseKeeps DEF BlockRefused
<1>9. CASE StoredBlock  BY <1>9, StoredBlockKeeps
<1>10. CASE CompressedBlock  BY <1>10, CompressedBlockKeeps
<1>11. CASE UnknownMethod  BY <1>11, UnknownMethodKeeps
<1>12. CASE DecompressBlock
  <2>1. CInv' /\ DInv' /\ PInv'
    BY <1>12, DecompressKeeps, CompressorStays, ContainerStays DEF IInv, DecompressBlock
  <2>2. QED BY <2>1 DEF IInv
<1>13. CASE Decompressed  BY <1>13, DecompressedKeeps
<1>14. CASE Transfer  BY <1>14, TransferKeeps
<1>15. CASE Returned  BY <1>15, RefuseKeeps DEF Returned
<1>16. CASE UNCHANGED vars
  <2>1. CInv' /\ DInv' /\ PInv'
    BY <1>16, CompressorStays, DecompressorStays, ContainerStays DEF IInv, vars
  <2>2. QED BY <2>1 DEF IInv
<1>17. QED
  BY <1>1, <1>2, <1>3, <1>4, <1>5, <1>6, <1>7, <1>8, <1>9, <1>10, <1>11, <1>12, <1>13,
     <1>14, <1>15, <1>16 DEF Next, Exited

(* The inductive invariant, in every reachable state. *)
THEOREM Invariance == Spec => []IInv
<1>1. Init => IInv  BY InitHolds
<1>2. IInv /\ [Next]_vars => IInv'  BY StepKeeps
<1>3. QED BY <1>1, <1>2, PTL DEF Spec

(* The parser counts every byte once: in a token, in the pending run or    *)
(* under the candidate, and a match never covers more than the text has.   *)
THEOREM AlwaysAccounted == Spec => []Accounted
<1>1. IInv => Accounted  BY DEF IInv, CInv
<1>2. QED BY <1>1, Invariance, PTL

(* Whatever the block says, the decompressor writes at most one byte past  *)
(* the room it was given and reads at most four bits past its input.       *)
THEOREM AlwaysInBounds == Spec => []StaysInBounds
<1>1. IInv => StaysInBounds  BY DInvBounds DEF IInv
<1>2. QED BY <1>1, Invariance, PTL

(* The checksum that is reduced once in NMAX bytes is the one that is      *)
(* reduced after each, at every size of byte and of block that the         *)
(* assumption on NMAX admits.                                              *)
THEOREM AlwaysExactChecksum == Spec => []ChecksumExact
<1>1. IInv => ChecksumExact  BY DEF IInv, PInv
<1>2. QED BY <1>1, Invariance, PTL

-----------------------------------------------------------------------------
(* The bits of a block, in groups of a byte: what the buffer of the reader  *)
(* holds after some of them.                                               *)


(* Powers of two. *)
LEMMA PowerSum ==
  ASSUME NEW a \in Nat, NEW b \in Nat
  PROVE  2 ^ a * 2 ^ b = 2 ^ (a + b)
<1> DEFINE S == {j \in Nat : 2 ^ a * 2 ^ j = 2 ^ (a + j)}
<1>1. 0 \in S
  <2>1. 2 ^ 0 = 1 /\ a + 0 = a  BY PowerOfZero
  <2>2. 2 ^ a \in Nat  BY PowerOfTwo
  <2>3. QED BY <2>1, <2>2
<1>2. ASSUME NEW j \in S PROVE j + 1 \in S
  <2>1. j \in Nat /\ a + j \in Nat /\ a + (j + 1) = (a + j) + 1  OBVIOUS
  <2>2. PICK x \in Nat : x = 2 ^ a  BY PowerOfTwo
  <2>3. PICK y \in Nat : y = 2 ^ j /\ 2 ^ (j + 1) = 2 * y  BY <2>1, PowerOfTwo
  <2>4. PICK z \in Nat : z = 2 ^ (a + j) /\ 2 ^ ((a + j) + 1) = 2 * z  BY <2>1, PowerOfTwo
  <2>5. x * y = z  BY <2>2, <2>3, <2>4
  <2>6. x * (2 * y) = 2 * z  BY <2>5
  <2>7. 2 ^ a * 2 ^ (j + 1) = 2 ^ (a + (j + 1))  BY <2>1, <2>2, <2>3, <2>4, <2>6
  <2>8. QED BY <2>1, <2>7
<1>3. S = Nat
  <2> HIDE DEF S
  <2>1. S \in SUBSET Nat  BY DEF S
  <2>2. QED BY <1>1, <1>2, <2>1, SetInduction
<1>4. QED BY <1>3

(* The bits of a group, zeros after the last. *)
PadBit(bs, i) == IF i <= Len(bs) THEN bs[i] ELSE 0

LEMMA PadBitTyped ==
  ASSUME NEW bs \in Seq(Bits), NEW i \in Nat \ {0} PROVE PadBit(bs, i) \in {0, 1}
<1>1. i <= Len(bs) => i \in 1 .. Len(bs)  OBVIOUS
<1>2. QED BY <1>1 DEF PadBit, Bits

LEMMA GroupUnfolds ==
  ASSUME NEW bs \in Seq(Bits), NEW k \in Nat \ {0}
  PROVE  \E f \in [0 .. N -> Nat] :
           /\ f[0] = 0 /\ Group(bs, k) = f[N]
           /\ \A j \in 1 .. N : f[j] = 2 * f[j - 1] + PadBit(bs, k + j - 1)
<1> DEFINE B(j) == IF k + j - 1 <= Len(bs) THEN bs[k + j - 1] ELSE 0
           F == [y \in (1 .. N) \X Nat |-> 2 * y[2] + B(y[1])]
           G(g) == [j \in 0 .. N |-> IF j = 0 THEN 0 ELSE 2 * g[j - 1] + B(j)]
           group == CHOOSE g : g = G(g)
<1>1. N \in Nat  BY ByteFacts
<1>2. ASSUME NEW j \in 1 .. N PROVE B(j) = PadBit(bs, k + j - 1) /\ B(j) \in Nat
  <2>1. k + j - 1 \in Nat \ {0}  BY <1>1
  <2>2. B(j) = PadBit(bs, k + j - 1)  BY DEF PadBit
  <2>3. QED BY <2>1, <2>2, PadBitTyped
<1>3. IsStep(N, Nat, F)
  <2> HIDE DEF B
  <2>1. \A j \in 1 .. N : B(j) \in Nat  BY <1>2
  <2>2. QED BY <2>1 DEF IsStep
<1>4. \E g : g = G(g)
  <2> HIDE DEF F, B
  <2>1. PICK g : IsRecursion(N, Nat, 0, F, g)  BY <1>1, <1>3, RecursionExists
  <2>2. /\ g \in [0 .. N -> Nat] /\ g[0] = 0
        /\ \A j \in 1 .. N : g[j] = F[<<j, g[j - 1]>>]
    BY <2>1 DEF IsRecursion
  <2>3. ASSUME NEW j \in 0 .. N
        PROVE  g[j] = IF j = 0 THEN 0 ELSE 2 * g[j - 1] + B(j)
    <3>1. CASE j = 0  BY <2>2, <3>1
    <3>2. CASE j # 0
      <4>1. j \in 1 .. N /\ j - 1 \in 0 .. N  BY <1>1, <3>2
      <4>2. g[j - 1] \in Nat  BY <2>2, <4>1
      <4>3. F[<<j, g[j - 1]>>] = 2 * g[j - 1] + B(j)  BY <4>1, <4>2 DEF F
      <4>4. QED BY <2>2, <3>2, <4>1, <4>3
    <3>3. QED BY <3>1, <3>2
  <2>4. g = G(g)
    <3> HIDE DEF B
    <3>1. QED BY <2>2, <2>3 DEF G
  <2>5. QED BY <2>4
<1>5. group = G(group)
  <2> HIDE DEF G
  <2>1. QED BY <1>4
<1>6. Group(bs, k) = group[N]  BY DEF Group, N
<1> HIDE DEF group, B
<1>7. group[0] = 0  BY <1>1, <1>5
<1>8. ASSUME NEW j \in 1 .. N PROVE group[j] = 2 * group[j - 1] + B(j)
  <2>1. j \in 0 .. N /\ j # 0  BY <1>1
  <2>2. QED BY <1>5, <2>1
<1> DEFINE S == {j \in Nat : j <= N => group[j] \in Nat}
<1>9. 0 \in S  BY <1>7
<1>10. ASSUME NEW j \in S PROVE j + 1 \in S
  <2>1. SUFFICES ASSUME j + 1 <= N PROVE group[j + 1] \in Nat  OBVIOUS
  <2>2. j \in Nat /\ j <= N /\ j + 1 \in 1 .. N /\ (j + 1) - 1 = j  BY <1>1, <2>1
  <2>3. group[j] \in Nat  BY <2>2
  <2>4. group[j + 1] = 2 * group[j] + B(j + 1)  BY <1>8, <2>2
  <2>5. B(j + 1) \in Nat  BY <1>2, <2>2
  <2>6. QED BY <2>3, <2>4, <2>5
<1>11. S = Nat
  <2> HIDE DEF S
  <2>1. S \in SUBSET Nat  BY DEF S
  <2>2. QED BY <1>9, <1>10, <2>1, SetInduction
<1>12. \A j \in 0 .. N : group[j] \in Nat  BY <1>1, <1>11
<1>13. group \in [0 .. N -> Nat]
  <2>1. group = [j \in 0 .. N |-> group[j]]
    <3>1. DOMAIN group = 0 .. N  BY <1>5
    <3>2. group = [j \in 0 .. N |-> IF j = 0 THEN 0 ELSE 2 * group[j - 1] + B(j)]  BY <1>5
    <3>3. QED BY <3>1, <3>2
  <2>2. QED BY <1>12, <2>1
<1>14. QED
  <2>1. \A j \in 1 .. N : group[j] = 2 * group[j - 1] + PadBit(bs, k + j - 1)  BY <1>2, <1>8
  <2>2. QED BY <1>6, <1>7, <1>13, <2>1

(* Digit q of a group is its bit q. *)
LEMMA GroupDigits ==
  ASSUME NEW bs \in Seq(Bits), NEW k \in Nat \ {0}, NEW q \in 1 .. N
  PROVE  (Group(bs, k) \div 2 ^ (N - q)) % 2 = PadBit(bs, k + q - 1)
<1>1. PICK f \in [0 .. N -> Nat] :
        /\ f[0] = 0 /\ Group(bs, k) = f[N]
        /\ \A j \in 1 .. N : f[j] = 2 * f[j - 1] + PadBit(bs, k + j - 1)
  BY GroupUnfolds
<1>2. N \in Nat /\ q \in Nat /\ N - q \in Nat /\ q + (N - q) = N  BY ByteFacts
<1> DEFINE S == {e \in Nat : q + e <= N => f[q + e] \div 2 ^ e = f[q]}
<1>3. \A j \in 0 .. N : f[j] \in Nat  OBVIOUS
<1>4. 0 \in S
  <2>1. f[q] \in Nat  BY <1>2, <1>3
  <2>2. 2 ^ 0 = 1 /\ q + 0 = q  BY <1>2, PowerOfZero
  <2>3. f[q] \div 1 = f[q]  BY <2>1
  <2>4. QED BY <2>2, <2>3
<1>5. ASSUME NEW e \in S PROVE e + 1 \in S
  <2>1. SUFFICES ASSUME q + (e + 1) <= N PROVE f[q + (e + 1)] \div 2 ^ (e + 1) = f[q]
    OBVIOUS
  <2>2. e \in Nat /\ q + e \in 0 .. N /\ q + (e + 1) \in 1 .. N /\ (q + (e + 1)) - 1 = q + e
        /\ k + (q + (e + 1)) - 1 \in Nat \ {0}
    BY <1>2, <2>1
  <2>3. f[q + e] \in Nat /\ f[q + e] \div 2 ^ e = f[q]  BY <1>3, <2>2
  <2>4. PICK y \in {0, 1} : f[q + (e + 1)] = 2 * f[q + e] + y
    <3>1. PadBit(bs, k + (q + (e + 1)) - 1) \in {0, 1}  BY <2>2, PadBitTyped
    <3>2. f[q + (e + 1)] = 2 * f[q + e] + PadBit(bs, k + (q + (e + 1)) - 1)  BY <1>1, <2>2
    <3>3. QED BY <3>1, <3>2
  <2>5. PICK c \in Nat : c = f[q + e]  BY <2>3
  <2>6. (2 * c + y) \div 2 ^ (e + 1) = c \div 2 ^ e  BY <2>2, HalfDiv
  <2>7. QED BY <2>3, <2>4, <2>5, <2>6
<1>6. S = Nat
  <2> HIDE DEF S
  <2>1. S \in SUBSET Nat  BY DEF S
  <2>2. QED BY <1>4, <1>5, <2>1, SetInduction
<1>7. f[N] \div 2 ^ (N - q) = f[q]
  <2>1. N - q \in S  BY <1>2, <1>6
  <2>2. QED BY <1>2, <2>1
<1>8. f[q] % 2 = PadBit(bs, k + q - 1)
  <2>1. q \in 0 .. N /\ q - 1 \in 0 .. N /\ k + q - 1 \in Nat \ {0}  BY <1>2
  <2>2. f[q] = 2 * f[q - 1] + PadBit(bs, k + q - 1)  BY <1>1
  <2>3. f[q - 1] \in Nat /\ PadBit(bs, k + q - 1) \in {0, 1}  BY <1>3, <2>1, PadBitTyped
  <2>4. QED BY <2>2, <2>3
<1>9. QED BY <1>1, <1>7, <1>8

(* The buffer after q bits of a group x: its top bit, and the mark.        *)
Held(x, q) == (2 * x + 1) * 2 ^ (q - 1)

LEMMA HeldFacts ==
  ASSUME NEW x \in Nat, NEW q \in 1 .. N
  PROVE  /\ Held(x, q) \in Nat
         /\ Held(x, q) \div ByteBase = x \div 2 ^ (N - q)
         /\ (2 ^ (N - q) * Held(x, q)) % ByteBase = 2 ^ (N - 1)
<1>1. N \in Nat /\ q \in Nat /\ N - q \in Nat /\ q - 1 \in Nat /\ (N - q) + (q - 1) = N - 1
      /\ N - 1 \in Nat /\ (N - q) + 1 \in Nat /\ ((N - q) + 1) + (q - 1) = N
  BY ByteFacts
<1>2. PICK A \in Nat \ {0} : A = 2 ^ (N - q) /\ 2 ^ ((N - q) + 1) = 2 * A  BY <1>1, PowerOfTwo
<1>3. PICK C \in Nat \ {0} : C = 2 ^ (q - 1)  BY <1>1, PowerOfTwo
<1>4. PICK D \in Nat \ {0} : D = 2 ^ (N - 1) /\ ByteBase = 2 * D /\ ByteBase \in Nat \ {0}
  BY ByteFacts
<1>5. A * C = D  BY <1>1, <1>2, <1>3, <1>4, PowerSum
<1>6. Held(x, q) = (2 * x + 1) * C /\ Held(x, q) \in Nat  BY <1>3 DEF Held
<1>7. PICK v \in Nat, w \in 0 .. A - 1 : x = v * A + w /\ x \div A = v  BY <1>2, DivMod
<1>8. (2 * x + 1) * C = v * (2 * D) + (2 * w + 1) * C
  <2>1. (2 * x + 1) * C = 2 * (v * A) * C + (2 * w + 1) * C
    <3>1. PICK y \in Nat : y = v * A  BY <1>7
    <3>2. 2 * x + 1 = 2 * y + (2 * w + 1)  BY <1>7, <3>1
    <3>3. (2 * y + (2 * w + 1)) * C = 2 * y * C + (2 * w + 1) * C  BY <1>7, <3>1
    <3>4. QED BY <3>1, <3>2, <3>3
  <2>2. 2 * (v * A) * C = 2 * (v * (A * C))  BY <1>7
  <2>3. 2 * (v * D) = v * (2 * D)  BY <1>7
  <2>4. QED BY <1>5, <2>1, <2>2, <2>3
<1>9. (2 * w + 1) * C \in 0 .. 2 * D - 1
  <2>1. w \in Nat /\ 2 * w + 1 <= 2 * A - 1 /\ 2 * A - 1 \in Nat  BY <1>2, <1>7
  <2>2. (2 * w + 1) * C <= (2 * A - 1) * C /\ (2 * w + 1) * C \in Nat  BY <2>1, MulMono
  <2>3. (2 * A - 1) * C = 2 * (A * C) - C  OBVIOUS
  <2>4. QED BY <1>5, <2>2, <2>3
<1>10. Held(x, q) \div ByteBase = v
  <2> DEFINE R == (2 * w + 1) * C
             M == 2 * D
  <2>1. M \in Nat \ {0} /\ R \in 0 .. M - 1  BY <1>9
  <2>2. Held(x, q) = v * M + R /\ ByteBase = M  BY <1>4, <1>6, <1>8
  <2> HIDE DEF R, M
  <2>3. (v * M + R) \div M = v  BY <2>1, DivModUnique
  <2>4. QED BY <2>2, <2>3
<1>11. (A * Held(x, q)) % ByteBase = D
  <2>1. A * ((2 * x + 1) * C) = (2 * x + 1) * (A * C)  OBVIOUS
  <2>2. (2 * x + 1) * D = x * (2 * D) + D  OBVIOUS
  <2>3. A * Held(x, q) = x * ByteBase + D  BY <1>4, <1>5, <1>6, <2>1, <2>2
  <2>4. D \in 0 .. ByteBase - 1  BY <1>4
  <2>5. ByteBase \in Nat \ {0}  BY <1>4
  <2>6. (x * ByteBase + D) % ByteBase = D  BY <2>4, <2>5, DivModUnique
  <2>7. QED BY <2>3, <2>6
<1>12. QED BY <1>2, <1>4, <1>6, <1>7, <1>10, <1>11

-----------------------------------------------------------------------------
(* The places of bits and bytes in a block.                                *)


(* What was joined stays where it is. *)
LEMMA JoinGrows ==
  ASSUME NEW n \in Nat, NEW D, NEW T \in [1 .. n -> Seq(D)], NEW g, IsJoin(n, T, g)
  PROVE  \A i \in 0 .. n : /\ g[i] \in Seq(D) /\ Len(g[i]) <= Len(g[n])
                           /\ \A x \in 1 .. Len(g[i]) : g[n][x] = g[i][x]
<1>1. \A i \in 0 .. n : g[i] \in Seq(D)  BY JoinTyped
<1>2. \A i \in 1 .. n : g[i] = g[i - 1] \o T[i]
  <2>1. \A i \in 1 .. n : i \in 0 .. n /\ i # 0  OBVIOUS
  <2>2. QED BY <2>1 DEF IsJoin
<1> DEFINE P(i) == Len(g[i]) <= Len(g[n]) /\ \A x \in 1 .. Len(g[i]) : g[n][x] = g[i][x]
           S == {e \in Nat : e <= n => P(n - e)}
<1>3. 0 \in S  BY <1>1
<1>4. ASSUME NEW e \in S PROVE e + 1 \in S
  <2>1. SUFFICES ASSUME e + 1 <= n PROVE P(n - (e + 1))  OBVIOUS
  <2> DEFINE i == n - e
  <2>2. i \in 1 .. n /\ i - 1 = n - (e + 1) /\ i \in 0 .. n /\ i - 1 \in 0 .. n /\ e <= n  BY <2>1
  <2>3. P(i)  BY <2>2
  <2> HIDE DEF i, S
  <2>4. g[i] = g[i - 1] \o T[i] /\ g[i - 1] \in Seq(D) /\ T[i] \in Seq(D) /\ g[n] \in Seq(D)
        /\ g[i] \in Seq(D)
    BY <1>1, <1>2, <2>2
  <2>5. PICK a \in Seq(D), b \in Seq(D) : a = g[i - 1] /\ g[i] = a \o b  BY <2>4
  <2>6. Len(a) \in Nat /\ Len(b) \in Nat /\ Len(a \o b) = Len(a) + Len(b)
        /\ \A x \in 1 .. Len(a) : (a \o b)[x] = a[x]
    OBVIOUS
  <2>7. P(i - 1)
    <3>1. Len(g[n]) \in Nat  BY <2>4
    <3>2. Len(a) <= Len(g[n])  BY <2>3, <2>5, <2>6, <3>1
    <3>3. ASSUME NEW x \in 1 .. Len(a) PROVE g[n][x] = a[x]
      <4>1. x \in 1 .. Len(g[i])  BY <2>5, <2>6
      <4>2. g[n][x] = g[i][x]  BY <2>3, <4>1
      <4>3. QED BY <2>5, <2>6, <4>2
    <3>4. QED BY <2>5, <3>2, <3>3
  <2>8. QED BY <2>2, <2>7
<1>5. S = Nat
  <2> HIDE DEF S
  <2>1. S \in SUBSET Nat  BY DEF S
  <2>2. QED BY <1>3, <1>4, <2>1, SetInduction
<1>6. ASSUME NEW i \in 0 .. n PROVE P(i)
  <2>1. n - i \in Nat /\ n - i <= n /\ n - (n - i) = i  OBVIOUS
  <2>2. n - i \in S  BY <1>5, <2>1
  <2>3. QED BY <2>1, <2>2
<1>7. QED BY <1>1, <1>6

(* Where the items stand in the block s that they make: bs is the bits     *)
(* among them, and the first i items are k[i] bits and take l[i] bytes.    *)
ItemAt(items, s, bs, k, l, i) ==
  \/ /\ items[i][1] = "bit" /\ items[i][2] \in Bits
     /\ k[i] = k[i - 1] + 1 /\ k[i] <= Len(bs) /\ bs[k[i]] = items[i][2]
     /\ IF Reserves(k[i])
        THEN l[i] = l[i - 1] + 1 /\ l[i] <= Len(s) /\ s[l[i]] = Group(bs, k[i])
        ELSE l[i] = l[i - 1]
  \/ /\ items[i][1] = "byte" /\ items[i][2] \in Byte
     /\ k[i] = k[i - 1]
     /\ l[i] = l[i - 1] + 1 /\ l[i] <= Len(s) /\ s[l[i]] = items[i][2]

Layout(items, s, bs, k, l) ==
  /\ bs \in Seq(Bits) /\ s \in Seq(Byte)
  /\ k \in [0 .. Len(items) -> Nat] /\ l \in [0 .. Len(items) -> Nat]
  /\ k[0] = 0 /\ l[0] = 0 /\ l[Len(items)] = Len(s)
  /\ \A i \in 1 .. Len(items) : ItemAt(items, s, bs, k, l, i)

LEMMA LayoutExists ==
  ASSUME NEW items \in Seq(Item)
  PROVE  \E bs, k, l : Layout(items, Block(items), bs, k, l)
<1> DEFINE n == Len(items)
           BitsOf(i) == IF items[i][1] = "bit" THEN <<items[i][2]>> ELSE <<>>
           T1 == [i \in 1 .. n |-> BitsOf(i)]
           G1(g) == [i \in 0 .. n |-> IF i = 0 THEN <<>> ELSE g[i - 1] \o BitsOf(i)]
           bits == CHOOSE g : g = G1(g)
           Takes(i) ==
             CASE items[i][1] = "byte" -> <<items[i][2]>>
               [] items[i][1] = "bit" /\ Reserves(Len(bits[i])) ->
                    <<Group(bits[n], Len(bits[i]))>>
               [] OTHER -> <<>>
           T2 == [i \in 1 .. n |-> Takes(i)]
           G2(g) == [i \in 0 .. n |-> IF i = 0 THEN <<>> ELSE g[i - 1] \o Takes(i)]
           block == CHOOSE g : g = G2(g)
<1>0. n \in Nat  OBVIOUS
<1>1. Block(items) = block[n]  BY DEF Block
<1>2. ASSUME NEW i \in 1 .. n
      PROVE  \/ items[i][1] = "bit" /\ items[i][2] \in Bits
             \/ items[i][1] = "byte" /\ items[i][2] \in Byte
  <2>1. items[i] \in Item  OBVIOUS
  <2>2. QED BY <2>1 DEF Item
<1> HIDE DEF n
<1>3. \A i \in 0 .. n : i # 0 => i \in 1 .. n  BY <1>0
<1>4. T1 \in [1 .. n -> Seq(Bits)] /\ IsJoin(n, T1, bits)
  <2>1. T1 \in [1 .. n -> Seq(Bits)]
    <3>1. ASSUME NEW i \in 1 .. n PROVE BitsOf(i) \in Seq(Bits)  BY <1>2
    <3> HIDE DEF BitsOf
    <3>2. QED BY <3>1
  <2> HIDE DEF BitsOf
  <2>2. ASSUME NEW g PROVE (g = G1(g)) <=> IsJoin(n, T1, g)
    BY <1>3 DEF IsJoin
  <2> HIDE DEF T1, G1
  <2>3. \E g : IsJoin(n, T1, g)  BY <1>0, <2>1, JoinExists
  <2>4. bits = G1(bits)  BY <2>2, <2>3
  <2>5. IsJoin(n, T1, bits)  BY <2>2, <2>4
  <2>6. QED BY <2>1, <2>5
<1>5. /\ \A i \in 0 .. n : /\ bits[i] \in Seq(Bits) /\ Len(bits[i]) <= Len(bits[n])
                           /\ \A x \in 1 .. Len(bits[i]) : bits[n][x] = bits[i][x]
      /\ bits[0] = <<>> /\ \A i \in 1 .. n : bits[i] = bits[i - 1] \o T1[i]
  <2> HIDE DEF bits, T1
  <2>1. \A i \in 0 .. n : /\ bits[i] \in Seq(Bits) /\ Len(bits[i]) <= Len(bits[n])
                          /\ \A x \in 1 .. Len(bits[i]) : bits[n][x] = bits[i][x]
    BY <1>0, <1>4, JoinGrows
  <2>2. 0 \in 0 .. n /\ \A i \in 1 .. n : i \in 0 .. n /\ i # 0  BY <1>0
  <2>3. bits[0] = <<>> /\ \A i \in 1 .. n : bits[i] = bits[i - 1] \o T1[i]
    BY <1>4, <2>2 DEF IsJoin
  <2>4. QED BY <2>1, <2>3
<1> HIDE DEF bits
<1> DEFINE bs == bits[n]
           k == [i \in 0 .. n |-> Len(bits[i])]
<1>6. k \in [0 .. n -> Nat] /\ k[0] = 0 /\ bs \in Seq(Bits)
  <2>1. 0 \in 0 .. n /\ n \in 0 .. n  BY <1>0
  <2>2. QED BY <1>5, <2>1
<1>7. ASSUME NEW i \in 1 .. n
      PROVE  IF items[i][1] = "bit"
             THEN k[i] = k[i - 1] + 1 /\ k[i] <= Len(bs) /\ bs[k[i]] = items[i][2]
             ELSE k[i] = k[i - 1]
  <2>1. i \in 0 .. n /\ i - 1 \in 0 .. n  BY <1>0
  <2>2. bits[i] = bits[i - 1] \o BitsOf(i)  BY <1>5
  <2>3. k[i] = Len(bits[i]) /\ k[i - 1] = Len(bits[i - 1])  BY <2>1
  <2>4. PICK a \in Seq(Bits) : a = bits[i - 1]  BY <1>5, <2>1
  <2>5. CASE items[i][1] = "bit"
    <3>1. PICK c \in Bits : c = items[i][2]  BY <1>2, <2>5
    <3>2. bits[i] = a \o <<c>>  BY <2>2, <2>4, <2>5, <3>1
    <3>3. Len(a \o <<c>>) = Len(a) + 1 /\ (a \o <<c>>)[Len(a) + 1] = c /\ Len(a) \in Nat
      OBVIOUS
    <3>4. Len(bits[i]) \in 1 .. Len(bits[i])  BY <3>2, <3>3
    <3>5. bs[Len(bits[i])] = c  BY <1>5, <2>1, <3>2, <3>3, <3>4
    <3>6. Len(bits[i]) <= Len(bs)  BY <1>5, <2>1
    <3>7. QED BY <2>3, <2>4, <2>5, <3>1, <3>2, <3>3, <3>5, <3>6
  <2>6. CASE items[i][1] # "bit"
    <3>1. bits[i] = a \o <<>>  BY <2>2, <2>4, <2>6
    <3>2. Len(a \o <<>>) = Len(a)  OBVIOUS
    <3>3. QED BY <2>3, <2>4, <2>6, <3>1, <3>2
  <2>7. QED BY <2>5, <2>6
<1>8. ASSUME NEW i \in 1 .. n
      PROVE  /\ Takes(i) \in Seq(Byte)
             /\ items[i][1] = "byte" => Takes(i) = <<items[i][2]>>
             /\ items[i][1] = "bit" => Takes(i) = IF Reserves(k[i]) THEN <<Group(bs, k[i])>>
                                                  ELSE <<>>
  <2>1. i \in 0 .. n /\ k[i] = Len(bits[i]) /\ k[i] \in Nat  BY <1>0, <1>6
  <2> DEFINE z == Len(bits[i])
  <2>2. Takes(i) = CASE items[i][1] = "byte" -> <<items[i][2]>>
                     [] items[i][1] = "bit" /\ Reserves(z) -> <<Group(bs, z)>>
                     [] OTHER -> <<>>
    OBVIOUS
  <2>3. z = k[i]  BY <2>1
  <2>4. Reserves(z) => Group(bs, z) \in Byte
    <3>1. z \in Nat  BY <2>1
    <3> HIDE DEF z, k, bs
    <3>2. Reserves(z) => z >= 1  BY <3>1, ByteFacts DEF Reserves, N
    <3>3. QED BY <1>6, <3>1, <3>2, GroupTyped
  <2> HIDE DEF z, k, bs, Takes
  <2>5. CASE items[i][1] = "byte" /\ items[i][2] \in Byte
    <3>1. Takes(i) = <<items[i][2]>>  BY <2>2, <2>5
    <3>2. QED BY <2>5, <3>1
  <2>6. CASE items[i][1] = "bit"
    <3>1. items[i][1] # "byte"  BY <2>6
    <3>2. Takes(i) = IF Reserves(z) THEN <<Group(bs, z)>> ELSE <<>>
      <4>1. CASE Reserves(z)  BY <2>2, <2>6, <3>1, <4>1
      <4>2. CASE ~Reserves(z)  BY <2>2, <2>6, <3>1, <4>2
      <4>3. QED BY <4>1, <4>2
    <3>3. Takes(i) \in Seq(Byte)
      <4>1. CASE Reserves(z)
        <5>1. Group(bs, z) \in Byte  BY <2>4, <4>1
        <5>2. QED BY <3>2, <4>1, <5>1
      <4>2. CASE ~Reserves(z)  BY <3>2, <4>2
      <4>3. QED BY <4>1, <4>2
    <3>4. QED BY <2>3, <2>6, <3>1, <3>2, <3>3
  <2>7. QED BY <1>2, <2>5, <2>6
<1>9. T2 \in [1 .. n -> Seq(Byte)] /\ IsJoin(n, T2, block)
  <2> HIDE DEF Takes
  <2>1. T2 \in [1 .. n -> Seq(Byte)]  BY <1>8
  <2>2. ASSUME NEW g PROVE (g = G2(g)) <=> IsJoin(n, T2, g)
    BY <1>3 DEF IsJoin
  <2> HIDE DEF T2, G2
  <2>3. \E g : IsJoin(n, T2, g)  BY <1>0, <2>1, JoinExists
  <2>4. block = G2(block)  BY <2>2, <2>3
  <2>5. IsJoin(n, T2, block)  BY <2>2, <2>4
  <2>6. QED BY <2>1, <2>5
<1> HIDE DEF Takes
<1>10. /\ \A i \in 0 .. n : /\ block[i] \in Seq(Byte) /\ Len(block[i]) <= Len(block[n])
                            /\ \A x \in 1 .. Len(block[i]) : block[n][x] = block[i][x]
       /\ block[0] = <<>> /\ \A i \in 1 .. n : block[i] = block[i - 1] \o T2[i]
  <2> HIDE DEF block, T2
  <2>1. \A i \in 0 .. n : /\ block[i] \in Seq(Byte) /\ Len(block[i]) <= Len(block[n])
                          /\ \A x \in 1 .. Len(block[i]) : block[n][x] = block[i][x]
    BY <1>0, <1>9, JoinGrows
  <2>2. 0 \in 0 .. n /\ \A i \in 1 .. n : i \in 0 .. n /\ i # 0  BY <1>0
  <2>3. block[0] = <<>> /\ \A i \in 1 .. n : block[i] = block[i - 1] \o T2[i]
    BY <1>9, <2>2 DEF IsJoin
  <2>4. QED BY <2>1, <2>3
<1> HIDE DEF block, k, bs
<1> DEFINE s == block[n]
           l == [i \in 0 .. n |-> Len(block[i])]
<1>11. l \in [0 .. n -> Nat] /\ l[0] = 0 /\ l[n] = Len(s) /\ s \in Seq(Byte)
  <2>1. 0 \in 0 .. n /\ n \in 0 .. n  BY <1>0
  <2>2. QED BY <1>10, <2>1
<1>12. ASSUME NEW i \in 1 .. n, NEW c \in Byte, Takes(i) = <<c>>
       PROVE  l[i] = l[i - 1] + 1 /\ l[i] <= Len(s) /\ s[l[i]] = c
  <2>1. i \in 0 .. n /\ i - 1 \in 0 .. n  BY <1>0
  <2>2. l[i] = Len(block[i]) /\ l[i - 1] = Len(block[i - 1])  BY <2>1
  <2>3. PICK a \in Seq(Byte) : a = block[i - 1]  BY <1>10, <2>1
  <2>4. block[i] = a \o <<c>>  BY <1>10, <1>12, <2>3
  <2>5. Len(a \o <<c>>) = Len(a) + 1 /\ (a \o <<c>>)[Len(a) + 1] = c /\ Len(a) \in Nat
    OBVIOUS
  <2>6. Len(block[i]) \in 1 .. Len(block[i])  BY <2>4, <2>5
  <2>7. s[Len(block[i])] = c  BY <1>10, <2>1, <2>4, <2>5, <2>6
  <2>8. Len(block[i]) <= Len(s)  BY <1>10, <2>1
  <2>9. QED BY <2>2, <2>3, <2>4, <2>5, <2>7, <2>8
<1>13. ASSUME NEW i \in 1 .. n, Takes(i) = <<>> PROVE l[i] = l[i - 1]
  <2>1. i \in 0 .. n /\ i - 1 \in 0 .. n  BY <1>0
  <2>2. l[i] = Len(block[i]) /\ l[i - 1] = Len(block[i - 1])  BY <2>1
  <2>3. PICK a \in Seq(Byte) : a = block[i - 1]  BY <1>10, <2>1
  <2>4. block[i] = a \o <<>>  BY <1>10, <1>13, <2>3
  <2>5. a \o <<>> = a  OBVIOUS
  <2>6. QED BY <2>2, <2>3, <2>4, <2>5
<1> HIDE DEF s, l
<1>14. ASSUME NEW i \in 1 .. n PROVE ItemAt(items, s, bs, k, l, i)
  <2>1. CASE items[i][1] = "bit" /\ items[i][2] \in Bits
    <3>1. k[i] = k[i - 1] + 1 /\ k[i] <= Len(bs) /\ bs[k[i]] = items[i][2]  BY <1>7, <2>1
    <3>2. CASE Reserves(k[i])
      <4>1. Takes(i) = <<Group(bs, k[i])>>  BY <1>8, <2>1, <3>2
      <4>2. Group(bs, k[i]) \in Byte
        <5>1. i \in 0 .. n  BY <1>0
        <5>2. k[i] \in Nat /\ k[i] >= 1
          <6>1. k[i] \in Nat /\ k[i - 1] \in Nat
            <7>1. i - 1 \in 0 .. n  BY <1>0
            <7>2. QED BY <1>6, <5>1, <7>1
          <6>2. QED BY <3>1, <6>1
        <5>3. QED BY <1>6, <5>2, GroupTyped
      <4>3. l[i] = l[i - 1] + 1 /\ l[i] <= Len(s) /\ s[l[i]] = Group(bs, k[i])
        BY <1>12, <4>1, <4>2
      <4>4. QED BY <2>1, <3>1, <3>2, <4>3 DEF ItemAt
    <3>3. CASE ~Reserves(k[i])
      <4>1. l[i] = l[i - 1]  BY <1>8, <1>13, <2>1, <3>3
      <4>2. QED BY <2>1, <3>1, <3>3, <4>1 DEF ItemAt
    <3>4. QED BY <3>2, <3>3
  <2>2. CASE items[i][1] = "byte" /\ items[i][2] \in Byte
    <3>1. k[i] = k[i - 1]  BY <1>7, <2>2
    <3>2. Takes(i) = <<items[i][2]>>  BY <1>8, <2>2
    <3>3. l[i] = l[i - 1] + 1 /\ l[i] <= Len(s) /\ s[l[i]] = items[i][2]  BY <1>12, <2>2, <3>2
    <3>4. QED BY <2>2, <3>1, <3>3 DEF ItemAt
  <2>3. QED BY <1>2, <2>1, <2>2
<1>15. Layout(items, s, bs, k, l)
  BY <1>6, <1>11, <1>14 DEF Layout, n
<1>16. Block(items) = s  BY <1>1 DEF s
<1>17. QED BY <1>15, <1>16

-----------------------------------------------------------------------------
(* A reader that follows the writer through the items of a block.          *)


(* The reader d has read the first i items: k[i] bits, the last ones of    *)
(* which were the first q of a group that begins after a whole groups.     *)
HoldsBits(d, bs, x) ==
  \/ x = 0 /\ d.bb = 0
  \/ \E a \in Nat, q \in 1 .. N : x = a * N + q /\ d.bb = Held(Group(bs, a * N + 1), q)

Stands(d, bs, k, l, i) == d \in Buffer /\ d.ilen = l[i] /\ HoldsBits(d, bs, k[i])

(* What it holds is enough for the test of getbit. *)
LEMMA HoldsLeft ==
  ASSUME NEW bs \in Seq(Bits), NEW x \in Nat, NEW d \in Buffer, NEW a \in Nat, NEW q \in 1 .. N,
         x = a * N + q, d.bb = Held(Group(bs, a * N + 1), q)
  PROVE  Left(d, N - q) /\ Group(bs, a * N + 1) \in Nat
<1>1. a * N + 1 \in Nat /\ a * N + 1 >= 1  BY ByteFacts
<1> DEFINE G == Group(bs, a * N + 1)
<1>2. G \in Nat
  <2>1. G \in Byte  BY <1>1, GroupTyped
  <2>2. Byte \subseteq Nat  BY ByteFacts DEF Byte
  <2>3. QED BY <2>1, <2>2
<1> HIDE DEF G
<1>3. (2 ^ (N - q) * Held(G, q)) % ByteBase = 2 ^ (N - 1)  BY <1>2, HeldFacts
<1>4. QED BY <1>2, <1>3 DEF Left, G

(* A bit more, of a group that is in the buffer. *)
LEMMA BitOfGroup ==
  ASSUME NEW bs \in Seq(Bits), NEW d \in Buffer, NEW a \in Nat, NEW q \in 1 .. N,
         d.bb = Held(Group(bs, a * N + 1), q), a * N + q <= Len(bs)
  PROVE  Bit(d) = bs[a * N + q]
<1>1. a * N \in Nat /\ q \in Nat /\ a * N + 1 \in Nat \ {0} /\ (a * N + 1) + q - 1 = a * N + q
  BY ByteFacts
<1> DEFINE G == Group(bs, a * N + 1)
<1>2. G \in Nat
  <2>1. G \in Byte  BY <1>1, GroupTyped
  <2>2. Byte \subseteq Nat  BY ByteFacts DEF Byte
  <2>3. QED BY <2>1, <2>2
<1>3. (G \div 2 ^ (N - q)) % 2 = PadBit(bs, (a * N + 1) + q - 1)  BY <1>1, GroupDigits
<1> HIDE DEF G
<1>4. Held(G, q) \div ByteBase = G \div 2 ^ (N - q)  BY <1>2, HeldFacts
<1>5. PadBit(bs, a * N + q) = bs[a * N + q]  BY DEF PadBit
<1>6. QED BY <1>1, <1>3, <1>4, <1>5 DEF Bit, G

LEMMA StandsAtStart ==
  ASSUME NEW items \in Seq(Item), NEW s, NEW bs, NEW k, NEW l, Layout(items, s, bs, k, l)
  PROVE  Stands([bb |-> 0, ilen |-> 0], bs, k, l, 0)
BY DEF Layout, Stands, HoldsBits, Buffer

(* From d on, the input is what the block was. *)
Clear(d) == \A i \in Nat : i >= d.ilen => Input(i) = src[i + 1]

LEMMA UnreadClear == ASSUME DInv, Unread PROVE Clear(in)
<1>1. in.ilen \in Nat /\ Len(dst) \in Nat /\ (place # Apart => place \in Nat)
  BY BufferOf DEF DInv
<1>2. ASSUME NEW i \in Nat, i >= in.ilen PROVE Input(i) = src[i + 1]
  <2>1. ~(place # Apart /\ place + i < Len(dst))  BY <1>1, <1>2 DEF Unread
  <2>2. QED BY <2>1 DEF Input
<1>3. QED BY <1>2 DEF Clear

LEMMA ClearMore ==
  ASSUME NEW d, d.ilen \in Nat, Clear(d), NEW g PROVE Clear(getbit(d, g))
<1> DEFINE e == getbit(d, g)
<1>1. e.ilen = d.ilen \/ e.ilen = d.ilen + 1
  <2>1. [d EXCEPT !.bb = 2 * @].ilen = d.ilen
    \/ d.bb % (ByteBase \div 2) = 0  OBVIOUS
  <2>2. QED BY <2>1 DEF getbit
<1> HIDE DEF e
<1>2. \A i \in Nat : i >= e.ilen => i >= d.ilen  BY <1>1
<1>3. Clear(e)  BY <1>2 DEF Clear
<1>4. QED BY <1>3 DEF e

LEMMA ReadsBit ==
  ASSUME NEW items \in Seq(Item), NEW bs, NEW k, NEW l, Layout(items, src, bs, k, l),
         NEW d, NEW i \in Nat, i + 1 \in 1 .. Len(items), Stands(d, bs, k, l, i),
         items[i + 1][1] = "bit", Clear(d), NEW g \in Byte
  PROVE  /\ Stands(getbit(d, g), bs, k, l, i + 1)
         /\ Bit(getbit(d, g)) = items[i + 1][2] /\ items[i + 1][2] \in {0, 1}
<1> DEFINE e == getbit(d, g)
           x == k[i]
<1>0. i \in 0 .. Len(items) /\ i + 1 \in 0 .. Len(items) /\ (i + 1) - 1 = i  OBVIOUS
<1>1. /\ bs \in Seq(Bits) /\ src \in Seq(Byte) /\ x \in Nat /\ l[i] \in Nat
      /\ d \in Buffer /\ d.ilen = l[i] /\ HoldsBits(d, bs, x) /\ d.bb \in Nat
  BY <1>0 DEF Layout, Stands, Buffer
<1>2. ItemAt(items, src, bs, k, l, i + 1)  BY DEF Layout
<1>3. /\ items[i + 1][2] \in Bits /\ k[i + 1] = x + 1 /\ x + 1 <= Len(bs)
      /\ bs[x + 1] = items[i + 1][2]
      /\ IF Reserves(x + 1)
         THEN /\ l[i + 1] = l[i] + 1 /\ l[i + 1] <= Len(src)
              /\ src[l[i + 1]] = Group(bs, x + 1)
         ELSE l[i + 1] = l[i]
  BY <1>0, <1>2 DEF ItemAt
<1>4. N \in Nat \ {0} /\ N >= 2  BY ByteFacts
<1> HIDE DEF x, e
<1>5. ASSUME NEW a \in Nat, x = a * N, Left(d, 0)
      PROVE  Stands(e, bs, k, l, i + 1) /\ Bit(e) = bs[x + 1]
  <2>1. a * N \in Nat /\ 1 \in 0 .. N - 1  BY <1>4
  <2>2. (a * N + 1) % N = 1  BY <1>4, <2>1, DivModUnique
  <2>3. Reserves(x + 1)  BY <1>5, <2>2 DEF Reserves, N
  <2>4. ~(d.bb % (ByteBase \div 2) # 0)
    <3>1. 0 \in 0 .. N - 1 /\ ~(0 > 0)  BY <1>4
    <3>2. QED BY <1>1, <1>5, <3>1, MarkFound
  <2>5. e = [bb |-> 2 * At(d.ilen, g) + 1, ilen |-> d.ilen + 1]  BY <2>4 DEF getbit, e
  <2>6. At(d.ilen, g) = Group(bs, x + 1)
    <3>1. d.ilen < Len(src) /\ d.ilen + 1 = l[i + 1]  BY <1>1, <1>3, <2>3
    <3>2. Input(d.ilen) = src[d.ilen + 1]  BY <1>1 DEF Clear
    <3>3. QED BY <1>3, <2>3, <3>1, <3>2 DEF At
  <2> DEFINE G == Group(bs, a * N + 1)
  <2>7. G \in Nat
    <3>1. a * N + 1 \in Nat /\ a * N + 1 >= 1  BY <2>1
    <3>2. G \in Byte  BY <1>1, <3>1, GroupTyped
    <3>3. Byte \subseteq Nat  BY ByteFacts DEF Byte
    <3>4. QED BY <3>2, <3>3
  <2> HIDE DEF G
  <2>8. At(d.ilen, g) = G  BY <1>5, <2>6 DEF G
  <2>9. Held(G, 1) = 2 * G + 1
    <3>1. 2 ^ (1 - 1) = 1
      <4>1. 1 - 1 = 0  OBVIOUS
      <4>2. QED BY <4>1, PowerOfZero
    <3>2. (2 * G + 1) * 1 = 2 * G + 1  BY <2>7
    <3>3. QED BY <3>1, <3>2 DEF Held
  <2>10. e \in Buffer /\ e.bb = Held(G, 1) /\ e.ilen = l[i] + 1
    <3>1. 2 * G + 1 \in Nat  BY <2>7
    <3>2. QED BY <1>1, <2>5, <2>8, <2>9, <3>1 DEF Buffer
  <2>11. 1 \in 1 .. N  BY <1>4
  <2>12. HoldsBits(e, bs, x + 1)  BY <1>5, <2>10, <2>11 DEF HoldsBits, G
  <2>13. Stands(e, bs, k, l, i + 1)  BY <1>1, <1>3, <2>3, <2>10, <2>12 DEF Stands
  <2>14. Bit(e) = bs[a * N + 1]
    <3>1. a * N + 1 <= Len(bs)  BY <1>3, <1>5
    <3>2. QED BY <1>1, <2>10, <2>11, <3>1, BitOfGroup DEF G
  <2>15. QED BY <1>5, <2>13, <2>14
<1>6. ASSUME NEW a \in Nat, NEW q \in 1 .. N, x = a * N + q, q < N,
             d.bb = Held(Group(bs, a * N + 1), q)
      PROVE  Stands(e, bs, k, l, i + 1) /\ Bit(e) = bs[x + 1]
  <2>1. Left(d, N - q) /\ Group(bs, a * N + 1) \in Nat  BY <1>1, <1>6, HoldsLeft
  <2>2. q \in Nat /\ N - q \in 0 .. N - 1 /\ N - q > 0 /\ q + 1 \in 1 .. N /\ a * N \in Nat
    BY <1>4, <1>6
  <2>3. d.bb % (ByteBase \div 2) # 0  BY <1>1, <2>1, <2>2, MarkFound
  <2>4. e = [d EXCEPT !.bb = 2 * @]  BY <2>3 DEF getbit, e
  <2>5. e \in Buffer /\ e.bb = 2 * d.bb /\ e.ilen = d.ilen
    <3>1. 2 * d.bb \in Nat  BY <1>1
    <3>2. QED BY <1>1, <2>4, <3>1 DEF Buffer
  <2>6. ~Reserves(x + 1)
    <3>1. CASE q + 1 < N
      <4>1. q + 1 \in 0 .. N - 1 /\ x + 1 = a * N + (q + 1)  BY <1>4, <1>6, <2>2, <3>1
      <4>2. (a * N + (q + 1)) % N = q + 1  BY <1>4, <4>1, DivModUnique
      <4>3. q + 1 # 1  BY <2>2
      <4>4. QED BY <4>1, <4>2, <4>3 DEF Reserves, N
    <3>2. CASE q + 1 = N
      <4>1. x + 1 = (a + 1) * N + 0 /\ a + 1 \in Nat /\ 0 \in 0 .. N - 1  BY <1>4, <1>6, <2>2, <3>2
      <4>2. ((a + 1) * N + 0) % N = 0  BY <1>4, <4>1, DivModUnique
      <4>3. QED BY <4>1, <4>2 DEF Reserves, N
    <3>3. QED BY <1>4, <1>6, <2>2, <3>1, <3>2
  <2> DEFINE G == Group(bs, a * N + 1)
  <2>7. e.bb = Held(G, q + 1)
    <3>1. q - 1 \in Nat /\ (q - 1) + 1 = (q + 1) - 1  BY <2>2
    <3>2. PICK p \in Nat : p = 2 ^ (q - 1) /\ 2 ^ ((q + 1) - 1) = 2 * p
      BY <3>1, PowerOfTwo
    <3> HIDE DEF G
    <3>3. G \in Nat /\ d.bb = (2 * G + 1) * p  BY <1>6, <2>1, <3>2 DEF G, Held
    <3>4. 2 * ((2 * G + 1) * p) = (2 * G + 1) * (2 * p)  BY <3>3
    <3>5. QED BY <2>5, <3>2, <3>3, <3>4 DEF Held
  <2>8. x + 1 = a * N + (q + 1)  BY <1>6, <2>2
  <2>9. HoldsBits(e, bs, x + 1)  BY <2>2, <2>7, <2>8 DEF HoldsBits
  <2>10. Stands(e, bs, k, l, i + 1)  BY <1>1, <1>3, <2>5, <2>6, <2>9 DEF Stands
  <2>11. Bit(e) = bs[a * N + (q + 1)]
    <3>1. a * N + (q + 1) <= Len(bs)  BY <1>3, <2>8
    <3>2. QED BY <1>1, <2>2, <2>5, <2>7, <3>1, BitOfGroup
  <2>12. QED BY <2>8, <2>10, <2>11
<1>7. Stands(e, bs, k, l, i + 1) /\ Bit(e) = bs[x + 1]
  <2>1. CASE x = 0 /\ d.bb = 0
    <3>1. x = 0 * N /\ Left(d, 0)  BY <1>4, <2>1 DEF Left
    <3>2. QED BY <1>5, <3>1
  <2>2. ASSUME NEW a \in Nat, NEW q \in 1 .. N, x = a * N + q,
               d.bb = Held(Group(bs, a * N + 1), q)
        PROVE  Stands(e, bs, k, l, i + 1) /\ Bit(e) = bs[x + 1]
    <3>1. CASE q < N  BY <1>6, <2>2, <3>1
    <3>2. CASE q = N
      <4>1. Left(d, N - q)  BY <1>1, <2>2, HoldsLeft
      <4>2. N - q = 0 /\ x = (a + 1) * N /\ a + 1 \in Nat  BY <1>4, <2>2, <3>2
      <4>3. QED BY <1>5, <4>1, <4>2
    <3>3. QED BY <1>4, <3>1, <3>2
  <2>3. QED BY <1>1, <2>1, <2>2 DEF HoldsBits
<1>8. QED BY <1>3, <1>7 DEF e, Bits

LEMMA ReadsByte ==
  ASSUME NEW items \in Seq(Item), NEW s, NEW bs, NEW k, NEW l, Layout(items, s, bs, k, l),
         NEW d, NEW i \in Nat, i + 1 \in 1 .. Len(items), Stands(d, bs, k, l, i),
         items[i + 1][1] = "byte"
  PROVE  /\ d.ilen < Len(s) /\ s[d.ilen + 1] = items[i + 1][2]
         /\ Stands(NextByte(d), bs, k, l, i + 1)
<1>0. i \in 0 .. Len(items) /\ i + 1 \in 0 .. Len(items) /\ (i + 1) - 1 = i  OBVIOUS
<1>1. s \in Seq(Byte) /\ l[i] \in Nat /\ d \in Buffer /\ d.ilen = l[i] /\ HoldsBits(d, bs, k[i])
  BY <1>0 DEF Layout, Stands
<1>2. ItemAt(items, s, bs, k, l, i + 1)  BY DEF Layout
<1>3. k[i + 1] = k[i] /\ l[i + 1] = l[i] + 1 /\ l[i + 1] <= Len(s) /\ s[l[i + 1]] = items[i + 1][2]
  BY <1>0, <1>2 DEF ItemAt
<1> DEFINE e == NextByte(d)
<1>4. e \in Buffer /\ e.bb = d.bb /\ e.ilen = d.ilen + 1  BY <1>1 DEF NextByte, Buffer
<1> HIDE DEF e
<1>5. HoldsBits(e, bs, k[i + 1])  BY <1>1, <1>3, <1>4 DEF HoldsBits
<1>6. Stands(e, bs, k, l, i + 1)  BY <1>1, <1>3, <1>4, <1>5 DEF Stands
<1>7. d.ilen < Len(s)  BY <1>1, <1>3
<1>8. QED BY <1>1, <1>3, <1>6, <1>7 DEF e

(* The items take bytes in their order, a byte at least each whole byte.   *)
LEMMA LayoutMonotone ==
  ASSUME NEW items \in Seq(Item), NEW s, NEW bs, NEW k, NEW l, Layout(items, s, bs, k, l),
         NEW i \in 0 .. Len(items), NEW j \in 0 .. Len(items), i <= j
  PROVE  l[i] <= l[j]
<1> DEFINE n == Len(items)
           S == {e \in Nat : i + e <= n => l[i] <= l[i + e]}
<1>0. n \in Nat /\ i \in Nat /\ j \in Nat /\ \A x \in 0 .. n : l[x] \in Nat  BY DEF Layout
<1>1. 0 \in S
  <2>1. i + 0 = i /\ l[i] <= l[i]  BY <1>0
  <2>2. QED BY <2>1
<1>2. ASSUME NEW e \in S PROVE e + 1 \in S
  <2>1. SUFFICES ASSUME i + (e + 1) <= n PROVE l[i] <= l[i + (e + 1)]  OBVIOUS
  <2> DEFINE x == i + (e + 1)
  <2>2. x \in 1 .. n /\ x - 1 = i + e /\ x \in 0 .. n /\ i + e \in 0 .. n  BY <1>0, <2>1
  <2>3. l[i] <= l[i + e]  BY <2>2
  <2> HIDE DEF x, S
  <2>4. ItemAt(items, s, bs, k, l, x)  BY <2>2 DEF Layout
  <2>5. l[x] = l[x - 1] + 1 \/ l[x] = l[x - 1]  BY <2>4 DEF ItemAt
  <2>6. l[i] <= l[x]  BY <1>0, <2>2, <2>3, <2>5
  <2>7. QED BY <2>6 DEF x
<1>3. S = Nat
  <2> HIDE DEF S
  <2>1. S \in SUBSET Nat  BY DEF S
  <2>2. QED BY <1>1, <1>2, <2>1, SetInduction
<1>4. j - i \in Nat /\ i + (j - i) = j /\ j <= n  BY <1>0
<1>5. j - i \in S  BY <1>3, <1>4
<1>6. QED BY <1>4, <1>5

LEMMA StillInput ==
  ASSUME NEW items \in Seq(Item), NEW s, NEW bs, NEW k, NEW l, Layout(items, s, bs, k, l),
         NEW d, NEW i \in Nat, Stands(d, bs, k, l, i),
         NEW j \in 1 .. Len(items), i < j, items[j][1] = "byte"
  PROVE  d.ilen < Len(s)
<1>0. i \in 0 .. Len(items) /\ j - 1 \in 0 .. Len(items) /\ j \in 0 .. Len(items) /\ i <= j - 1
  OBVIOUS
<1>1. s \in Seq(Byte) /\ l[i] \in Nat /\ l[j - 1] \in Nat /\ l[j] \in Nat /\ d.ilen = l[i]
  BY <1>0 DEF Layout, Stands
<1>2. ItemAt(items, s, bs, k, l, j)  BY DEF Layout
<1>3. l[j] = l[j - 1] + 1 /\ l[j] <= Len(s)  BY <1>2 DEF ItemAt
<1>4. l[i] <= l[j - 1]  BY <1>0, LayoutMonotone
<1>5. Len(s) \in Nat  BY <1>1
<1>6. QED BY <1>1, <1>3, <1>4, <1>5

LEMMA AllRead ==
  ASSUME NEW items, NEW s, NEW bs, NEW k, NEW l, Layout(items, s, bs, k, l),
         NEW d, Stands(d, bs, k, l, Len(items))
  PROVE  d.ilen = Len(s)
BY DEF Layout, Stands

-----------------------------------------------------------------------------
(* Tokens: what the items of a block say about its text.                   *)


(* s is put in the items from place at. *)
Put(items, at, s) ==
  /\ at + Len(s) <= Len(items)
  /\ \A i \in 1 .. Len(s) : items[at + i] = s[i]

(* The parts of a token. *)
PrefixItems(i) == bbPutBits(<<0>> \o Prefix(i))
OffsetItems(off, prev) ==
  IF off = prev THEN PrefixItems(0)
  ELSE PrefixItems(1 + (off - 1) \div ByteBase) \o bbPutByte((off - 1) % ByteBase)
CodedLength(off, len) == len - 1 - (IF off > M2_MAX_OFFSET THEN 1 ELSE 0)
LengthItems(v) ==
  bbPutBits(IF v >= 4 THEN <<0, 0>> \o Prefix(v - 4) ELSE <<IF v > 1 THEN 1 ELSE 0, v % 2>>)
EndItems == PrefixItems(EofPrefix) \o bbPutByte(ByteBase - 1)

(* Where a token begins: in the items and in the text, and the offset of   *)
(* the match before it.                                                    *)
Mark == [at : Nat, pos : Nat, last : Nat \ {0}]

LiteralStep(items, t, a, b) ==
  /\ a.pos + 1 <= Len(t)
  /\ Put(items, a.at, <<<<"bit", 1>>, <<"byte", t[a.pos + 1]>>>>)
  /\ b = [at |-> a.at + 2, pos |-> a.pos + 1, last |-> a.last]

(* A match is of bytes that are in the text already. *)
Repeats(t, p, off, len) ==
  /\ off \in 1 .. p /\ len \in Nat /\ len >= 3 /\ p + len <= Len(t)
  /\ \A i \in 1 .. len : t[p + i] = t[p + i - off]

MatchStep(items, t, a, b) ==
  \E off, len :
    /\ Repeats(t, a.pos, off, len)
    /\ Put(items, a.at, OffsetItems(off, a.last))
    /\ Put(items, a.at + Len(OffsetItems(off, a.last)), LengthItems(CodedLength(off, len)))
    /\ b = [at |-> a.at + Len(OffsetItems(off, a.last)) + Len(LengthItems(CodedLength(off, len))),
            pos |-> a.pos + len, last |-> off]

(* The items are tokens of the text, up to the mark. *)
Trail(items, t, T) ==
  /\ T \in Seq(Mark) /\ Len(T) >= 1
  /\ T[1] = [at |-> 0, pos |-> 0, last |-> 1]
  /\ \A i \in 1 .. Len(T) - 1 :
       LiteralStep(items, t, T[i], T[i + 1]) \/ MatchStep(items, t, T[i], T[i + 1])
Reaches(items, t, m) == \E T : Trail(items, t, T) /\ T[Len(T)] = m

(* All of the text, and the end mark. *)
Ended(items, t, T) ==
  /\ Trail(items, t, T)
  /\ T[Len(T)].pos = Len(t)
  /\ Put(items, T[Len(T)].at, EndItems)
  /\ Len(items) = T[Len(T)].at + Len(EndItems)
Encoded(items, t) == items \in Seq(Item) /\ \E T : Ended(items, t, T)

-----------------------------------------------------------------------------
LEMMA PrefixItemsTyped ==
  ASSUME NEW i \in Nat PROVE PrefixItems(i) \in Seq(Item)
<1>1. <<0>> \in Seq(Bits)  BY DEF Bits
<1>2. <<0>> \o Prefix(i) \in Seq(Bits)  BY <1>1, PrefixTyped
<1>3. QED BY <1>2, PutTyped DEF PrefixItems

LEMMA OffsetItemsTyped ==
  ASSUME NEW off \in Nat \ {0}, NEW prev PROVE OffsetItems(off, prev) \in Seq(Item)
<1> DEFINE p == (off - 1) \div ByteBase
           c == (off - 1) % ByteBase
<1>1. p \in Nat /\ c \in Byte
  <2>1. ByteBase \in Nat \ {0} /\ off - 1 \in Nat  BY ByteFacts
  <2>2. QED BY <2>1, DivMod, ByteOfNat
<1>2. OffsetItems(off, prev) = IF off = prev THEN PrefixItems(0)
                               ELSE PrefixItems(1 + p) \o bbPutByte(c)
  BY DEF OffsetItems
<1> HIDE DEF p, c
<1>3. 1 + p \in Nat  BY <1>1
<1>4. PrefixItems(0) \in Seq(Item) /\ PrefixItems(1 + p) \in Seq(Item)  BY <1>3, PrefixItemsTyped
<1>5. bbPutByte(c) \in Seq(Item)  BY <1>1, PutTyped
<1>6. PrefixItems(1 + p) \o bbPutByte(c) \in Seq(Item)  BY <1>4, <1>5
<1>7. QED BY <1>2, <1>4, <1>6

LEMMA LengthItemsTyped ==
  ASSUME NEW v \in Nat PROVE LengthItems(v) \in Seq(Item)
<1>1. CASE v >= 4
  <2>1. v - 4 \in Nat /\ <<0, 0>> \in Seq(Bits)  BY <1>1 DEF Bits
  <2>2. <<0, 0>> \o Prefix(v - 4) \in Seq(Bits)  BY <2>1, PrefixTyped
  <2>3. QED BY <1>1, <2>2, PutTyped DEF LengthItems
<1>2. CASE ~(v >= 4)
  <2>1. v % 2 \in Bits /\ (IF v > 1 THEN 1 ELSE 0) \in Bits  BY DEF Bits
  <2>2. <<IF v > 1 THEN 1 ELSE 0, v % 2>> \in Seq(Bits)  BY <2>1
  <2>3. QED BY <1>2, <2>2, PutTyped DEF LengthItems
<1>3. QED BY <1>1, <1>2

LEMMA CodedLengthTyped ==
  ASSUME NEW off \in Nat, NEW len \in Nat, len >= 3
  PROVE  CodedLength(off, len) \in Nat \ {0}
BY DEF CodedLength

LEMMA EndItemsTyped == EndItems \in Seq(Item) /\ Len(EndItems) >= 1
<1>1. PrefixItems(EofPrefix) \in Seq(Item)  BY ByteFacts, PrefixItemsTyped
<1>2. bbPutByte(ByteBase - 1) \in Seq(Item)
  <2>1. ByteBase - 1 \in Byte  BY ByteFacts DEF Byte
  <2>2. QED BY <2>1, PutTyped
<1>3. Len(bbPutByte(ByteBase - 1)) = 1  BY DEF bbPutByte
<1>4. QED
  <2>1. PICK a \in Seq(Item), b \in Seq(Item) : /\ a = PrefixItems(EofPrefix)
                                                /\ b = bbPutByte(ByteBase - 1)
    BY <1>1, <1>2
  <2>2. a \o b \in Seq(Item) /\ Len(a \o b) = Len(a) + Len(b)  OBVIOUS
  <2>3. QED BY <1>3, <2>1, <2>2 DEF EndItems

(* A match is put as its offset and its length. *)
LEMMA MatchParts ==
  ASSUME NEW m
  PROVE  code_match(m) = OffsetItems(m.off, last) \o LengthItems(CodedLength(m.off, m.len))
<1>1. <<0>> \o Prefix(0) = <<0, 0, 1>>
  <2>1. 0 + 2 = 2 /\ Log2(2) = 1
    <3>1. Log2(2) \in Nat /\ 2 ^ Log2(2) <= 2 /\ 2 < 2 ^ (Log2(2) + 1)  BY Log2Exists
    <3>2. 2 ^ 0 = 1 /\ 2 ^ (0 + 1) = 2 * 2 ^ 0 /\ 2 ^ (1 + 1) = 2 * 2 ^ 1 /\ 0 + 1 = 1
      BY PowerOfZero, PowerOfTwo
    <3>3. PICK y \in Nat : y = Log2(2)  BY <3>1
    <3>4. y # 0
      <4>1. SUFFICES ASSUME y = 0 PROVE FALSE  OBVIOUS
      <4>2. Log2(2) + 1 = 1  BY <3>3, <4>1
      <4>3. 2 ^ (Log2(2) + 1) = 2 ^ 1  BY <4>2
      <4>4. 2 ^ 1 = 2  BY <3>2
      <4>5. QED BY <3>1, <4>3, <4>4
    <3>5. CASE y >= 2
      <4>1. y - 2 \in Nat /\ 2 + (y - 2) = y  BY <3>5
      <4>2. 2 ^ 2 * 2 ^ (y - 2) = 2 ^ y  BY <4>1, PowerSum
      <4>3. 2 ^ (y - 2) \in Nat \ {0}  BY <4>1, PowerOfTwo
      <4>4. 2 ^ 2 = 4  BY <3>2
      <4>5. PICK z \in Nat \ {0} : z = 2 ^ (y - 2)  BY <4>3
      <4>6. 2 ^ y = 4 * z  BY <4>2, <4>4, <4>5
      <4>7. QED BY <3>1, <3>3, <4>5, <4>6
    <3>6. QED BY <3>3, <3>4, <3>5
  <2>2. BitOf(2, 0) = 0
    <3>1. 2 ^ 0 = 1  BY PowerOfZero
    <3>2. (2 \div 1) % 2 = 0  OBVIOUS
    <3>3. QED BY <3>1, <3>2 DEF BitOf
  <2>3. Prefix(0) = [j \in 1 .. 2 * 1 |-> IF j % 2 = 1 THEN BitOf(2, 1 - (j + 1) \div 2)
                                          ELSE IF j = 2 * 1 THEN 1 ELSE 0]
    BY <2>1 DEF Prefix
  <2>4. Prefix(0) = <<0, 1>>
    <3>1. DOMAIN Prefix(0) = 1 .. 2 /\ Prefix(0)[1] = 0 /\ Prefix(0)[2] = 1
      <4>1. 1 \in 1 .. 2 /\ 2 \in 1 .. 2 /\ 2 * 1 = 2 /\ 1 % 2 = 1 /\ 2 % 2 # 1
            /\ 1 - (1 + 1) \div 2 = 0
        OBVIOUS
      <4>2. QED BY <2>2, <2>3, <4>1
    <3>2. Prefix(0) = [j \in 1 .. 2 |-> Prefix(0)[j]]  BY <2>3, <3>1
    <3>3. QED BY <3>1, <3>2
  <2>5. <<0>> \o <<0, 1>> = <<0, 0, 1>>
    <3>0. <<0>> \in Seq(Bits) /\ <<0, 1>> \in Seq(Bits) /\ <<0, 0, 1>> \in Seq(Bits)
      BY DEF Bits
    <3>1. PICK u \in Seq(Bits), v \in Seq(Bits), w \in Seq(Bits) :
            u = <<0>> /\ v = <<0, 1>> /\ w = <<0, 0, 1>>
      BY <3>0
    <3>2. Len(u) = 1 /\ u[1] = 0 /\ Len(v) = 2 /\ v[1] = 0 /\ v[2] = 1
      BY <3>1
    <3>3. Len(w) = 3 /\ w[1] = 0 /\ w[2] = 0 /\ w[3] = 1  BY <3>1
    <3>4. u \o v \in Seq(Bits) /\ Len(u \o v) = 3
          /\ (u \o v)[1] = u[1] /\ (u \o v)[2] = v[1] /\ (u \o v)[3] = v[2]
      <4>1. /\ u \o v \in Seq(Bits) /\ Len(u \o v) = Len(u) + Len(v)
            /\ \A i \in 1 .. Len(u) + Len(v) :
                 (u \o v)[i] = IF i <= Len(u) THEN u[i] ELSE v[i - Len(u)]
        BY ConcatProperties
      <4>2. 1 \in 1 .. Len(u) + Len(v) /\ 2 \in 1 .. Len(u) + Len(v) /\ 3 \in 1 .. Len(u) + Len(v)
            /\ 2 - Len(u) = 1 /\ 3 - Len(u) = 2
        BY <3>2
      <4>3. (u \o v)[1] = u[1]  BY <3>2, <4>1, <4>2
      <4>4. (u \o v)[2] = v[2 - Len(u)]  BY <3>2, <4>1, <4>2
      <4>5. (u \o v)[3] = v[3 - Len(u)]  BY <3>2, <4>1, <4>2
      <4>6. QED BY <3>2, <4>1, <4>2, <4>3, <4>4, <4>5
    <3>5. \A i \in 1 .. 3 : (u \o v)[i] = w[i]  BY <3>2, <3>3, <3>4
    <3>6. u \o v = w  BY <3>3, <3>4, <3>5, SeqEqual
    <3>7. QED BY <3>1, <3>6
  <2>6. QED BY <2>4, <2>5
<1>2. PrefixItems(0) = bbPutBits(<<0, 0, 1>>)  BY <1>1 DEF PrefixItems
<1>3. QED BY <1>2 DEF code_match, OffsetItems, LengthItems, CodedLength, PrefixItems

-----------------------------------------------------------------------------
(* What is put stays, and what is put last is there. *)
LEMMA PutMore ==
  ASSUME NEW S, NEW items \in Seq(S), NEW more \in Seq(S), NEW at \in Nat, NEW s \in Seq(S),
         Put(items, at, s)
  PROVE  Put(items \o more, at, s)
<1>1. /\ Len(items) \in Nat /\ Len(more) \in Nat /\ Len(s) \in Nat
      /\ Len(items \o more) = Len(items) + Len(more)
      /\ \A i \in 1 .. Len(items) : (items \o more)[i] = items[i]
  OBVIOUS
<1>2. at + Len(s) <= Len(items) /\ \A i \in 1 .. Len(s) : items[at + i] = s[i]  BY DEF Put
<1>3. ASSUME NEW i \in 1 .. Len(s) PROVE (items \o more)[at + i] = s[i]
  <2>1. at + i \in 1 .. Len(items)  BY <1>1, <1>2
  <2>2. QED BY <1>1, <1>2, <2>1
<1>4. QED BY <1>1, <1>2, <1>3 DEF Put

LEMMA PutLast ==
  ASSUME NEW S, NEW items \in Seq(S), NEW s \in Seq(S)
  PROVE  Put(items \o s, Len(items), s)
BY DEF Put

LEMMA PutParts ==
  ASSUME NEW S, NEW items \in Seq(S), NEW at \in Nat, NEW a \in Seq(S), NEW b \in Seq(S)
  PROVE  Put(items, at, a \o b) <=> Put(items, at, a) /\ Put(items, at + Len(a), b)
<1>1. /\ Len(a) \in Nat /\ Len(b) \in Nat /\ Len(items) \in Nat /\ Len(a \o b) = Len(a) + Len(b)
      /\ \A i \in 1 .. Len(a) : (a \o b)[i] = a[i]
      /\ \A i \in 1 .. Len(b) : (a \o b)[Len(a) + i] = b[i]
  OBVIOUS
<1>2. ASSUME Put(items, at, a \o b) PROVE Put(items, at, a) /\ Put(items, at + Len(a), b)
  <2>1. /\ at + (Len(a) + Len(b)) <= Len(items)
        /\ \A i \in 1 .. Len(a) + Len(b) : items[at + i] = (a \o b)[i]
    BY <1>1, <1>2 DEF Put
  <2>2. ASSUME NEW i \in 1 .. Len(a) PROVE items[at + i] = a[i]
    <3>1. i \in 1 .. Len(a) + Len(b)  BY <1>1
    <3>2. QED BY <1>1, <2>1, <3>1
  <2>3. ASSUME NEW i \in 1 .. Len(b) PROVE items[at + Len(a) + i] = b[i]
    <3>1. Len(a) + i \in 1 .. Len(a) + Len(b) /\ at + (Len(a) + i) = at + Len(a) + i  BY <1>1
    <3>2. items[at + (Len(a) + i)] = (a \o b)[Len(a) + i]  BY <2>1, <3>1
    <3>3. QED BY <1>1, <3>1, <3>2
  <2>4. at + Len(a) <= Len(items) /\ at + Len(a) + Len(b) <= Len(items)  BY <1>1, <2>1
  <2>5. QED BY <2>2, <2>3, <2>4 DEF Put
<1>3. ASSUME Put(items, at, a), Put(items, at + Len(a), b) PROVE Put(items, at, a \o b)
  <2>1. /\ at + Len(a) + Len(b) <= Len(items)
        /\ \A i \in 1 .. Len(a) : items[at + i] = a[i]
        /\ \A i \in 1 .. Len(b) : items[at + Len(a) + i] = b[i]
    BY <1>3 DEF Put
  <2>2. ASSUME NEW i \in 1 .. Len(a \o b) PROVE items[at + i] = (a \o b)[i]
    <3>1. CASE i <= Len(a)
      <4>1. i \in 1 .. Len(a)  BY <1>1, <3>1
      <4>2. QED BY <1>1, <2>1, <4>1
    <3>2. CASE ~(i <= Len(a))
      <4>1. i - Len(a) \in 1 .. Len(b) /\ Len(a) + (i - Len(a)) = i
            /\ at + Len(a) + (i - Len(a)) = at + i
        BY <1>1, <3>2
      <4>2. items[at + Len(a) + (i - Len(a))] = b[i - Len(a)]  BY <2>1, <4>1
      <4>3. (a \o b)[Len(a) + (i - Len(a))] = b[i - Len(a)]  BY <1>1, <4>1
      <4>4. QED BY <4>1, <4>2, <4>3
    <3>3. QED BY <3>1, <3>2
  <2>3. at + Len(a \o b) <= Len(items)  BY <1>1, <2>1
  <2>4. QED BY <2>2, <2>3 DEF Put
<1>4. QED BY <1>2, <1>3

LEMMA LiteralTyped ==
  ASSUME NEW x \in Byte PROVE <<<<"bit", 1>>, <<"byte", x>>>> \in Seq(Item)
<1>1. <<"bit", 1>> \in Item /\ <<"byte", x>> \in Item  BY DEF Item, Bits
<1>2. QED BY <1>1

(* The trail of what was put does not change when more is put. *)
LEMMA ReachesMore ==
  ASSUME NEW items \in Seq(Item), NEW more \in Seq(Item), NEW t \in Seq(Byte), NEW m,
         Reaches(items, t, m)
  PROVE  Reaches(items \o more, t, m)
<1>1. PICK T : Trail(items, t, T) /\ T[Len(T)] = m  BY DEF Reaches
<1>2. T \in Seq(Mark) /\ Len(T) >= 1 /\ T[1] = [at |-> 0, pos |-> 0, last |-> 1]  BY <1>1 DEF Trail
<1>3. ASSUME NEW i \in 1 .. Len(T) - 1
      PROVE  \/ LiteralStep(items \o more, t, T[i], T[i + 1])
             \/ MatchStep(items \o more, t, T[i], T[i + 1])
  <2>1. i \in 1 .. Len(T) /\ i + 1 \in 1 .. Len(T)  BY <1>2
  <2>2. PICK a \in Mark, b \in Mark : a = T[i] /\ b = T[i + 1]  BY <1>2, <2>1
  <2>3. LiteralStep(items, t, a, b) \/ MatchStep(items, t, a, b)  BY <1>1, <2>2 DEF Trail
  <2>4. a.at \in Nat /\ a.pos \in Nat /\ a.last \in Nat  BY DEF Mark
  <2>5. CASE LiteralStep(items, t, a, b)
    <3>1. a.pos + 1 \in 1 .. Len(t)  BY <2>4, <2>5 DEF LiteralStep
    <3>2. t[a.pos + 1] \in Byte  BY <3>1
    <3>3. <<<<"bit", 1>>, <<"byte", t[a.pos + 1]>>>> \in Seq(Item)  BY <3>2, LiteralTyped
    <3>4. Put(items \o more, a.at, <<<<"bit", 1>>, <<"byte", t[a.pos + 1]>>>>)
      BY <2>4, <2>5, <3>3, PutMore DEF LiteralStep
    <3>5. LiteralStep(items \o more, t, a, b)  BY <2>5, <3>4 DEF LiteralStep
    <3>6. QED BY <2>2, <3>5
  <2>6. CASE MatchStep(items, t, a, b)
    <3> DEFINE O(off) == OffsetItems(off, a.last)
               L(off, len) == LengthItems(CodedLength(off, len))
    <3>1. PICK off, len :
            /\ Repeats(t, a.pos, off, len)
            /\ Put(items, a.at, O(off)) /\ Put(items, a.at + Len(O(off)), L(off, len))
            /\ b = [at |-> a.at + Len(O(off)) + Len(L(off, len)), pos |-> a.pos + len, last |-> off]
      BY <2>6 DEF MatchStep
    <3>2. off \in Nat \ {0} /\ len \in Nat /\ len >= 3  BY <2>4, <3>1 DEF Repeats
    <3>3. O(off) \in Seq(Item)  BY <3>2, OffsetItemsTyped
    <3>4. L(off, len) \in Seq(Item)  BY <3>2, CodedLengthTyped, LengthItemsTyped
    <3>5. a.at + Len(O(off)) \in Nat  BY <2>4, <3>3
    <3> HIDE DEF O, L
    <3>6. Put(items \o more, a.at, O(off)) /\ Put(items \o more, a.at + Len(O(off)), L(off, len))
      BY <2>4, <3>1, <3>3, <3>4, <3>5, PutMore
    <3>7. MatchStep(items \o more, t, a, b)  BY <3>1, <3>6 DEF MatchStep, O, L
    <3>8. QED BY <2>2, <3>7
  <2>7. QED BY <2>3, <2>5, <2>6
<1>4. Trail(items \o more, t, T)  BY <1>2, <1>3 DEF Trail
<1>5. QED BY <1>1, <1>4 DEF Reaches

LEMMA ReachesNext ==
  ASSUME NEW items, NEW t, NEW a, Reaches(items, t, a), NEW b \in Mark,
         LiteralStep(items, t, a, b) \/ MatchStep(items, t, a, b)
  PROVE  Reaches(items, t, b)
<1>1. PICK T : Trail(items, t, T) /\ T[Len(T)] = a  BY DEF Reaches
<1>2. T \in Seq(Mark) /\ Len(T) >= 1 /\ T[1] = [at |-> 0, pos |-> 0, last |-> 1]  BY <1>1 DEF Trail
<1> DEFINE U == Append(T, b)
<1>3. /\ U \in Seq(Mark) /\ Len(U) = Len(T) + 1 /\ U[Len(T) + 1] = b /\ Len(T) \in Nat
      /\ \A i \in 1 .. Len(T) : U[i] = T[i]
  BY <1>2
<1> HIDE DEF U
<1>4. U[1] = T[1]  BY <1>2, <1>3
<1>5. ASSUME NEW i \in 1 .. Len(U) - 1
      PROVE  LiteralStep(items, t, U[i], U[i + 1]) \/ MatchStep(items, t, U[i], U[i + 1])
  <2>1. i \in 1 .. Len(T)  BY <1>3
  <2>2. CASE i = Len(T)
    <3>1. U[i] = a /\ U[i + 1] = b  BY <1>1, <1>3, <2>1, <2>2
    <3>2. QED BY <3>1
  <2>3. CASE i # Len(T)
    <3>1. i \in 1 .. Len(T) - 1 /\ i + 1 \in 1 .. Len(T)  BY <1>3, <2>1, <2>3
    <3>2. U[i] = T[i] /\ U[i + 1] = T[i + 1]  BY <1>3, <2>1, <3>1
    <3>3. QED BY <1>1, <3>1, <3>2 DEF Trail
  <2>4. QED BY <2>2, <2>3
<1>6. Trail(items, t, U)  BY <1>2, <1>3, <1>4, <1>5 DEF Trail
<1>7. U[Len(U)] = b  BY <1>3
<1>8. QED BY <1>6, <1>7 DEF Reaches

-----------------------------------------------------------------------------
(* The compressor writes tokens of its text.                               *)


LEMMA PutTogether ==
  ASSUME NEW a \in Seq(Item), NEW b \in Seq(Item), NEW c \in Seq(Item)
  PROVE  (a \o b) \o c = a \o (b \o c)
BY ConcatAssociative

LEMMA TwoMore ==
  ASSUME NEW a \in Seq(Item), NEW w \in Seq(Item), Len(w) = 2
  PROVE  /\ a \o w \in Seq(Item) /\ Len(a \o w) = Len(a) + 2
         /\ \A i \in 1 .. Len(a) : (a \o w)[i] = a[i]
         /\ (a \o w)[Len(a) + 1] = w[1] /\ (a \o w)[Len(a) + 2] = w[2]
<1>1. /\ a \o w \in Seq(Item) /\ Len(a \o w) = Len(a) + Len(w)
      /\ \A i \in 1 .. Len(a) + Len(w) :
           (a \o w)[i] = IF i <= Len(a) THEN a[i] ELSE w[i - Len(a)]
  BY ConcatProperties
<1>2. Len(a) \in Nat /\ Len(a) + 1 - Len(a) = 1 /\ Len(a) + 2 - Len(a) = 2  OBVIOUS
<1>3. ASSUME NEW i \in 1 .. Len(a) PROVE (a \o w)[i] = a[i]
  <2>1. i \in 1 .. Len(a) + Len(w) /\ i <= Len(a)  BY <1>2
  <2>2. QED BY <1>1, <2>1
<1>4. (a \o w)[Len(a) + 1] = w[1]
  <2>1. Len(a) + 1 \in 1 .. Len(a) + Len(w) /\ ~(Len(a) + 1 <= Len(a))  BY <1>2
  <2>2. QED BY <1>1, <1>2, <2>1
<1>5. (a \o w)[Len(a) + 2] = w[2]
  <2>1. Len(a) + 2 \in 1 .. Len(a) + Len(w) /\ ~(Len(a) + 2 <= Len(a))  BY <1>2
  <2>2. QED BY <1>1, <1>2, <2>1
<1>6. QED BY <1>1, <1>3, <1>4, <1>5

(* A run is tokens of its bytes. *)
LEMMA RunReaches ==
  ASSUME text \in Seq(Byte), NEW items \in Seq(Item), NEW from \in Nat, NEW n \in Nat,
         from + n <= Len(text), NEW prev \in Nat \ {0},
         Reaches(items, text, [at |-> Len(items), pos |-> from, last |-> prev])
  PROVE  LET run == items \o code_run(from, n)
         IN  Reaches(run, text, [at |-> Len(run), pos |-> from + n, last |-> prev])
<1> DEFINE R(j) == items \o code_run(from, j)
           M(j) == [at |-> Len(R(j)), pos |-> from + j, last |-> prev]
           S == {j \in Nat : j <= n => Reaches(R(j), text, M(j))}
<1>1. ASSUME NEW j \in Nat, j <= n
      PROVE  code_run(from, j) \in Seq(Item) /\ Len(code_run(from, j)) = 2 * j
  <2>1. code_run(from, j) \in Seq(Item)  BY <1>1, CodeRunTyped
  <2>2. DOMAIN code_run(from, j) = 1 .. 2 * j /\ 2 * j \in Nat  BY DEF code_run
  <2>3. QED BY <2>1, <2>2
<1>2. 0 \in S
  <2>1. code_run(from, 0) = <<>>
    <3>1. code_run(from, 0) \in Seq(Item) /\ Len(code_run(from, 0)) = 0  BY <1>1
    <3>2. QED BY <3>1
  <2>2. items \o <<>> = items  OBVIOUS
  <2>3. R(0) = items /\ from + 0 = from  BY <2>1, <2>2
  <2>4. QED BY <2>3
<1>3. ASSUME NEW j \in S PROVE j + 1 \in S
  <2>1. SUFFICES ASSUME j + 1 <= n PROVE Reaches(R(j + 1), text, M(j + 1))  OBVIOUS
  <2>2. j \in Nat /\ j <= n /\ from + j + 1 \in 1 .. Len(text)  BY <2>1
  <2>3. Reaches(R(j), text, M(j))  BY <2>2
  <2> DEFINE c == text[from + j + 1]
             more == <<<<"bit", 1>>, <<"byte", c>>>>
  <2>4. c \in Byte  BY <2>2
  <2> HIDE DEF c
  <2>5. more \in Seq(Item) /\ Len(more) = 2 /\ more[1] = <<"bit", 1>> /\ more[2] = <<"byte", c>>
    BY <2>4, LiteralTyped
  <2> HIDE DEF S
  <2>6. code_run(from, j + 1) = code_run(from, j) \o more
    <3> DEFINE a == code_run(from, j)
               b == code_run(from, j + 1)
    <3>1. a \in Seq(Item) /\ Len(a) = 2 * j /\ b \in Seq(Item) /\ Len(b) = 2 * j + 2
      <4>1. a \in Seq(Item) /\ Len(a) = 2 * j  BY <1>1, <2>2
      <4>2. b \in Seq(Item) /\ Len(b) = 2 * (j + 1)  BY <1>1, <2>1, <2>2
      <4>3. 2 * (j + 1) = 2 * j + 2  BY <2>2
      <4>4. QED BY <4>1, <4>2, <4>3
    <3>2. /\ \A i \in 1 .. 2 * j :
               a[i] = IF i % 2 = 1 THEN <<"bit", 1>> ELSE <<"byte", text[from + i \div 2]>>
          /\ \A i \in 1 .. 2 * (j + 1) :
               b[i] = IF i % 2 = 1 THEN <<"bit", 1>> ELSE <<"byte", text[from + i \div 2]>>
      BY DEF code_run
    <3> HIDE DEF a, b, more
    <3>3. /\ a \o more \in Seq(Item) /\ Len(a \o more) = 2 * j + 2
          /\ \A i \in 1 .. 2 * j : (a \o more)[i] = a[i]
          /\ (a \o more)[2 * j + 1] = more[1] /\ (a \o more)[2 * j + 2] = more[2]
      <4>1. PICK w \in Seq(Item), u \in Seq(Item) : w = more /\ u = a  BY <2>5, <3>1
      <4>2. PICK x \in Nat : x = 2 * j /\ Len(u) = x  BY <2>2, <3>1, <4>1
      <4>3. Len(w) = 2  BY <2>5, <4>1
      <4>4. /\ u \o w \in Seq(Item) /\ Len(u \o w) = Len(u) + 2
            /\ \A i \in 1 .. Len(u) : (u \o w)[i] = u[i]
            /\ (u \o w)[Len(u) + 1] = w[1] /\ (u \o w)[Len(u) + 2] = w[2]
        BY <4>3, TwoMore
      <4>5. QED BY <4>1, <4>2, <4>4
    <3>4. ASSUME NEW i \in 1 .. 2 * j + 2 PROVE b[i] = (a \o more)[i]
      <4>0. i \in 1 .. 2 * (j + 1)  BY <2>2
      <4>1. CASE i <= 2 * j
        <5>1. i \in 1 .. 2 * j  BY <2>2, <4>1
        <5>2. a[i] = b[i]  BY <3>2, <4>0, <5>1
        <5>3. QED BY <3>3, <5>1, <5>2
      <4>2. CASE i = 2 * j + 1
        <5>1. i % 2 = 1  BY <2>2, <4>2
        <5>2. b[i] = <<"bit", 1>>  BY <3>2, <4>0, <5>1
        <5>3. QED BY <2>5, <3>3, <4>2, <5>2
      <4>3. CASE i = 2 * j + 2
        <5>1. i % 2 # 1 /\ from + i \div 2 = from + j + 1  BY <2>2, <4>3
        <5>2. b[i] = <<"byte", text[from + i \div 2]>>  BY <3>2, <4>0, <5>1
        <5>3. b[i] = <<"byte", c>>  BY <5>1, <5>2 DEF c
        <5>4. QED BY <2>5, <3>3, <4>3, <5>3
      <4>4. PICK x \in Nat : x = 2 * j  BY <2>2
      <4>5. i <= x \/ i = x + 1 \/ i = x + 2  BY <4>4
      <4>6. QED BY <4>1, <4>2, <4>3, <4>4, <4>5
    <3>5. b = a \o more  BY <3>1, <3>3, <3>4, SeqEqual
    <3>6. QED BY <3>5 DEF a, b
  <2>7. PICK a \in Seq(Item) : a = R(j)
    <3>1. PICK b \in Seq(Item) : b = code_run(from, j)  BY <1>1, <2>2
    <3>2. items \o b \in Seq(Item)  OBVIOUS
    <3>3. QED BY <3>1, <3>2
  <2>8. R(j + 1) = a \o more
    <3>1. PICK b \in Seq(Item) : b = code_run(from, j)  BY <1>1, <2>2
    <3>2. PICK w \in Seq(Item) : w = more  BY <2>5
    <3>3. (items \o b) \o w = items \o (b \o w)  BY PutTogether
    <3> HIDE DEF more
    <3>4. QED BY <2>6, <2>7, <3>1, <3>2, <3>3
  <2>9. Len(a \o more) = Len(a) + 2 /\ Len(a) \in Nat /\ Len(a) + 2 \in Nat
    <3>1. PICK w \in Seq(Item) : w = more /\ Len(w) = 2  BY <2>5
    <3>2. Len(a \o w) = Len(a) + Len(w)  OBVIOUS
    <3> HIDE DEF more
    <3>3. QED BY <3>1, <3>2
  <2> DEFINE m1 == [at |-> Len(a), pos |-> from + j, last |-> prev]
             m2 == [at |-> Len(a) + 2, pos |-> from + j + 1, last |-> prev]
  <2>10. Reaches(a, text, m1)  BY <2>3, <2>7
  <2>11. Reaches(a \o more, text, m1)  BY <2>5, <2>10, ReachesMore
  <2>12. LiteralStep(a \o more, text, m1, m2)
    <3>1. Put(a \o more, Len(a), more)  BY <2>5, PutLast
    <3>2. m1.pos + 1 = from + j + 1 /\ m1.at = Len(a)  BY <2>2
    <3>3. QED BY <2>2, <3>1, <3>2 DEF LiteralStep, c
  <2>13. m2 \in Mark  BY <2>2, <2>9 DEF Mark
  <2>14. Reaches(a \o more, text, m2)
    <3> HIDE DEF m1, m2, more
    <3>1. QED BY <2>11, <2>12, <2>13, ReachesNext
  <2>15. m2 = M(j + 1)  BY <2>2, <2>8, <2>9
  <2>16. QED
    <3> HIDE DEF m2, M, R, more
    <3>1. QED BY <2>8, <2>14, <2>15
<1>4. S = Nat
  <2> HIDE DEF S
  <2>1. S \in SUBSET Nat  BY DEF S
  <2>2. QED BY <1>2, <1>3, <2>1, SetInduction
<1>5. n \in S  BY <1>4
<1>6. QED BY <1>5

(* A match is a token of its bytes. *)
LEMMA MatchReaches ==
  ASSUME text \in Seq(Byte), NEW items \in Seq(Item), NEW p \in Nat, last \in Nat \ {0},
         NEW m, Repeats(text, p, m.off, m.len),
         Reaches(items, text, [at |-> Len(items), pos |-> p, last |-> last])
  PROVE  LET all == items \o code_match(m)
         IN  Reaches(all, text, [at |-> Len(all), pos |-> p + m.len, last |-> m.off])
<1> DEFINE O == OffsetItems(m.off, last)
           L == LengthItems(CodedLength(m.off, m.len))
           all == items \o code_match(m)
           a == [at |-> Len(items), pos |-> p, last |-> last]
           b == [at |-> Len(all), pos |-> p + m.len, last |-> m.off]
<1>1. m.off \in Nat \ {0} /\ m.len \in Nat /\ m.len >= 3  BY DEF Repeats
<1>2. O \in Seq(Item)  BY <1>1, OffsetItemsTyped
<1>3. L \in Seq(Item)  BY <1>1, CodedLengthTyped, LengthItemsTyped
<1>4. code_match(m) = O \o L  BY MatchParts
<1> HIDE DEF O, L
<1>5. /\ code_match(m) \in Seq(Item) /\ all \in Seq(Item)
      /\ Len(all) = Len(items) + (Len(O) + Len(L)) /\ Len(items) \in Nat
      /\ Len(O) \in Nat /\ Len(L) \in Nat
  BY <1>2, <1>3, <1>4
<1>6. Reaches(all, text, a)  BY <1>5, ReachesMore
<1>7. Put(all, Len(items), O \o L)  BY <1>4, <1>5, PutLast
<1> HIDE DEF all
<1>8. Put(all, Len(items), O) /\ Put(all, Len(items) + Len(O), L)
  BY <1>2, <1>3, <1>5, <1>7, PutParts
<1>9. b = [at |-> Len(items) + Len(O) + Len(L), pos |-> p + m.len, last |-> m.off]
  BY <1>5
<1>10. MatchStep(all, text, a, b)
  <2>1. a.at = Len(items) /\ a.pos = p /\ a.last = last  OBVIOUS
  <2>2. QED BY <1>8, <1>9, <2>1 DEF MatchStep, O, L
<1>11. b \in Mark  BY <1>1, <1>5 DEF Mark
<1>12. Reaches(all, text, b)
  <2> HIDE DEF a, b
  <2>1. QED BY <1>6, <1>10, <1>11, ReachesNext
<1>13. QED BY <1>12 DEF all

(* With the end mark the text is encoded. *)
LEMMA EndReached ==
  ASSUME NEW t \in Seq(Byte), NEW items \in Seq(Item), NEW prev,
         Reaches(items, t, [at |-> Len(items), pos |-> Len(t), last |-> prev])
  PROVE  Encoded(items \o EndItems, t)
<1> DEFINE m == [at |-> Len(items), pos |-> Len(t), last |-> prev]
           all == items \o EndItems
<1>1. EndItems \in Seq(Item)  BY EndItemsTyped
<1>2. all \in Seq(Item) /\ Len(all) = Len(items) + Len(EndItems)  BY <1>1
<1>3. Reaches(all, t, m)  BY <1>1, ReachesMore
<1>4. Put(all, Len(items), EndItems)  BY <1>1, PutLast
<1> HIDE DEF all
<1>5. PICK T : Trail(all, t, T) /\ T[Len(T)] = m  BY <1>3 DEF Reaches
<1>6. Ended(all, t, T)  BY <1>2, <1>4, <1>5 DEF Ended
<1>7. QED BY <1>2, <1>6 DEF Encoded, all

-----------------------------------------------------------------------------
(* The compressor: a match of the finder is one, and what is put so far is *)
(* tokens of the text.                                                     *)
MatchTrue(m, p) == m.len >= 3 => Repeats(text, p, m.off, m.len)

EInv ==
  /\ last \in Nat \ {0}
  /\ MatchTrue(found, bp)
  /\ cpc = "lazy" => MatchTrue(cand, bp - ahead)
  /\ cpc # "done" => Reaches(out, text, [at |-> Len(out), pos |-> coded, last |-> last])
  /\ cpc = "done" /\ text # <<>> => Encoded(out, text)

LEMMA FindTrue ==
  ASSUME text \in Seq(Byte), text' = text, NEW p \in Nat, p <= Len(text), find_match(p)
  PROVE  bp' = p /\ MatchTrue(found, bp)'
<1>1. bp' = p  BY DEF find_match
<1>2. CASE found' \in {NoMatch, [len |-> 0, off |-> 0]}
  BY <1>1, <1>2 DEF NoMatch, MatchTrue
<1>3. CASE found' \notin {NoMatch, [len |-> 0, off |-> 0]}
  <2>1. found' \in Matches(p) /\ found'.len >= 3  BY <1>3 DEF find_match
  <2>2. PICK off \in 1 .. p : found' = [len |-> Common(p, off), off |-> off]
    BY <2>1 DEF Matches
  <2>3. /\ Common(p, off) \in 0 .. Len(text) - p
        /\ \A i \in 1 .. Common(p, off) : text[p + i] = text[p + i - off]
    BY CommonFound
  <2>4. found'.off = off /\ found'.len = Common(p, off)  BY <2>2
  <2>5. Len(text) \in Nat  OBVIOUS
  <2>6. Repeats(text, p, off, Common(p, off))  BY <2>1, <2>3, <2>4, <2>5 DEF Repeats
  <2>7. QED BY <1>1, <2>4, <2>6 DEF MatchTrue
<1>4. QED BY <1>2, <1>3

LEMMA IdleEncodes == CompressIdle => EInv
BY DEF CompressIdle, EInv, MatchTrue, NoMatch

LEMMA StartEncodes ==
  ASSUME NEW t \in Seq(Byte), CompressStart(t)
  PROVE  EInv'
<1> DEFINE m == [at |-> 0, pos |-> 0, last |-> 1]
<1>1. Reaches(<<>>, t, m)
  <2>1. m \in Mark  BY DEF Mark
  <2> HIDE DEF m
  <2>a. <<m>> \in Seq(Mark)  BY <2>1
  <2>2. PICK T \in Seq(Mark) : T = <<m>>  BY <2>a
  <2>3. Len(T) = 1 /\ T[1] = m /\ T[Len(T)] = m /\ 1 .. Len(T) - 1 = {}  BY <2>2
  <2>4. Trail(<<>>, t, T)  BY <2>3 DEF Trail, m
  <2>5. QED BY <2>3, <2>4 DEF Reaches
<1>2. Len(<<>>) = 0  OBVIOUS
<1>3. /\ text' = t /\ out' = <<>> /\ coded' = 0 /\ last' = 1 /\ cpc' = "parse"
      /\ found' = NoMatch
  BY DEF CompressStart
<1>4. Reaches(out', text', [at |-> Len(out'), pos |-> coded', last |-> last'])
  BY <1>1, <1>2, <1>3
<1>5. QED BY <1>3, <1>4 DEF EInv, MatchTrue, NoMatch

LEMMA EncoderStays == ASSUME EInv, UNCHANGED cvars PROVE EInv'
BY DEF cvars, EInv, MatchTrue

LEMMA LiteralEncodes == ASSUME CInv, EInv, Literal PROVE EInv'
<1>1. /\ text \in Seq(Byte) /\ bp + 1 \in Nat /\ bp + 1 <= Len(text) /\ text' = text
      /\ find_match(bp + 1)
  BY DEF CInv, CType, Literal, look
<1>2. MatchTrue(found, bp)'  BY <1>1, FindTrue
<1>3. QED BY <1>2 DEF EInv, Literal

LEMMA CandidateEncodes == ASSUME CInv, EInv, Candidate PROVE EInv'
<1>1. /\ cand' = found /\ ahead' = 0 /\ cpc' = "lazy" /\ cpc = "parse"
      /\ UNCHANGED <<text, bp, found, lit, out, last, coded>>
  BY DEF Candidate
<1>2. bp - 0 = bp  BY DEF CInv, CType
<1>3. MatchTrue(found, bp)'  BY <1>1 DEF EInv, MatchTrue
<1>4. MatchTrue(cand, bp - ahead)'  BY <1>1, <1>2 DEF EInv, MatchTrue
<1>5. QED BY <1>1, <1>3, <1>4 DEF EInv

LEMMA LazyStepEncodes == ASSUME CInv, EInv, LazyStep PROVE EInv'
<1>1. /\ text \in Seq(Byte) /\ bp \in Nat /\ bp + 1 \in Nat /\ bp + 1 <= Len(text) /\ text' = text
      /\ find_match(bp + 1) /\ ahead \in Nat
  BY DEF CInv, CType, MatchAt, LazyStep, look
<1>2. bp' = bp + 1 /\ MatchTrue(found, bp)'  BY <1>1, FindTrue
<1>3. cpc = "lazy" /\ UNCHANGED <<text, cand, out, last, coded>>  BY DEF LazyStep
<1>4. CASE ahead' = 0 /\ cpc' = "parse"
  BY <1>2, <1>3, <1>4 DEF EInv
<1>5. CASE ahead' = ahead + 1 /\ cpc' = cpc
  <2>1. bp' - ahead' = bp - ahead  BY <1>1, <1>2, <1>5
  <2>2. MatchTrue(cand, bp - ahead)'  BY <1>3, <2>1 DEF EInv, MatchTrue
  <2>3. QED BY <1>2, <1>3, <1>5, <2>2 DEF EInv
<1>6. QED BY <1>4, <1>5 DEF LazyStep

LEMMA CodeMatchEncodes == ASSUME CInv, EInv, CodeMatch PROVE EInv'
<1> DEFINE p == bp + cand.len - ahead
           run == out \o code_run(coded, lit)
<1>1. /\ text \in Seq(Byte) /\ text' = text /\ cpc = "lazy" /\ out \in Seq(Item)
      /\ cand.len \in Nat /\ cand.len >= 3 /\ cand.off \in Nat /\ cand.off >= 1
      /\ bp - ahead + cand.len <= Len(text)
  BY DEF CInv, CType, MatchAt, CodeMatch
<1>2. /\ bp \in Nat /\ ahead \in Nat /\ lit \in Nat /\ coded \in Nat /\ coded + lit + ahead = bp
      /\ bp <= Len(text)
  BY <1>1 DEF CInv, CType, Accounted
<1>3. bp - ahead = coded + lit /\ bp - ahead - lit = coded /\ coded + lit <= Len(text)
      /\ coded + lit \in Nat
  BY <1>2
<1>4. last \in Nat \ {0} /\ Repeats(text, coded + lit, cand.off, cand.len)
      /\ Reaches(out, text, [at |-> Len(out), pos |-> coded, last |-> last])
  BY <1>1, <1>3 DEF EInv, MatchTrue
<1>5. Reaches(run, text, [at |-> Len(run), pos |-> coded + lit, last |-> last])
  BY <1>1, <1>2, <1>3, <1>4, RunReaches
<1>6. run \in Seq(Item)
  <2>1. code_run(coded, lit) \in Seq(Item)  BY <1>1, <1>2, <1>3, CodeRunTyped
  <2>2. QED BY <1>1, <2>1
<1> HIDE DEF run
<1> DEFINE all == run \o code_match(cand)
<1>7. Reaches(all, text, [at |-> Len(all), pos |-> coded + lit + cand.len, last |-> cand.off])
  BY <1>1, <1>3, <1>4, <1>5, <1>6, MatchReaches
<1>8. out' = all
  <2>1. out' = out \o code_run(bp - ahead - lit, lit) \o code_match(cand)  BY DEF CodeMatch
  <2>2. QED BY <1>3, <2>1 DEF run
<1> HIDE DEF all
<1>9. coded' = coded + lit + cand.len /\ last' = cand.off /\ cpc' = "parse"  BY DEF CodeMatch
<1>10. MatchTrue(found, bp)'
  <2>1. p \in Nat /\ p <= Len(text) /\ find_match(p)  BY <1>1, <1>2 DEF CodeMatch
  <2>2. QED BY <1>1, <2>1, FindTrue
<1>11. QED BY <1>1, <1>7, <1>8, <1>9, <1>10 DEF EInv

LEMMA FinishEncodes == ASSUME CInv, EInv, Finish PROVE EInv'
<1> DEFINE run == out \o code_run(coded, lit)
<1>1. /\ text \in Seq(Byte) /\ out \in Seq(Item) /\ bp \in Nat /\ lit \in Nat /\ coded \in Nat
      /\ coded + lit = bp /\ bp = Len(text) /\ cpc = "parse" /\ bp - lit = coded
  BY DEF CInv, CType, Accounted, Finish, look
<1>2. last \in Nat \ {0} /\ Reaches(out, text, [at |-> Len(out), pos |-> coded, last |-> last])
  BY <1>1 DEF EInv
<1>3. Reaches(run, text, [at |-> Len(run), pos |-> coded + lit, last |-> last])
  BY <1>1, <1>2, RunReaches
<1>4. run \in Seq(Item)
  <2>1. code_run(coded, lit) \in Seq(Item)  BY <1>1, CodeRunTyped
  <2>2. QED BY <1>1, <2>1
<1> DEFINE a == bbPutBits(<<0>> \o Prefix(EofPrefix))
           b == bbPutByte(ByteBase - 1)
<1>5. out' = out \o code_run(bp - lit, lit) \o a \o b  BY DEF Finish
<1>6. out' = (run \o a) \o b  BY <1>1, <1>5
<1>7. a \in Seq(Item)  BY ByteFacts, PrefixItemsTyped DEF PrefixItems
<1>8. b \in Seq(Item)
  <2>1. ByteBase - 1 \in Byte  BY ByteFacts DEF Byte
  <2>2. QED BY <2>1, PutTyped
<1>9. EndItems = a \o b  BY DEF EndItems, PrefixItems
<1> HIDE DEF run, a, b
<1>10. out' = run \o EndItems  BY <1>4, <1>6, <1>7, <1>8, <1>9, ConcatAssociative
<1>11. Encoded(run \o EndItems, text)  BY <1>1, <1>3, <1>4, EndReached
<1>12. text' = text /\ cpc' = "done" /\ last' = last /\ found' = found /\ bp' = bp
  BY DEF Finish
<1>13. QED BY <1>10, <1>11, <1>12 DEF EInv, MatchTrue

LEMMA CompressEncodes == ASSUME CInv, EInv, Compress PROVE EInv'
BY LiteralEncodes, CandidateEncodes, LazyStepEncodes, CodeMatchEncodes, FinishEncodes DEF Compress

-----------------------------------------------------------------------------
(* The decompressor reads items: bits, bytes and prefix codes.             *)


(* The reader d has read i of the items that the block s is made of.       *)
Fed(items, s, d, i) ==
  \E bs, k, l : Layout(items, s, bs, k, l) /\ Stands(d, bs, k, l, i)

LEMMA FedStart ==
  ASSUME NEW items \in Seq(Item)
  PROVE  Fed(items, Block(items), [bb |-> 0, ilen |-> 0], 0)
<1>1. PICK bs, k, l : Layout(items, Block(items), bs, k, l)  BY LayoutExists
<1>2. Stands([bb |-> 0, ilen |-> 0], bs, k, l, 0)  BY <1>1, StandsAtStart
<1>3. QED BY <1>1, <1>2 DEF Fed

LEMMA FedBit ==
  ASSUME NEW items \in Seq(Item), NEW d, NEW i \in Nat, Fed(items, src, d, i),
         i + 1 \in 1 .. Len(items), NEW b, items[i + 1] = <<"bit", b>>, Clear(d), NEW g \in Byte
  PROVE  /\ Fed(items, src, getbit(d, g), i + 1) /\ Bit(getbit(d, g)) = b
         /\ Clear(getbit(d, g))
<1>1. PICK bs, k, l : Layout(items, src, bs, k, l) /\ Stands(d, bs, k, l, i)  BY DEF Fed
<1>2. items[i + 1][1] = "bit" /\ items[i + 1][2] = b  OBVIOUS
<1>3. Stands(getbit(d, g), bs, k, l, i + 1) /\ Bit(getbit(d, g)) = b  BY <1>1, <1>2, ReadsBit
<1>4. d.ilen \in Nat  BY <1>1 DEF Stands, Buffer
<1>5. Clear(getbit(d, g))  BY <1>4, ClearMore
<1>6. QED BY <1>1, <1>3, <1>5 DEF Fed

LEMMA FedByte ==
  ASSUME NEW items \in Seq(Item), NEW d, NEW i \in Nat, Fed(items, src, d, i),
         i + 1 \in 1 .. Len(items), NEW b, items[i + 1] = <<"byte", b>>, Clear(d)
  PROVE  d.ilen < Len(src) /\ Input(d.ilen) = b /\ Fed(items, src, NextByte(d), i + 1)
<1>1. PICK bs, k, l : Layout(items, src, bs, k, l) /\ Stands(d, bs, k, l, i)  BY DEF Fed
<1>2. items[i + 1][1] = "byte" /\ items[i + 1][2] = b  OBVIOUS
<1>3. d.ilen < Len(src) /\ src[d.ilen + 1] = b /\ Stands(NextByte(d), bs, k, l, i + 1)
  BY <1>1, <1>2, ReadsByte
<1>4. Input(d.ilen) = src[d.ilen + 1]  BY <1>1 DEF Clear, Stands, Buffer
<1>5. QED BY <1>1, <1>3, <1>4 DEF Fed

LEMMA FedMore ==
  ASSUME NEW items \in Seq(Item), NEW s, NEW d, NEW i \in Nat, Fed(items, s, d, i),
         i < Len(items), items[Len(items)] = <<"byte", ByteBase - 1>>
  PROVE  d.ilen < Len(s)
<1>1. PICK bs, k, l : Layout(items, s, bs, k, l) /\ Stands(d, bs, k, l, i)  BY DEF Fed
<1>2. Len(items) \in 1 .. Len(items) /\ items[Len(items)][1] = "byte"  OBVIOUS
<1>3. QED BY <1>1, <1>2, StillInput

LEMMA FedAll ==
  ASSUME NEW items \in Seq(Item), NEW s, NEW d, Fed(items, s, d, Len(items))
  PROVE  d.ilen = Len(s)
BY AllRead DEF Fed

LEMMA FedTyped ==
  ASSUME NEW items, NEW s, NEW d, NEW i, Fed(items, s, d, i)
  PROVE  d \in Buffer /\ d.ilen \in Nat
BY DEF Fed, Stands, Buffer

-----------------------------------------------------------------------------
(* The prefix code of i in the items, after place at. *)
CodeAt(items, at, i) ==
  LET k == Log2(i + 2)
  IN  /\ at + 2 * k <= Len(items)
      /\ \A j \in 0 .. k - 1 :
           /\ items[at + 2 * j + 1] = <<"bit", BitOf(i + 2, k - 1 - j)>>
           /\ items[at + 2 * j + 2] = <<"bit", IF j = k - 1 THEN 1 ELSE 0>>

LEMMA LogOfCode ==
  ASSUME NEW i \in Nat
  PROVE  Log2(i + 2) \in Nat \ {0} /\ (i + 2) \div 2 ^ Log2(i + 2) = 1
<1>1. i + 2 \in Nat \ {0} /\ i + 2 \in Nat  OBVIOUS
<1>2. Log2(i + 2) \in Nat /\ 2 ^ Log2(i + 2) <= i + 2 /\ i + 2 < 2 ^ (Log2(i + 2) + 1)
  BY <1>1, Log2Exists
<1>3. PICK k \in Nat : k = Log2(i + 2)  BY <1>2
<1>4. PICK p \in Nat \ {0} : p = 2 ^ k /\ 2 ^ (k + 1) = 2 * p  BY PowerOfTwo
<1>5. p <= i + 2 /\ i + 2 < 2 * p  BY <1>2, <1>3, <1>4
<1>6. (i + 2) \div p = 1
  <2>1. i + 2 - p \in 0 .. p - 1 /\ 1 * p + (i + 2 - p) = i + 2  BY <1>5
  <2>2. (1 * p + (i + 2 - p)) \div p = 1  BY <2>1, DivModUnique
  <2>3. QED BY <2>1, <2>2
<1>7. k # 0
  <2>1. SUFFICES ASSUME k = 0 PROVE FALSE  OBVIOUS
  <2>2. p = 1  BY <1>4, <2>1, PowerOfZero
  <2>3. QED BY <1>5, <2>2
<1>8. QED BY <1>3, <1>4, <1>6, <1>7

LEMMA BitsPut ==
  ASSUME NEW items \in Seq(Item), NEW at \in Nat, NEW h \in Seq(Bits), NEW i \in Nat,
         Put(items, at, bbPutBits(h \o Prefix(i)))
  PROVE  /\ \A e \in 1 .. Len(h) : items[at + e] = <<"bit", h[e]>>
         /\ at + Len(h) \in Nat /\ CodeAt(items, at + Len(h), i)
         /\ Len(bbPutBits(h \o Prefix(i))) = Len(h) + 2 * Log2(i + 2)
<1>1. PICK k \in Nat \ {0} : k = Log2(i + 2)  BY LogOfCode
<1>2. /\ Prefix(i) \in Seq(Bits) /\ Len(Prefix(i)) = 2 * k
      /\ \A j \in 1 .. 2 * k : Prefix(i)[j] = IF j % 2 = 1 THEN BitOf(i + 2, k - (j + 1) \div 2)
                                               ELSE IF j = 2 * k THEN 1 ELSE 0
  <2>1. Prefix(i) \in Seq(Bits)  BY PrefixTyped
  <2>2. Prefix(i) = [j \in 1 .. 2 * k |-> IF j % 2 = 1 THEN BitOf(i + 2, k - (j + 1) \div 2)
                                          ELSE IF j = 2 * k THEN 1 ELSE 0]
    BY <1>1 DEF Prefix
  <2>3. DOMAIN Prefix(i) = 1 .. 2 * k /\ 2 * k \in Nat  BY <2>2
  <2>4. Len(Prefix(i)) = 2 * k  BY <2>1, <2>3
  <2>5. QED BY <2>1, <2>2, <2>4
<1>3. PICK p \in Seq(Bits) : p = Prefix(i)  BY <1>2
<1>4. PICK n \in Nat : n = 2 * k  OBVIOUS
<1>5. /\ h \o p \in Seq(Bits) /\ Len(h \o p) = Len(h) + Len(p)
      /\ \A e \in 1 .. Len(h) + Len(p) : (h \o p)[e] = IF e <= Len(h) THEN h[e] ELSE p[e - Len(h)]
  BY ConcatProperties
<1>6. Len(p) = n /\ Len(h) \in Nat  BY <1>2, <1>3, <1>4
<1> DEFINE q == bbPutBits(h \o p)
<1>7. Len(q) = Len(h) + n /\ \A e \in 1 .. Len(h) + n : q[e] = <<"bit", (h \o p)[e]>>
  <2>1. q = [e \in 1 .. Len(h) + n |-> <<"bit", (h \o p)[e]>>]  BY <1>5, <1>6 DEF bbPutBits
  <2>2. PICK L \in Nat : L = Len(h) + n  BY <1>6
  <2>3. DOMAIN q = 1 .. L /\ q \in Seq(Item)
    <3>1. q \in Seq(Item)  BY <1>5, PutTyped
    <3>2. QED BY <2>1, <2>2, <3>1
  <2> HIDE DEF q
  <2>4. Len(q) = L  BY <2>3
  <2>5. QED BY <2>1, <2>2, <2>4
<1>8. at + Len(q) <= Len(items) /\ \A e \in 1 .. Len(q) : items[at + e] = q[e]  BY <1>3 DEF Put
<1> HIDE DEF q
<1>9. ASSUME NEW e \in 1 .. Len(h) PROVE items[at + e] = <<"bit", h[e]>>
  <2>1. e \in 1 .. Len(h) + n /\ e <= Len(h) /\ e \in 1 .. Len(h) + Len(p)  BY <1>6
  <2>2. QED BY <1>5, <1>7, <1>8, <2>1
<1>10. ASSUME NEW e \in 1 .. n PROVE items[at + Len(h) + e] = <<"bit", p[e]>>
  <2>1. PICK f \in Nat : f = Len(h) + e  BY <1>6
  <2>2. f \in 1 .. Len(h) + n /\ ~(f <= Len(h)) /\ f - Len(h) = e /\ at + f = at + Len(h) + e
    BY <1>6, <2>1
  <2>3. (h \o p)[f] = p[e]  BY <1>5, <1>6, <2>2
  <2>4. items[at + f] = <<"bit", p[e]>>  BY <1>7, <1>8, <2>2, <2>3
  <2>5. QED BY <2>2, <2>4
<1>11. PICK a \in Nat : a = at + Len(h)  BY <1>6
<1>12. a + 2 * k <= Len(items)  BY <1>4, <1>6, <1>7, <1>8, <1>11
<1>13. ASSUME NEW j \in 0 .. k - 1
       PROVE  /\ items[a + 2 * j + 1] = <<"bit", BitOf(i + 2, k - 1 - j)>>
              /\ items[a + 2 * j + 2] = <<"bit", IF j = k - 1 THEN 1 ELSE 0>>
  <2>0. j \in Nat /\ j <= k - 1  OBVIOUS
  <2>1. PICK e \in Nat : e = 2 * j + 1  BY <2>0
  <2>2. e \in 1 .. n /\ e % 2 = 1 /\ (e + 1) \div 2 = j + 1 /\ a + e = a + 2 * j + 1
    BY <1>4, <2>0, <2>1
  <2>3. e + 1 \in 1 .. n /\ (e + 1) % 2 # 1 /\ a + (e + 1) = a + 2 * j + 2
        /\ (e + 1 = n <=> j = k - 1)
    BY <1>4, <2>0, <2>1
  <2>4. p[e] = BitOf(i + 2, k - (j + 1))  BY <1>2, <1>3, <1>4, <2>2
  <2>5. k - (j + 1) = k - 1 - j  BY <2>0
  <2>6. p[e + 1] = IF j = k - 1 THEN 1 ELSE 0  BY <1>2, <1>3, <1>4, <2>3
  <2>7. items[a + e] = <<"bit", p[e]>> /\ items[a + (e + 1)] = <<"bit", p[e + 1]>>
    BY <1>10, <1>11, <2>2, <2>3
  <2>8. QED BY <2>2, <2>3, <2>4, <2>5, <2>6, <2>7
<1>14. CodeAt(items, a, i)  BY <1>1, <1>12, <1>13 DEF CodeAt
<1>15. Len(q) = Len(h) + 2 * k  BY <1>4, <1>7
<1>16. QED BY <1>1, <1>3, <1>9, <1>11, <1>14, <1>15 DEF q

LEMMA HalveOn ==
  ASSUME NEW v \in Nat, NEW p \in Nat \ {0}
  PROVE  /\ v \div p \in Nat /\ v \div p <= v
         /\ v \div p = 2 * (v \div (2 * p)) + ((v \div p) % 2)
<1>1. v \div p \in Nat /\ v = (v \div p) * p + (v % p) /\ v % p \in 0 .. p - 1  BY DivMod
<1>2. PICK w \in Nat, z \in Nat : w = v \div p /\ z = v % p  BY <1>1
<1>3. v = w * p + z /\ z \in 0 .. p - 1  BY <1>1, <1>2
<1>4. w <= v
  <2>1. 1 * w <= p * w /\ p * w \in Nat  BY MulMono
  <2>2. p * w = w * p /\ 1 * w = w  OBVIOUS
  <2>3. QED BY <1>3, <2>1, <2>2
<1>5. 2 \in Nat \ {0}  OBVIOUS
<1>6. w \div 2 \in Nat /\ w % 2 \in 0 .. 1 /\ w = (w \div 2) * 2 + (w % 2)  BY <1>5, DivMod
<1>7. PICK u \in Nat, b \in {0, 1} : u = w \div 2 /\ b = w % 2 /\ w = u * 2 + b  BY <1>6
<1>8. v \div (2 * p) = u
  <2>1. (u * 2 + b) * p = u * (2 * p) + b * p  OBVIOUS
  <2>2. b * p + z \in 0 .. 2 * p - 1 /\ b * p + z \in Nat /\ 2 * p \in Nat \ {0}  BY <1>3
  <2>3. PICK D \in Nat \ {0}, f \in Nat : D = 2 * p /\ f = b * p + z /\ f \in 0 .. D - 1
    BY <2>2
  <2>4. v = u * D + f  BY <1>3, <1>7, <2>1, <2>3
  <2>5. (u * D + f) \div D = u  BY <2>3, DivModUnique
  <2>6. QED BY <2>3, <2>4, <2>5
<1>9. w = 2 * u + b /\ b = w % 2  BY <1>7
<1>10. QED BY <1>2, <1>4, <1>8, <1>9

(* A turn of one of the loops reads two bits of a code more: x is the      *)
(* number so far, d1 and d2 the reader after each of the bits.             *)
Turned(items, at, i, j, k, x, d1, d2) ==
  /\ x = (i + 2) \div 2 ^ (k - (j + 1)) /\ x \in Nat /\ x <= i + 2
  /\ d1.ilen < Len(src) /\ d1.ilen \in Nat /\ Len(src) \in Nat
  /\ Fed(items, src, d2, at + 2 * (j + 1))
  /\ Bit(d2) = IF j + 1 = k THEN 1 ELSE 0
  /\ j + 1 = k => x = i + 2

LEMMA TurnReads ==
  ASSUME NEW items \in Seq(Item), NEW at \in Nat, NEW i \in Nat, CodeAt(items, at, i),
         items[Len(items)] = <<"byte", ByteBase - 1>>,
         NEW k, k = Log2(i + 2), NEW j \in Nat, j < k,
         NEW y, y = at + 2 * j, Fed(items, src, in, y), Clear(in), NEW g \in Byte,
         NEW m, m = (i + 2) \div 2 ^ (k - j),
         NEW d1, d1 = getbit(in, g), NEW d2, d2 = getbit(d1, g), NEW x, x = 2 * m + Bit(d1)
  PROVE  Turned(items, at, i, j, k, x, d1, d2)
<1>1. PICK h \in Nat : h = k  BY LogOfCode
<1>2. /\ at + 2 * h <= Len(items) /\ j \in 0 .. h - 1
      /\ items[at + 2 * j + 1] = <<"bit", BitOf(i + 2, h - 1 - j)>>
      /\ items[at + 2 * j + 2] = <<"bit", IF j = h - 1 THEN 1 ELSE 0>>
  <2>1. j \in 0 .. h - 1  BY <1>1
  <2>2. QED BY <1>1, <2>1 DEF CodeAt
<1>4. /\ y + 1 = at + 2 * j + 1 /\ y + 1 + 1 = at + 2 * j + 2 /\ y + 1 \in Nat /\ y \in Nat
      /\ at + 2 * (j + 1) = y + 1 + 1
      /\ y + 1 \in 1 .. Len(items) /\ y + 1 + 1 \in 1 .. Len(items) /\ y + 1 < Len(items)
  <2>1. PICK L \in Nat : L = Len(items)  OBVIOUS
  <2>2. PICK z \in Nat : z = 2 * j /\ z + 2 <= 2 * h  BY <1>2
  <2>3. y = at + z /\ at + 2 * h <= L  BY <1>2, <2>1, <2>2
  <2>4. 2 * (j + 1) = z + 2  BY <2>2
  <2>5. y + 1 + 1 <= L /\ y \in Nat  BY <2>2, <2>3
  <2>6. QED BY <2>1, <2>2, <2>3, <2>4, <2>5
<1>5. Fed(items, src, d1, y + 1) /\ Bit(d1) = BitOf(i + 2, h - 1 - j) /\ Clear(d1)
  BY <1>2, <1>4, FedBit
<1>6. Fed(items, src, d2, y + 1 + 1) /\ Bit(d2) = IF j = h - 1 THEN 1 ELSE 0
  BY <1>2, <1>4, <1>5, FedBit
<1>7. d1.ilen < Len(src)  BY <1>4, <1>5, FedMore
<1>8. PICK e \in Nat : e = h - 1 - j /\ e = h - (j + 1) /\ e + 1 = h - j
  <2>1. h - 1 - j \in Nat /\ h - 1 - j = h - (j + 1) /\ (h - 1 - j) + 1 = h - j  BY <1>2
  <2>2. QED BY <2>1
<1>9. PICK p \in Nat \ {0} : p = 2 ^ e /\ 2 ^ (e + 1) = 2 * p  BY PowerOfTwo
<1>10. PICK v \in Nat : v = i + 2  OBVIOUS
<1>11. m = v \div (2 * p) /\ Bit(d1) = (v \div p) % 2
  BY <1>1, <1>5, <1>8, <1>9, <1>10 DEF BitOf
<1>12. x = v \div p /\ v \div p \in Nat /\ v \div p <= v  BY <1>11, HalveOn
<1>13. h = j + 1 => x = i + 2
  <2>1. SUFFICES ASSUME h = j + 1 PROVE x = i + 2  OBVIOUS
  <2>2. e = 0  BY <1>8, <2>1
  <2>3. p = 1  BY <1>9, <2>2, PowerOfZero
  <2>4. v \div 1 = v  OBVIOUS
  <2>5. QED BY <1>10, <1>12, <2>3, <2>4
<1>14. j = h - 1 <=> j + 1 = h  BY <1>2
<1>15. x = (i + 2) \div 2 ^ (h - (j + 1))  BY <1>8, <1>9, <1>10, <1>12
<1>16. x \in Nat /\ x <= i + 2  BY <1>10, <1>12
<1>17. d1.ilen \in Nat  BY <1>5, FedTyped
<1>18. Len(src) \in Nat
  <2>1. src \in Seq(Byte)  BY <1>5 DEF Fed, Layout
  <2>2. QED BY <2>1
<1>19. QED BY <1>1, <1>4, <1>6, <1>7, <1>13, <1>14, <1>15, <1>16, <1>17, <1>18 DEF Turned

-----------------------------------------------------------------------------
(* It reads offsets and lengths, and copies.                               *)


LEMMA PrefixPut ==
  ASSUME NEW items \in Seq(Item), NEW at \in Nat, NEW i \in Nat, Put(items, at, PrefixItems(i))
  PROVE  /\ items[at + 1] = <<"bit", 0>> /\ CodeAt(items, at + 1, i)
         /\ Len(PrefixItems(i)) = 1 + 2 * Log2(i + 2)
         /\ at + 1 + 2 * Log2(i + 2) <= Len(items)
<1>1. <<0>> \in Seq(Bits)  BY DEF Bits
<1>2. PICK h \in Seq(Bits) : h = <<0>> /\ Len(h) = 1 /\ h[1] = 0  BY <1>1
<1>3. PrefixItems(i) = bbPutBits(h \o Prefix(i))  BY <1>2 DEF PrefixItems
<1>4. /\ \A e \in 1 .. Len(h) : items[at + e] = <<"bit", h[e]>>
      /\ CodeAt(items, at + Len(h), i)
      /\ Len(bbPutBits(h \o Prefix(i))) = Len(h) + 2 * Log2(i + 2)
  BY <1>3, BitsPut
<1>5. 1 \in 1 .. Len(h)  BY <1>2
<1>6. items[at + 1] = <<"bit", 0>>  BY <1>2, <1>4, <1>5
<1>7. at + Len(PrefixItems(i)) <= Len(items)  BY DEF Put
<1>8. PICK k \in Nat : k = Log2(i + 2)  BY LogOfCode
<1>9. at + 1 + 2 * k <= Len(items)  BY <1>2, <1>3, <1>4, <1>7, <1>8
<1>10. QED BY <1>2, <1>3, <1>4, <1>6, <1>8, <1>9

(* The code of an offset: 0 for the last one. *)
OffsetCode(off, prev) == IF off = prev THEN 0 ELSE 1 + (off - 1) \div ByteBase

LEMMA BytePut ==
  ASSUME NEW items \in Seq(Item), NEW at \in Nat, NEW a \in Seq(Item), NEW c \in Byte,
         Put(items, at, a \o bbPutByte(c))
  PROVE  /\ Put(items, at, a) /\ at + Len(a) + 1 \in 1 .. Len(items)
         /\ items[at + Len(a) + 1] = <<"byte", c>> /\ Len(a \o bbPutByte(c)) = Len(a) + 1
<1>1. bbPutByte(c) \in Seq(Item) /\ Len(bbPutByte(c)) = 1 /\ bbPutByte(c)[1] = <<"byte", c>>
  <2>1. bbPutByte(c) \in Seq(Item)  BY PutTyped
  <2>2. QED BY <2>1 DEF bbPutByte
<1>2. PICK b \in Seq(Item) : b = bbPutByte(c)  BY <1>1
<1>3. Len(b) = 1 /\ b[1] = <<"byte", c>>  BY <1>1, <1>2
<1>4. Put(items, at, a) /\ Put(items, at + Len(a), b)  BY <1>2, PutParts
<1>5. at + Len(a) + Len(b) <= Len(items) /\ \A e \in 1 .. Len(b) : items[at + Len(a) + e] = b[e]
  BY <1>4 DEF Put
<1>6. Len(a) \in Nat /\ Len(a \o b) = Len(a) + Len(b)  OBVIOUS
<1>7. 1 \in 1 .. Len(b)  BY <1>3
<1>8. items[at + Len(a) + 1] = <<"byte", c>>  BY <1>3, <1>5, <1>7
<1>9. at + Len(a) + 1 \in 1 .. Len(items)  BY <1>3, <1>5, <1>6
<1>10. QED BY <1>2, <1>3, <1>4, <1>6, <1>8, <1>9

LEMMA OffsetPut ==
  ASSUME NEW items \in Seq(Item), NEW at \in Nat, NEW off \in Nat \ {0}, NEW prev,
         Put(items, at, OffsetItems(off, prev)),
         NEW i, i = OffsetCode(off, prev), NEW k, k = Log2(i + 2)
  PROVE  /\ i \in Nat /\ k \in Nat /\ items[at + 1] = <<"bit", 0>> /\ CodeAt(items, at + 1, i)
         /\ off = prev => i = 0 /\ Len(OffsetItems(off, prev)) = 1 + 2 * k
         /\ off # prev =>
              /\ i # 0 /\ Len(OffsetItems(off, prev)) = 2 + 2 * k
              /\ at + 1 + 2 * k + 1 \in 1 .. Len(items)
              /\ items[at + 1 + 2 * k + 1] = <<"byte", (off - 1) % ByteBase>>
<1>1. CASE off = prev
  <2>1. Put(items, at, PrefixItems(0)) /\ OffsetItems(off, prev) = PrefixItems(0)
        /\ i = 0
    BY <1>1 DEF OffsetItems, OffsetCode
  <2>2. Log2(0 + 2) \in Nat  BY LogOfCode
  <2>3. /\ items[at + 1] = <<"bit", 0>> /\ CodeAt(items, at + 1, 0)
        /\ Len(PrefixItems(0)) = 1 + 2 * Log2(0 + 2)
    BY <2>1, PrefixPut
  <2>4. QED BY <1>1, <2>1, <2>2, <2>3
<1>2. CASE off # prev
  <2>1. PICK u \in Nat \ {0}, c \in Byte : /\ u = 1 + (off - 1) \div ByteBase
                                           /\ c = (off - 1) % ByteBase
    <3>1. ByteBase \in Nat \ {0} /\ off - 1 \in Nat  BY ByteFacts
    <3>2. PICK q \in Nat : q = (off - 1) \div ByteBase  BY <3>1, DivMod
    <3>3. (off - 1) % ByteBase \in Byte  BY <3>1, ByteOfNat
    <3>4. 1 + q \in Nat \ {0}  OBVIOUS
    <3>5. QED BY <3>2, <3>3, <3>4
  <2>2. OffsetItems(off, prev) = PrefixItems(u) \o bbPutByte(c) /\ i = u
    BY <1>2, <2>1 DEF OffsetItems, OffsetCode
  <2>3. PICK a \in Seq(Item) : a = PrefixItems(u)  BY PrefixItemsTyped
  <2>4. k \in Nat  BY <2>2, LogOfCode
  <2>5. /\ Put(items, at, a) /\ at + Len(a) + 1 \in 1 .. Len(items)
        /\ items[at + Len(a) + 1] = <<"byte", c>> /\ Len(a \o bbPutByte(c)) = Len(a) + 1
    BY <2>2, <2>3, BytePut
  <2>6. /\ items[at + 1] = <<"bit", 0>> /\ CodeAt(items, at + 1, i) /\ Len(a) = 1 + 2 * k
    BY <2>2, <2>3, <2>4, <2>5, PrefixPut
  <2>7. at + Len(a) + 1 = at + 1 + 2 * k + 1 /\ Len(a) + 1 = 2 + 2 * k
    <3>1. PICK h \in Nat : h = k  BY <2>4
    <3>2. Len(a) = 1 + 2 * h  BY <2>6, <3>1
    <3>3. at + Len(a) + 1 = at + 1 + 2 * h + 1 /\ Len(a) + 1 = 2 + 2 * h  BY <3>2
    <3>4. QED BY <3>1, <3>3
  <2>8. QED BY <1>2, <2>1, <2>2, <2>3, <2>4, <2>5, <2>6, <2>7
<1>3. QED BY <1>1, <1>2

LEMMA EndPut ==
  ASSUME NEW items \in Seq(Item), NEW at \in Nat, Put(items, at, EndItems)
  PROVE  LET k == Log2(EofPrefix + 2)
         IN  /\ k \in Nat /\ items[at + 1] = <<"bit", 0>> /\ CodeAt(items, at + 1, EofPrefix)
             /\ Len(EndItems) = 2 + 2 * k
             /\ at + 1 + 2 * k + 1 \in 1 .. Len(items)
             /\ items[at + 1 + 2 * k + 1] = <<"byte", ByteBase - 1>>
<1>1. PICK i \in Nat, c \in Byte : i = EofPrefix /\ c = ByteBase - 1  BY ByteFacts DEF Byte
<1>2. EndItems = PrefixItems(i) \o bbPutByte(c)  BY <1>1 DEF EndItems
<1>3. PICK a \in Seq(Item) : a = PrefixItems(i)  BY PrefixItemsTyped
<1>4. PICK k \in Nat : k = Log2(i + 2)  BY LogOfCode
<1>5. /\ Put(items, at, a) /\ at + Len(a) + 1 \in 1 .. Len(items)
      /\ items[at + Len(a) + 1] = <<"byte", c>> /\ Len(a \o bbPutByte(c)) = Len(a) + 1
  BY <1>2, <1>3, BytePut
<1>6. /\ items[at + 1] = <<"bit", 0>> /\ CodeAt(items, at + 1, i) /\ Len(a) = 1 + 2 * k
  BY <1>3, <1>4, <1>5, PrefixPut
<1>7. at + Len(a) + 1 = at + 1 + 2 * k + 1 /\ Len(a) + 1 = 2 + 2 * k  BY <1>6
<1>8. QED BY <1>1, <1>2, <1>3, <1>4, <1>5, <1>6, <1>7

LEMMA LengthPut ==
  ASSUME NEW items \in Seq(Item), NEW at \in Nat, NEW v \in Nat \ {0},
         Put(items, at, LengthItems(v)), NEW k, k = Log2(v - 2)
  PROVE  /\ at + Len(LengthItems(v)) <= Len(items) /\ Len(LengthItems(v)) \in Nat
         /\ at + 2 <= Len(items)
         /\ v >= 4 => /\ items[at + 1] = <<"bit", 0>> /\ items[at + 2] = <<"bit", 0>>
                      /\ k \in Nat \ {0} /\ CodeAt(items, at + 2, v - 4)
                      /\ Len(LengthItems(v)) = 2 + 2 * k
         /\ v < 4 => /\ items[at + 1] = <<"bit", IF v > 1 THEN 1 ELSE 0>>
                     /\ items[at + 2] = <<"bit", v % 2>>
                     /\ Len(LengthItems(v)) = 2
<1>0. LengthItems(v) \in Seq(Item)  BY LengthItemsTyped
<1>1. at + Len(LengthItems(v)) <= Len(items) /\ Len(LengthItems(v)) \in Nat  BY <1>0 DEF Put
<1>2. CASE v >= 4
  <2>1. PICK i \in Nat : i = v - 4 /\ i + 2 = v - 2  BY <1>2
  <2>2. <<0, 0>> \in Seq(Bits)  BY DEF Bits
  <2>3. PICK h \in Seq(Bits) : h = <<0, 0>> /\ Len(h) = 2 /\ h[1] = 0 /\ h[2] = 0  BY <2>2
  <2>4. LengthItems(v) = bbPutBits(h \o Prefix(i))  BY <1>2, <2>1, <2>3 DEF LengthItems
  <2>5. /\ \A e \in 1 .. Len(h) : items[at + e] = <<"bit", h[e]>>
        /\ CodeAt(items, at + Len(h), i)
        /\ Len(bbPutBits(h \o Prefix(i))) = Len(h) + 2 * Log2(i + 2)
    BY <2>4, BitsPut
  <2>6. 1 \in 1 .. Len(h) /\ 2 \in 1 .. Len(h)  BY <2>3
  <2>7. items[at + 1] = <<"bit", 0>> /\ items[at + 2] = <<"bit", 0>>  BY <2>3, <2>5, <2>6
  <2>8. k \in Nat \ {0} /\ k = Log2(i + 2)  BY <2>1, LogOfCode
  <2>9. CodeAt(items, at + 2, v - 4) /\ Len(LengthItems(v)) = 2 + 2 * k
    BY <2>1, <2>3, <2>4, <2>5, <2>8
  <2>10. at + 2 <= Len(items)
    <3>1. PICK e \in Nat : e = k  BY <2>8
    <3>2. Len(LengthItems(v)) = 2 + 2 * e /\ Len(items) \in Nat  BY <2>9, <3>1
    <3>3. QED BY <1>1, <3>2
  <2>11. ~(v < 4)  BY <1>2
  <2>12. QED BY <1>1, <2>7, <2>8, <2>9, <2>10, <2>11
<1>3. CASE v < 4
  <2>1. PICK b \in Bits, c \in Bits : b = (IF v > 1 THEN 1 ELSE 0) /\ c = v % 2  BY DEF Bits
  <2>2. LengthItems(v) = bbPutBits(<<b, c>>)  BY <1>3, <2>1 DEF LengthItems
  <2>3. <<b, c>> \in Seq(Bits)  OBVIOUS
  <2>4. PICK h \in Seq(Bits) : h = <<b, c>> /\ Len(h) = 2 /\ h[1] = b /\ h[2] = c  BY <2>3
  <2>5. LengthItems(v) = [j \in 1 .. 2 |-> <<"bit", h[j]>>]  BY <2>2, <2>4 DEF bbPutBits
  <2>6. PICK q \in Seq(Item) : q = LengthItems(v)  BY <1>0
  <2>7. DOMAIN q = 1 .. 2 /\ q[1] = <<"bit", b>> /\ q[2] = <<"bit", c>>  BY <2>4, <2>5, <2>6
  <2>8. Len(q) = 2  BY <2>7
  <2>9. \A e \in 1 .. Len(q) : items[at + e] = q[e]  BY <2>6 DEF Put
  <2>10. 1 \in 1 .. Len(q) /\ 2 \in 1 .. Len(q)  BY <2>8
  <2>11. items[at + 1] = <<"bit", b>> /\ items[at + 2] = <<"bit", c>>  BY <2>7, <2>9, <2>10
  <2>12. at + 2 <= Len(items)  BY <1>1, <2>6, <2>8
  <2>13. QED BY <1>1, <1>3, <2>1, <2>6, <2>8, <2>11, <2>12
<1>4. QED BY <1>2, <1>3

-----------------------------------------------------------------------------
(* A copy of earlier bytes of the text, that overlaps itself or not. *)
LEMMA PeriodHeld ==
  ASSUME NEW t \in Seq(Byte), NEW p \in Nat, NEW off, NEW len, Repeats(t, p, off, len),
         NEW e \in Nat, e < len
  PROVE  t[p + 1 + e] = t[p - off + 1 + (e % off)]
<1>1. off \in Nat \ {0} /\ off <= p /\ len \in Nat /\ \A i \in 1 .. len : t[p + i] = t[p + i - off]
  BY DEF Repeats
<1> DEFINE P(f) == f < len => t[p + 1 + f] = t[p - off + 1 + (f % off)]
           S == {m \in Nat : \A f \in 0 .. m : P(f)}
<1>2. ASSUME NEW f \in Nat, f < off PROVE P(f)
  <2>1. SUFFICES ASSUME f < len PROVE t[p + 1 + f] = t[p - off + 1 + (f % off)]  OBVIOUS
  <2>2. f \in 0 .. off - 1  BY <1>1, <1>2
  <2>3. f % off = f  BY <1>1, <2>2, ModSmall
  <2>4. PICK i \in Nat : i = 1 + f  OBVIOUS
  <2>5. i \in 1 .. len /\ p + i = p + 1 + f /\ p + i - off = p - off + 1 + f
    BY <1>1, <2>1, <2>4
  <2>6. t[p + i] = t[p + i - off]  BY <1>1, <2>5
  <2>7. QED BY <2>3, <2>5, <2>6
<1>3. 0 \in S
  <2>1. P(0)  BY <1>1, <1>2
  <2> HIDE DEF P
  <2>2. QED BY <2>1
<1>4. ASSUME NEW m \in S PROVE m + 1 \in S
  <2>1. SUFFICES P(m + 1)  OBVIOUS
  <2>2. CASE m + 1 < off  BY <1>2, <2>2
  <2>3. CASE ~(m + 1 < off)
    <3>1. SUFFICES ASSUME m + 1 < len PROVE t[p + 1 + (m + 1)] = t[p - off + 1 + ((m + 1) % off)]
      OBVIOUS
    <3>0. m \in Nat  OBVIOUS
    <3>2. PICK f \in Nat : f = m + 1 - off /\ f + off = m + 1 /\ f \in 0 .. m /\ f < len
      BY <1>1, <2>3, <3>1
    <3>3. P(f)  BY <3>2
    <3>4. t[p + 1 + f] = t[p - off + 1 + (f % off)]  BY <3>2, <3>3
    <3> HIDE DEF S
    <3>5. (m + 1) % off = f % off
      <4>1. (f + off) % off = f % off  BY <1>1, ModAround
      <4>2. QED BY <3>2, <4>1
    <3>6. PICK i \in Nat : i = 1 + (m + 1)  BY <3>0
    <3>7. i \in 1 .. len /\ p + i = p + 1 + (m + 1) /\ p + i - off = p + 1 + f
      BY <1>1, <3>1, <3>2, <3>6
    <3>8. t[p + i] = t[p + i - off]  BY <1>1, <3>7
    <3>9. QED BY <3>4, <3>5, <3>7, <3>8
  <2>4. QED BY <2>2, <2>3
<1>5. S = Nat
  <2> HIDE DEF S
  <2>1. S \in SUBSET Nat  BY DEF S
  <2>2. QED BY <1>3, <1>4, <2>1, SetInduction
<1>6. e \in S
  <2> HIDE DEF S
  <2>1. QED BY <1>5
<1>7. P(e)
  <2>1. e \in 0 .. e  OBVIOUS
  <2>2. QED BY <1>6, <2>1
<1>8. QED BY <1>7

LEMMA CopyRestores ==
  ASSUME NEW t \in Seq(Byte), NEW s \in Seq(Byte), NEW off, NEW len,
         Repeats(t, Len(s), off, len), \A i \in 1 .. Len(s) : s[i] = t[i]
  PROVE  /\ Len(Copied(s, off, len)) = Len(s) + len
         /\ \A i \in 1 .. Len(s) + len : Copied(s, off, len)[i] = t[i]
<1>1. PICK p \in Nat : p = Len(s)  OBVIOUS
<1>2. off \in Nat \ {0} /\ off <= p /\ len \in Nat  BY <1>1 DEF Repeats
<1>3. Copied(s, off, len) =
        [i \in 1 .. p + len |-> IF i <= p THEN s[i] ELSE s[p - off + 1 + ((i - p - 1) % off)]]
  BY <1>1 DEF Copied
<1>4. Len(Copied(s, off, len)) = p + len
  <2>1. p + len \in Nat  BY <1>2
  <2>2. QED BY <1>3, <2>1
<1>5. ASSUME NEW i \in 1 .. p + len PROVE Copied(s, off, len)[i] = t[i]
  <2>1. CASE i <= p  BY <1>1, <1>3, <2>1
  <2>2. CASE ~(i <= p)
    <3>1. PICK e \in Nat : e = i - p - 1 /\ p + 1 + e = i /\ e < len  BY <1>2, <2>2
    <3>2. t[i] = t[p - off + 1 + (e % off)]
      <4>1. Repeats(t, p, off, len)  BY <1>1
      <4>2. t[p + 1 + e] = t[p - off + 1 + (e % off)]  BY <3>1, <4>1, PeriodHeld
      <4>3. QED BY <3>1, <4>2
    <3>3. PICK f \in Nat : f = e % off /\ f < off
      <4>1. e % off \in 0 .. off - 1  BY <1>2, DivMod
      <4>2. QED BY <1>2, <4>1
    <3>4. p - off + 1 + f \in 1 .. p  BY <1>2, <3>3
    <3>5. s[p - off + 1 + f] = t[p - off + 1 + f]  BY <1>1, <3>4
    <3>6. Copied(s, off, len)[i] = s[p - off + 1 + f]  BY <1>3, <2>2, <3>1, <3>3
    <3>7. QED BY <3>2, <3>3, <3>5, <3>6
  <2>3. QED BY <2>1, <2>2
<1>6. QED BY <1>1, <1>4, <1>5

-----------------------------------------------------------------------------
(* It reads the tokens of the text.                                        *)


(* The token after mark n is a match. *)
Token(items, t, T, n, off, len) ==
  /\ n \in 1 .. Len(T) /\ n + 1 \in 1 .. Len(T)
  /\ Repeats(t, T[n].pos, off, len)
  /\ Put(items, T[n].at, OffsetItems(off, T[n].last))
  /\ Put(items, T[n].at + Len(OffsetItems(off, T[n].last)), LengthItems(CodedLength(off, len)))
  /\ T[n + 1] = [at |-> T[n].at + Len(OffsetItems(off, T[n].last))
                          + Len(LengthItems(CodedLength(off, len))),
                 pos |-> T[n].pos + len, last |-> off]

(* Code i comes next: of a match, or of the end mark. *)
Ahead(items, t, T, n, i) ==
  \/ \E off, len : Token(items, t, T, n, off, len) /\ i = OffsetCode(off, T[n].last)
  \/ n = Len(T) /\ i = EofPrefix

Tokens(items, t, T, n) ==
  /\ items \in Seq(Item) /\ t \in Seq(Byte) /\ Len(t) <= EofPrefix * ByteBase
  /\ Ended(items, t, T) /\ n \in 1 .. Len(T)

LEMMA MarkTyped ==
  ASSUME NEW items, NEW t, NEW T, NEW n, Tokens(items, t, T, n)
  PROVE  /\ T[n] \in Mark /\ T[n].at \in Nat /\ T[n].pos \in Nat /\ T[n].last \in Nat \ {0}
         /\ Trail(items, t, T) /\ Len(T) \in Nat /\ n \in Nat
<1>1. T \in Seq(Mark) /\ Trail(items, t, T) /\ n \in 1 .. Len(T)  BY DEF Tokens, Ended, Trail
<1>2. T[n] \in Mark  BY <1>1
<1>3. QED BY <1>1, <1>2 DEF Mark

LEMMA NextToken ==
  ASSUME NEW items, NEW t, NEW T, NEW n, Tokens(items, t, T, n), n # Len(T)
  PROVE  /\ n + 1 \in 1 .. Len(T) /\ Tokens(items, t, T, n + 1)
         /\ \/ LiteralStep(items, t, T[n], T[n + 1])
            \/ \E off, len : Token(items, t, T, n, off, len)
<1>1. n \in 1 .. Len(T) - 1 /\ n + 1 \in 1 .. Len(T) /\ n \in 1 .. Len(T)
  BY MarkTyped DEF Tokens
<1>2. LiteralStep(items, t, T[n], T[n + 1]) \/ MatchStep(items, t, T[n], T[n + 1])
  BY <1>1, MarkTyped DEF Trail
<1>3. Tokens(items, t, T, n + 1)  BY <1>1 DEF Tokens
<1>4. CASE MatchStep(items, t, T[n], T[n + 1])
  <2>1. \E off, len : Token(items, t, T, n, off, len)  BY <1>1, <1>4 DEF MatchStep, Token
  <2>2. QED BY <1>1, <1>3, <2>1
<1>5. QED BY <1>1, <1>2, <1>3, <1>4

LEMMA LastItem ==
  ASSUME NEW items, NEW t, NEW T, NEW n, Tokens(items, t, T, n)
  PROVE  items[Len(items)] = <<"byte", ByteBase - 1>> /\ Len(items) \in Nat
<1>1. Tokens(items, t, T, Len(T)) /\ items \in Seq(Item)
  BY MarkTyped DEF Tokens
<1>2. PICK at \in Nat : at = T[Len(T)].at  BY <1>1, MarkTyped
<1>3. Put(items, at, EndItems) /\ Len(items) = at + Len(EndItems)  BY <1>1, <1>2 DEF Tokens, Ended
<1>4. PICK k : k = Log2(EofPrefix + 2)  OBVIOUS
<1>5. k \in Nat /\ Len(EndItems) = 2 + 2 * k
      /\ items[at + 1 + 2 * k + 1] = <<"byte", ByteBase - 1>>
  BY <1>1, <1>3, <1>4, EndPut
<1>6. at + 1 + 2 * k + 1 = Len(items) /\ Len(items) \in Nat  BY <1>1, <1>3, <1>5
<1>7. QED BY <1>5, <1>6

LEMMA TokenFacts ==
  ASSUME NEW items, NEW t, NEW T, NEW n, Tokens(items, t, T, n), NEW off, NEW len,
         Token(items, t, T, n, off, len)
  PROVE  /\ off \in Nat \ {0} /\ off <= T[n].pos /\ len \in Nat /\ len >= 3
         /\ T[n].pos + len <= Len(t) /\ off < EofPrefix * ByteBase
         /\ OffsetCode(off, T[n].last) \in 0 .. EofPrefix
         /\ Tokens(items, t, T, n + 1)
<1>1. /\ off \in Nat \ {0} /\ off <= T[n].pos /\ len \in Nat /\ len >= 3
      /\ T[n].pos + len <= Len(t) /\ T[n].pos \in Nat
  BY MarkTyped DEF Token, Repeats
<1>2. ByteBase \in Nat \ {0} /\ EofPrefix \in Nat /\ EofPrefix >= 1
  BY ByteFacts, FormatAssumption
<1>3. Len(t) \in Nat /\ Len(t) <= EofPrefix * ByteBase /\ EofPrefix * ByteBase \in Nat
  BY <1>2, MulMono DEF Tokens
<1>4. off < EofPrefix * ByteBase  BY <1>1, <1>3
<1>5. OffsetCode(off, T[n].last) \in 0 .. EofPrefix
  <2>1. off - 1 \in Nat /\ EofPrefix - 1 \in Nat /\ off - 1 < ((EofPrefix - 1) + 1) * ByteBase
    BY <1>1, <1>2, <1>3, <1>4
  <2>2. (off - 1) \div ByteBase <= EofPrefix - 1  BY <1>2, <2>1, DivAtMost
  <2>3. (off - 1) \div ByteBase \in Nat  BY <1>2, <2>1, DivMod
  <2>4. QED BY <1>2, <2>2, <2>3 DEF OffsetCode
<1>6. Tokens(items, t, T, n + 1)  BY DEF Token, Tokens
<1>7. QED BY <1>1, <1>4, <1>5, <1>6

LEMMA AheadFacts ==
  ASSUME NEW items, NEW t, NEW T, NEW n, Tokens(items, t, T, n), NEW i,
         Ahead(items, t, T, n, i)
  PROVE  /\ i \in 0 .. EofPrefix /\ i \in Nat /\ T[n].at + 1 \in 1 .. Len(items)
         /\ items[T[n].at + 1] = <<"bit", 0>>
         /\ CodeAt(items, T[n].at + 1, i)
<1>1. PICK at \in Nat : at = T[n].at  BY MarkTyped
<1>2. items \in Seq(Item) /\ EofPrefix \in Nat /\ Len(items) \in Nat  BY ByteFacts DEF Tokens
<1>3. i \in 0 .. EofPrefix /\ items[at + 1] = <<"bit", 0>> /\ CodeAt(items, at + 1, i)
  <2>1. ASSUME NEW off, NEW len, Token(items, t, T, n, off, len), i = OffsetCode(off, T[n].last)
        PROVE  i \in 0 .. EofPrefix /\ items[at + 1] = <<"bit", 0>> /\ CodeAt(items, at + 1, i)
    <3>1. off \in Nat \ {0} /\ i \in 0 .. EofPrefix  BY <2>1, TokenFacts
    <3>2. PICK prev : prev = T[n].last  OBVIOUS
    <3>3. Put(items, at, OffsetItems(off, prev))  BY <1>1, <2>1, <3>2 DEF Token
    <3>4. items[at + 1] = <<"bit", 0>> /\ CodeAt(items, at + 1, OffsetCode(off, prev))
      BY <1>2, <3>1, <3>3, OffsetPut
    <3>5. QED BY <2>1, <3>1, <3>2, <3>4
  <2>2. CASE n = Len(T) /\ i = EofPrefix
    <3>1. Put(items, at, EndItems)  BY <1>1, <2>2 DEF Tokens, Ended
    <3>2. items[at + 1] = <<"bit", 0>> /\ CodeAt(items, at + 1, EofPrefix)
      BY <1>2, <3>1, EndPut
    <3>3. QED BY <1>2, <2>2, <3>2
  <2>3. QED BY <2>1, <2>2 DEF Ahead
<1>4. i \in Nat /\ at + 1 <= Len(items)
  <2>1. i \in Nat  BY <1>2, <1>3
  <2>2. PICK k \in Nat : k = Log2(i + 2)  BY <2>1, LogOfCode
  <2>3. at + 1 + 2 * k <= Len(items)  BY <1>3, <2>2 DEF CodeAt
  <2>4. QED BY <1>2, <2>1, <2>3
<1>5. QED BY <1>1, <1>2, <1>3, <1>4

-----------------------------------------------------------------------------
(* The decompressor is at token n. *)
DstIs(t, p) == Len(dst) = p /\ \A i \in 1 .. p : dst[i] = t[i]

(* The match that is read. *)
InMatch(items, t, T, n, off, len) ==
  Token(items, t, T, n, off, len) /\ m_off = off /\ last_m_off = off

AtFlag(items, T, n) == Fed(items, src, in, T[n].at) /\ last_m_off = T[n].last
AtOffset(items, t, T, n) ==
  /\ last_m_off = T[n].last
  /\ \E i, j \in Nat :
       /\ Ahead(items, t, T, n, i) /\ j < Log2(i + 2)
       /\ Fed(items, src, in, T[n].at + 1 + 2 * j)
       /\ m_off = (i + 2) \div 2 ^ (Log2(i + 2) - j)
AtOffsetByte(items, t, T, n) ==
  /\ last_m_off = T[n].last
  /\ \E i \in Nat :
       /\ Ahead(items, t, T, n, i) /\ m_off = i + 2
       /\ Fed(items, src, in, T[n].at + 1 + 2 * Log2(i + 2))
AtLength(items, t, T, n) ==
  \E off, len :
    /\ InMatch(items, t, T, n, off, len)
    /\ Fed(items, src, in, T[n].at + Len(OffsetItems(off, T[n].last)))
AtLongLength(items, t, T, n) ==
  \E off, len, v : \E j \in Nat :
    /\ InMatch(items, t, T, n, off, len)
    /\ v = CodedLength(off, len) /\ v >= 4 /\ j < Log2(v - 2)
    /\ m_len = (v - 2) \div 2 ^ (Log2(v - 2) - j)
    /\ Fed(items, src, in, T[n].at + Len(OffsetItems(off, T[n].last)) + 2 + 2 * j)
AtCopy(items, t, T, n) ==
  \E off, len :
    /\ InMatch(items, t, T, n, off, len)
    /\ m_len = CodedLength(off, len) /\ Fed(items, src, in, T[n + 1].at)

Decodes(items, t, T, n) ==
  /\ Tokens(items, t, T, n) /\ oend = Len(t) /\ DstIs(t, T[n].pos)
  /\ \/ dpc = "flag" /\ AtFlag(items, T, n)
     \/ dpc = "offset" /\ AtOffset(items, t, T, n)
     \/ dpc = "offset_byte" /\ AtOffsetByte(items, t, T, n)
     \/ dpc = "length" /\ AtLength(items, t, T, n)
     \/ dpc = "long_length" /\ AtLongLength(items, t, T, n)
     \/ dpc = "copy" /\ AtCopy(items, t, T, n)
     \/ dpc = "end" /\ n = Len(T) /\ Fed(items, src, in, Len(items))
     \/ dpc = "OK" /\ n = Len(T)

LEMMA FlagDecodes ==
  ASSUME NEW items, NEW t, NEW T, NEW n, Decodes(items, t, T, n), dst \in Seq(Byte),
         Clear(in), NEW g \in Byte, Flag(g)
  PROVE  \E m : Decodes(items, t, T, m)'
<1> DEFINE d == getbit(in, g)
<1>1. /\ Tokens(items, t, T, n) /\ oend = Len(t) /\ DstIs(t, T[n].pos) /\ AtFlag(items, T, n)
      /\ items \in Seq(Item) /\ t \in Seq(Byte)
  BY DEF Decodes, Flag, Tokens
<1>2. PICK at \in Nat, p \in Nat : at = T[n].at /\ p = T[n].pos  BY <1>1, MarkTyped
<1>3. Fed(items, src, in, at) /\ last_m_off = T[n].last  BY <1>1, <1>2 DEF AtFlag
<1>4. ASSUME NEW i, Ahead(items, t, T, n, i) PROVE Decodes(items, t, T, n)'
  <2>1. /\ i \in Nat /\ at + 1 \in 1 .. Len(items) /\ items[at + 1] = <<"bit", 0>>
    BY <1>1, <1>2, <1>4, AheadFacts
  <2>2. Fed(items, src, d, at + 1) /\ Bit(d) = 0  BY <1>1, <1>3, <2>1, FedBit
  <2>3. in' = d /\ m_off' = 1 /\ dpc' = "offset" /\ UNCHANGED <<src, place, oend, dst, m_len, last_m_off>>
    BY <2>2 DEF Flag
  <2>4. 0 < Log2(i + 2) /\ (i + 2) \div 2 ^ (Log2(i + 2) - 0) = 1
    <3>1. PICK k \in Nat \ {0} : k = Log2(i + 2) /\ (i + 2) \div 2 ^ k = 1  BY <2>1, LogOfCode
    <3>2. k - 0 = k /\ 0 < k  OBVIOUS
    <3>3. QED BY <3>1, <3>2
  <2>5. at + 1 + 2 * 0 = at + 1  OBVIOUS
  <2>6. Fed(items, src, in, T[n].at + 1 + 2 * 0)'  BY <1>2, <2>2, <2>3, <2>5
  <2>7. AtOffset(items, t, T, n)'  BY <1>3, <1>4, <2>1, <2>3, <2>4, <2>6 DEF AtOffset
  <2>8. DstIs(t, T[n].pos)'  BY <1>1, <2>3 DEF DstIs
  <2>9. QED BY <1>1, <2>3, <2>7, <2>8 DEF Decodes
<1>5. ASSUME LiteralStep(items, t, T[n], T[n + 1]), Tokens(items, t, T, n + 1)
      PROVE  Decodes(items, t, T, n + 1)'
  <2>1. /\ p + 1 <= Len(t)
        /\ Put(items, at, <<<<"bit", 1>>, <<"byte", t[p + 1]>>>>)
        /\ T[n + 1].at = at + 2 /\ T[n + 1].pos = p + 1 /\ T[n + 1].last = T[n].last
    BY <1>2, <1>5 DEF LiteralStep
  <2>2. PICK c \in Byte : c = t[p + 1]
    <3>1. p + 1 \in 1 .. Len(t)  BY <2>1
    <3>2. QED BY <1>1, <3>1
  <2>3. /\ at + 1 \in 1 .. Len(items) /\ at + 1 + 1 \in 1 .. Len(items)
        /\ items[at + 1] = <<"bit", 1>> /\ items[at + 1 + 1] = <<"byte", c>>
    <3>1. <<<<"bit", 1>>, <<"byte", c>>>> \in Seq(Item)  BY LiteralTyped
    <3>2. PICK w \in Seq(Item) : /\ w = <<<<"bit", 1>>, <<"byte", c>>>> /\ Len(w) = 2
                                 /\ w[1] = <<"bit", 1>> /\ w[2] = <<"byte", c>>
      BY <3>1
    <3>3. at + Len(w) <= Len(items) /\ \A e \in 1 .. Len(w) : items[at + e] = w[e]
      BY <2>1, <2>2, <3>2 DEF Put
    <3>4. 1 \in 1 .. Len(w) /\ 2 \in 1 .. Len(w) /\ at + 2 = at + 1 + 1  BY <3>2
    <3>5. items[at + 1] = w[1] /\ items[at + 2] = w[2]  BY <3>3, <3>4
    <3>6. Len(items) \in Nat /\ at + 2 <= Len(items)  BY <1>1, <3>2, <3>3
    <3>7. QED BY <3>2, <3>4, <3>5, <3>6
  <2>4. Fed(items, src, d, at + 1) /\ Bit(d) = 1 /\ Clear(d)  BY <1>1, <1>3, <2>3, FedBit
  <2>5. d.ilen < Len(src) /\ Input(d.ilen) = c /\ Fed(items, src, NextByte(d), at + 1 + 1)
    BY <1>1, <2>3, <2>4, FedByte
  <2>6. d.ilen \in Nat /\ Len(src) \in Nat  BY <2>4, FedTyped DEF Fed, Layout
  <2>7. Len(dst) = p /\ p < oend /\ oend \in Nat  BY <1>1, <1>2, <2>1 DEF DstIs
  <2> HIDE DEF d
  <2>8. Bit(d) # 0 /\ ~(d.ilen >= Len(src)) /\ ~(Len(dst) >= oend)  BY <2>4, <2>5, <2>6, <2>7
  <2>9. /\ dst' = Append(dst, c) /\ in' = NextByte(d)
        /\ UNCHANGED <<src, place, oend, m_off, m_len, last_m_off, dpc>> /\ dpc = "flag"
    BY <2>5, <2>8 DEF Flag, d, NextByte
  <2>10. Fed(items, src, in, T[n + 1].at)'
    <3>1. at + 1 + 1 = at + 2  OBVIOUS
    <3>2. QED BY <2>1, <2>5, <2>9, <3>1
  <2>11. DstIs(t, T[n + 1].pos)'
    <3>1. \A i \in 1 .. p : dst[i] = t[i]  BY <1>1, <1>2 DEF DstIs
    <3>2. Len(Append(dst, c)) = p + 1 /\ \A i \in 1 .. p + 1 : Append(dst, c)[i] = t[i]
      BY <2>2, <2>7, <3>1
    <3>3. QED BY <2>1, <2>9, <3>2 DEF DstIs
  <2>12. AtFlag(items, T, n + 1)'  BY <1>3, <2>1, <2>9, <2>10 DEF AtFlag
  <2>13. QED BY <1>1, <1>5, <2>9, <2>11, <2>12 DEF Decodes
<1>6. CASE n = Len(T)
  <2>1. Ahead(items, t, T, n, EofPrefix)  BY <1>6 DEF Ahead
  <2>2. QED BY <1>4, <2>1
<1>7. CASE n # Len(T)
  <2>1. /\ Tokens(items, t, T, n + 1)
        /\ \/ LiteralStep(items, t, T[n], T[n + 1])
           \/ \E off, len : Token(items, t, T, n, off, len)
    BY <1>1, <1>7, NextToken
  <2>2. ASSUME NEW off, NEW len, Token(items, t, T, n, off, len)
        PROVE  \E i : Ahead(items, t, T, n, i)
    BY <2>2 DEF Ahead
  <2>3. QED BY <1>4, <1>5, <2>1, <2>2
<1>8. QED BY <1>6, <1>7

LEMMA OffsetTurnDecodes ==
  ASSUME NEW items, NEW t, NEW T, NEW n, Decodes(items, t, T, n), m_off \in Nat,
         Clear(in), NEW g \in Byte, OffsetTurn(g)
  PROVE  Decodes(items, t, T, n)'
<1> DEFINE d1 == getbit(in, g)
           d2 == getbit(d1, g)
           off == 2 * m_off + Bit(d1)
<1>1. /\ Tokens(items, t, T, n) /\ oend = Len(t) /\ DstIs(t, T[n].pos) /\ AtOffset(items, t, T, n)
      /\ items \in Seq(Item) /\ items[Len(items)] = <<"byte", ByteBase - 1>>
  BY LastItem DEF Decodes, OffsetTurn, Tokens
<1>2. PICK at \in Nat : at = T[n].at + 1 /\ T[n].at \in Nat
  <2>1. T[n].at \in Nat  BY <1>1, MarkTyped
  <2>2. QED BY <2>1
<1>3. PICK i \in Nat, j \in Nat :
        /\ Ahead(items, t, T, n, i) /\ j < Log2(i + 2)
        /\ Fed(items, src, in, at + 2 * j)
        /\ m_off = (i + 2) \div 2 ^ (Log2(i + 2) - j)
  BY <1>1, <1>2 DEF AtOffset
<1>4. i \in 0 .. EofPrefix /\ CodeAt(items, at, i) /\ EofPrefix \in Nat
  BY <1>1, <1>2, <1>3, AheadFacts, ByteFacts
<1>5. /\ off = (i + 2) \div 2 ^ (Log2(i + 2) - (j + 1)) /\ off \in Nat /\ off <= i + 2
      /\ d1.ilen < Len(src) /\ d1.ilen \in Nat /\ Len(src) \in Nat
      /\ Fed(items, src, d2, at + 2 * (j + 1))
      /\ Bit(d2) = IF j + 1 = Log2(i + 2) THEN 1 ELSE 0
      /\ j + 1 = Log2(i + 2) => off = i + 2
  <2>1. PICK e1, e2, z, k, y, m :
          /\ e1 = d1 /\ e2 = d2 /\ z = off /\ k = Log2(i + 2) /\ y = at + 2 * j /\ m = m_off
    OBVIOUS
  <2>2. e1 = getbit(in, g) /\ e2 = getbit(e1, g) /\ z = 2 * m + Bit(e1)  BY <2>1
  <2> HIDE DEF d1, d2, off
  <2>3. /\ CodeAt(items, at, i) /\ items \in Seq(Item)
        /\ items[Len(items)] = <<"byte", ByteBase - 1>>
        /\ j < k /\ Fed(items, src, in, y) /\ m = (i + 2) \div 2 ^ (k - j)
    BY <1>1, <1>3, <1>4, <2>1
  <2>a. k = Log2(i + 2) /\ y = at + 2 * j  BY <2>1
  <2>4. Turned(items, at, i, j, k, z, e1, e2)
    BY <2>2, <2>3, <2>a, TurnReads
  <2>5. QED BY <2>1, <2>4 DEF Turned
<1> HIDE DEF d1, d2, off
<1>7. ~(d1.ilen >= Len(src)) /\ ~(off > EofPrefix + 2)  BY <1>4, <1>5
<1>8. /\ in' = d2 /\ m_off' = off /\ dpc' = (IF Bit(d2) = 1 THEN "offset_byte" ELSE "offset")
      /\ UNCHANGED <<src, place, oend, dst, m_len, last_m_off>>
  BY <1>7 DEF OffsetTurn, d1, d2, off
<1>9. DstIs(t, T[n].pos)'  BY <1>1, <1>8 DEF DstIs
<1>10. last_m_off = T[n].last  BY <1>1 DEF AtOffset
<1>11. CASE j + 1 = Log2(i + 2)
  <2>1. dpc' = "offset_byte" /\ m_off' = i + 2 /\ Fed(items, src, in, T[n].at + 1 + 2 * Log2(i + 2))'
    BY <1>2, <1>5, <1>8, <1>11
  <2>2. AtOffsetByte(items, t, T, n)'  BY <1>3, <1>8, <1>10, <2>1 DEF AtOffsetByte
  <2>3. QED BY <1>1, <1>8, <1>9, <2>1, <2>2 DEF Decodes
<1>12. CASE j + 1 # Log2(i + 2)
  <2>1. PICK k \in Nat : k = Log2(i + 2)  BY LogOfCode
  <2>2. j + 1 \in Nat /\ j + 1 < Log2(i + 2)  BY <1>3, <1>12, <2>1
  <2>3. dpc' = "offset" /\ m_off' = (i + 2) \div 2 ^ (Log2(i + 2) - (j + 1))
        /\ Fed(items, src, in, T[n].at + 1 + 2 * (j + 1))'
    BY <1>2, <1>5, <1>8, <1>12
  <2>4. AtOffset(items, t, T, n)'  BY <1>3, <1>8, <1>10, <2>2, <2>3 DEF AtOffset
  <2>5. QED BY <1>1, <1>8, <1>9, <2>3, <2>4 DEF Decodes
<1>13. QED BY <1>11, <1>12

LEMMA OffsetDecodes ==
  ASSUME NEW items, NEW t, NEW T, NEW n, Decodes(items, t, T, n), Clear(in), Offset
  PROVE  Decodes(items, t, T, n)'
<1>1. /\ Tokens(items, t, T, n) /\ oend = Len(t) /\ DstIs(t, T[n].pos)
      /\ AtOffsetByte(items, t, T, n) /\ items \in Seq(Item) /\ UNCHANGED <<src, place, oend, dst, m_len>>
  BY DEF Decodes, Offset, Tokens
<1>2. DstIs(t, T[n].pos)'  BY <1>1 DEF DstIs
<1>3. PICK i \in Nat :
        /\ Ahead(items, t, T, n, i) /\ m_off = i + 2
        /\ Fed(items, src, in, T[n].at + 1 + 2 * Log2(i + 2))
        /\ last_m_off = T[n].last
  BY <1>1 DEF AtOffsetByte
<1>4. PICK at \in Nat, k \in Nat : at = T[n].at /\ k = Log2(i + 2)
  BY <1>1, <1>3, MarkTyped, LogOfCode
<1>5. PICK y \in Nat : y = at + 1 + 2 * k  OBVIOUS
<1>6. Fed(items, src, in, y)  BY <1>3, <1>4, <1>5
<1>7. in.ilen \in Nat /\ Len(src) \in Nat /\ in \in Buffer
  <2>1. in.ilen \in Nat /\ in \in Buffer  BY <1>6, FedTyped
  <2>2. src \in Seq(Byte)  BY <1>6 DEF Fed, Layout
  <2>3. QED BY <2>1, <2>2
<1>8. ByteBase \in Nat \ {0} /\ EofPrefix \in Nat \ {0}  BY ByteFacts, FormatAssumption
<1>9. ASSUME NEW off, NEW len, Token(items, t, T, n, off, len), i = OffsetCode(off, T[n].last)
      PROVE  Decodes(items, t, T, n)'
  <2>1. off \in Nat \ {0} /\ off < EofPrefix * ByteBase  BY <1>1, <1>9, TokenFacts
  <2>2. PICK prev : prev = T[n].last  OBVIOUS
  <2>3. Put(items, at, OffsetItems(off, prev))  BY <1>4, <1>9, <2>2 DEF Token
  <2>4. /\ off = prev => i = 0 /\ Len(OffsetItems(off, prev)) = 1 + 2 * k
        /\ off # prev =>
             /\ i # 0 /\ Len(OffsetItems(off, prev)) = 2 + 2 * k
             /\ at + 1 + 2 * k + 1 \in 1 .. Len(items)
             /\ items[at + 1 + 2 * k + 1] = <<"byte", (off - 1) % ByteBase>>
    <3>1. i = OffsetCode(off, prev) /\ items \in Seq(Item) /\ k = Log2(i + 2)
      BY <1>1, <1>4, <1>9, <2>2
    <3>2. QED BY <2>1, <2>3, <3>1, OffsetPut
  <2>5. CASE off = prev
    <3>1. m_off = 2  BY <1>3, <2>4, <2>5
    <3>2. m_off' = off /\ dpc' = "length" /\ in' = in /\ last_m_off' = off
      BY <1>3, <2>2, <2>5, <3>1 DEF Offset
    <3>3. at + Len(OffsetItems(off, prev)) = y  BY <1>5, <2>4, <2>5
    <3>4. Fed(items, src, in, T[n].at + Len(OffsetItems(off, T[n].last)))'
      BY <1>1, <1>4, <1>6, <2>2, <3>2, <3>3
    <3>5. InMatch(items, t, T, n, off, len)'  BY <1>9, <3>2 DEF InMatch
    <3>6. AtLength(items, t, T, n)'  BY <3>4, <3>5 DEF AtLength
    <3>7. QED BY <1>1, <1>2, <3>2, <3>6 DEF Decodes
  <2>6. CASE off # prev
    <3>1. m_off # 2  BY <1>3, <2>4, <2>6
    <3>2. PICK c \in Nat, q \in Nat : /\ c = (off - 1) % ByteBase /\ q = (off - 1) \div ByteBase
                                      /\ off - 1 = q * ByteBase + c
      <4>1. off - 1 \in Nat  BY <2>1
      <4>2. PICK x \in Nat : x = off - 1  BY <4>1
      <4>3. x \div ByteBase \in Nat /\ x % ByteBase \in 0 .. ByteBase - 1
            /\ x = (x \div ByteBase) * ByteBase + (x % ByteBase)
        BY <1>8, DivMod
      <4>4. x % ByteBase \in Nat  BY <1>8, <4>3
      <4>5. QED BY <4>2, <4>3, <4>4
    <3>3. i = 1 + q  BY <1>9, <2>2, <2>6, <3>2 DEF OffsetCode
    <3>4. y + 1 \in 1 .. Len(items) /\ items[y + 1] = <<"byte", c>>  BY <1>5, <2>4, <2>6, <3>2
    <3>5. in.ilen < Len(src) /\ Input(in.ilen) = c /\ Fed(items, src, NextByte(in), y + 1)
      BY <1>1, <1>6, <3>4, FedByte
    <3>6. ~(in.ilen >= Len(src))  BY <1>7, <3>5
    <3>7. (m_off - 3) * ByteBase + c + 1 = off
      <4>1. m_off - 3 = q  BY <1>3, <3>3
      <4>2. PICK z \in Nat : z = q * ByteBase  BY <1>8
      <4>3. z + c + 1 = off  BY <2>1, <3>2, <4>2
      <4>4. QED BY <4>1, <4>2, <4>3
    <3>8. off # EofPrefix * ByteBase
      <4>1. EofPrefix * ByteBase \in Nat  BY <1>8
      <4>2. QED BY <2>1, <4>1
    <3>9. m_off' = off /\ dpc' = "length" /\ last_m_off' = off /\ in' = NextByte(in)
      <4>1. m_off' = (m_off - 3) * ByteBase + Input(in.ilen) + 1 /\ in' = NextByte(in)
        BY <3>1, <3>6 DEF Offset, NextByte
      <4>2. m_off' = off  BY <3>5, <3>7, <4>1
      <4>3. QED BY <3>1, <3>6, <3>8, <4>1, <4>2 DEF Offset
    <3>10. at + Len(OffsetItems(off, prev)) = y + 1
      <4>1. Len(OffsetItems(off, prev)) = 2 + 2 * k  BY <2>4, <2>6
      <4>2. at + (2 + 2 * k) = y + 1  BY <1>5
      <4>3. QED BY <4>1, <4>2
    <3>11. Fed(items, src, in, T[n].at + Len(OffsetItems(off, T[n].last)))'
      BY <1>1, <1>4, <2>2, <3>5, <3>9, <3>10
    <3>12. InMatch(items, t, T, n, off, len)'  BY <1>9, <3>9 DEF InMatch
    <3>13. AtLength(items, t, T, n)'  BY <3>11, <3>12 DEF AtLength
    <3>14. QED BY <1>1, <1>2, <3>9, <3>13 DEF Decodes
  <2>7. QED BY <2>5, <2>6
<1>10. CASE n = Len(T) /\ i = EofPrefix
  <2>1. Put(items, at, EndItems) /\ Len(items) = at + Len(EndItems)
    BY <1>1, <1>4, <1>10 DEF Tokens, Ended
  <2>2. /\ Len(EndItems) = 2 + 2 * k /\ at + 1 + 2 * k + 1 \in 1 .. Len(items)
        /\ items[at + 1 + 2 * k + 1] = <<"byte", ByteBase - 1>>
    BY <1>1, <1>4, <1>10, <2>1, EndPut
  <2>3. y + 1 \in 1 .. Len(items) /\ items[y + 1] = <<"byte", ByteBase - 1>> /\ y + 1 = Len(items)
    BY <1>5, <2>1, <2>2
  <2>4. /\ in.ilen < Len(src) /\ Input(in.ilen) = ByteBase - 1
        /\ Fed(items, src, NextByte(in), y + 1)
    BY <1>1, <1>6, <2>3, FedByte
  <2>5. m_off # 2 /\ ~(in.ilen >= Len(src))  BY <1>3, <1>7, <1>8, <1>10, <2>4
  <2>6. (m_off - 3) * ByteBase + (ByteBase - 1) + 1 = EofPrefix * ByteBase
    <3>1. m_off - 3 = EofPrefix - 1  BY <1>3, <1>8, <1>10
    <3>2. (EofPrefix - 1) * ByteBase = EofPrefix * ByteBase - ByteBase
          /\ (EofPrefix - 1) * ByteBase \in Int
      BY <1>8
    <3>3. QED BY <1>8, <3>1, <3>2
  <2>7. m_off' = EofPrefix * ByteBase /\ in' = NextByte(in)
    <3>1. m_off' = (m_off - 3) * ByteBase + Input(in.ilen) + 1 /\ in' = NextByte(in)
      BY <2>5 DEF Offset, NextByte
    <3>2. QED BY <2>4, <2>6, <3>1
  <2>8. dpc' = "end"  BY <2>5, <2>7 DEF Offset
  <2>9. Fed(items, src, in, Len(items))'  BY <1>1, <2>3, <2>4, <2>7
  <2>10. QED BY <1>1, <1>2, <1>10, <2>8, <2>9 DEF Decodes
<1>11. QED BY <1>3, <1>9, <1>10 DEF Ahead

(* What the items of a match have at its length. *)
LengthShape(items, t, T, n, v, y, k) ==
  /\ y \in Nat /\ y + 2 <= Len(items)
  /\ v \in Nat \ {0} /\ v < Len(t) /\ Len(t) \in Nat
  /\ v >= 4 => /\ items[y + 1] = <<"bit", 0>> /\ items[y + 2] = <<"bit", 0>>
               /\ k \in Nat \ {0} /\ CodeAt(items, y + 2, v - 4)
               /\ T[n + 1].at = y + 2 + 2 * k
  /\ v < 4 => /\ items[y + 1] = <<"bit", IF v > 1 THEN 1 ELSE 0>>
              /\ items[y + 2] = <<"bit", v % 2>> /\ T[n + 1].at = y + 2

LEMMA LengthAhead ==
  ASSUME NEW items, NEW t, NEW T, NEW n, Tokens(items, t, T, n), NEW off, NEW len,
         Token(items, t, T, n, off, len), NEW v, v = CodedLength(off, len),
         NEW y, y = T[n].at + Len(OffsetItems(off, T[n].last)), NEW k, k = Log2(v - 2)
  PROVE  LengthShape(items, t, T, n, v, y, k)
<1>1. items \in Seq(Item) /\ t \in Seq(Byte) /\ Len(t) \in Nat  BY DEF Tokens
<1>2. /\ off \in Nat \ {0} /\ len \in Nat /\ len >= 3 /\ T[n].pos + len <= Len(t)
  BY TokenFacts
<1>3. T[n].pos \in Nat /\ T[n].at \in Nat  BY MarkTyped
<1>4. v \in Nat \ {0}  BY <1>2, CodedLengthTyped
<1>5. v < Len(t)  BY <1>1, <1>2, <1>3 DEF CodedLength
<1>6. OffsetItems(off, T[n].last) \in Seq(Item)  BY <1>2, OffsetItemsTyped
<1>7. y \in Nat  BY <1>3, <1>6
<1>8. Put(items, y, LengthItems(v)) /\ T[n + 1].at = y + Len(LengthItems(v))  BY DEF Token
<1>9. /\ y + 2 <= Len(items) /\ Len(LengthItems(v)) \in Nat
      /\ v >= 4 => /\ items[y + 1] = <<"bit", 0>> /\ items[y + 2] = <<"bit", 0>>
                   /\ k \in Nat \ {0} /\ CodeAt(items, y + 2, v - 4)
                   /\ Len(LengthItems(v)) = 2 + 2 * k
      /\ v < 4 => /\ items[y + 1] = <<"bit", IF v > 1 THEN 1 ELSE 0>>
                  /\ items[y + 2] = <<"bit", v % 2>>
                  /\ Len(LengthItems(v)) = 2
  BY <1>1, <1>4, <1>7, <1>8, LengthPut
<1>10. v >= 4 => T[n + 1].at = y + 2 + 2 * k
  <2>1. SUFFICES ASSUME v >= 4 PROVE T[n + 1].at = y + 2 + 2 * k  OBVIOUS
  <2>2. PICK h \in Nat, z \in Nat : h = k /\ z = y  BY <1>7, <1>9, <2>1
  <2>3. T[n + 1].at = z + (2 + 2 * h)  BY <1>8, <1>9, <2>1, <2>2
  <2>4. QED BY <2>2, <2>3
<1>11. v < 4 => T[n + 1].at = y + 2  BY <1>8, <1>9
<1>12. QED BY <1>1, <1>4, <1>5, <1>7, <1>9, <1>10, <1>11 DEF LengthShape

LEMMA LengthDecodes ==
  ASSUME NEW items, NEW t, NEW T, NEW n, Decodes(items, t, T, n), Clear(in),
         NEW g \in Byte, Length(g)
  PROVE  Decodes(items, t, T, n)'
<1> DEFINE d1 == getbit(in, g)
           d2 == getbit(d1, g)
           x == 2 * Bit(d1) + Bit(d2)
<1>1. /\ Tokens(items, t, T, n) /\ oend = Len(t) /\ DstIs(t, T[n].pos)
      /\ AtLength(items, t, T, n) /\ items \in Seq(Item)
  BY DEF Decodes, Length, Tokens
<1>2. /\ in' = d2 /\ m_len' = (IF x = 0 THEN 1 ELSE x)
      /\ dpc' = (IF x = 0 THEN "long_length" ELSE "copy")
      /\ UNCHANGED <<src, place, oend, dst, m_off, last_m_off>>
  BY DEF Length
<1>3. DstIs(t, T[n].pos)'  BY <1>1, <1>2 DEF DstIs
<1>4. PICK off, len :
        /\ InMatch(items, t, T, n, off, len)
        /\ Fed(items, src, in, T[n].at + Len(OffsetItems(off, T[n].last)))
  BY <1>1 DEF AtLength
<1>5. InMatch(items, t, T, n, off, len)'  BY <1>2, <1>4 DEF InMatch
<1>6. PICK v : v = CodedLength(off, len)  OBVIOUS
<1>7. PICK y \in Nat :
        /\ y = T[n].at + Len(OffsetItems(off, T[n].last)) /\ y + 2 <= Len(items)
        /\ v \in Nat \ {0} /\ v < Len(t)
        /\ v >= 4 => /\ items[y + 1] = <<"bit", 0>> /\ items[y + 2] = <<"bit", 0>>
                     /\ CodeAt(items, y + 2, v - 4)
                     /\ T[n + 1].at = y + 2 + 2 * Log2(v - 2)
        /\ v < 4 => /\ items[y + 1] = <<"bit", IF v > 1 THEN 1 ELSE 0>>
                    /\ items[y + 2] = <<"bit", v % 2>> /\ T[n + 1].at = y + 2
  <2>1. Token(items, t, T, n, off, len)  BY <1>4 DEF InMatch
  <2>2. PICK z, k : z = T[n].at + Len(OffsetItems(off, T[n].last)) /\ k = Log2(v - 2)  OBVIOUS
  <2> HIDE DEF d1, d2, x
  <2>3. LengthShape(items, t, T, n, v, z, k)  BY <1>1, <1>6, <2>1, <2>2, LengthAhead
  <2>4. QED BY <2>2, <2>3 DEF LengthShape
<1>8. y + 1 \in 1 .. Len(items) /\ y + 1 + 1 \in 1 .. Len(items) /\ y + 2 = y + 1 + 1
  BY <1>1, <1>7
<1>9. ASSUME NEW b, NEW c, items[y + 1] = <<"bit", b>>, items[y + 2] = <<"bit", c>>
      PROVE  Bit(d1) = b /\ Bit(d2) = c /\ Fed(items, src, d2, y + 2)
  <2>1. Fed(items, src, d1, y + 1) /\ Bit(d1) = b /\ Clear(d1)
    BY <1>1, <1>4, <1>7, <1>8, <1>9, FedBit
  <2> HIDE DEF d1
  <2>2. Fed(items, src, d2, y + 1 + 1) /\ Bit(d2) = c  BY <1>1, <1>8, <1>9, <2>1, FedBit
  <2> HIDE DEF d2
  <2>3. QED BY <1>8, <2>1, <2>2
<1> HIDE DEF d1, d2
<1>10. CASE v >= 4
  <2>1. Bit(d1) = 0 /\ Bit(d2) = 0 /\ Fed(items, src, d2, y + 2)  BY <1>7, <1>9, <1>10
  <2>2. m_len' = 1 /\ dpc' = "long_length" /\ in' = d2  BY <1>2, <2>1
  <2>3. PICK i \in Nat : i = v - 4 /\ i + 2 = v - 2  BY <1>7, <1>10
  <2>4. 0 < Log2(v - 2) /\ (v - 2) \div 2 ^ (Log2(v - 2) - 0) = 1
    <3>1. PICK k \in Nat \ {0} : k = Log2(i + 2) /\ (i + 2) \div 2 ^ k = 1  BY LogOfCode
    <3>2. k - 0 = k /\ 0 < k  OBVIOUS
    <3>3. QED BY <2>3, <3>1, <3>2
  <2>5. y + 2 + 2 * 0 = y + 2  OBVIOUS
  <2>6. Fed(items, src, in, T[n].at + Len(OffsetItems(off, T[n].last)) + 2 + 2 * 0)'
    BY <1>2, <1>7, <2>1, <2>2, <2>5
  <2>7. AtLongLength(items, t, T, n)'
    BY <1>5, <1>6, <1>10, <2>2, <2>4, <2>6 DEF AtLongLength
  <2>8. QED BY <1>1, <1>2, <1>3, <2>2, <2>7 DEF Decodes
<1>11. CASE v < 4
  <2>1. Bit(d1) = (IF v > 1 THEN 1 ELSE 0) /\ Bit(d2) = v % 2 /\ Fed(items, src, d2, y + 2)
    BY <1>7, <1>9, <1>11
  <2>2. x = v /\ x # 0
    <3>1. v \in {1, 2, 3}  BY <1>7, <1>11
    <3>2. 1 % 2 = 1 /\ 2 % 2 = 0 /\ 3 % 2 = 1  OBVIOUS
    <3>3. CASE v = 1  BY <2>1, <3>2, <3>3
    <3>4. CASE v = 2  BY <2>1, <3>2, <3>4
    <3>5. CASE v = 3  BY <2>1, <3>2, <3>5
    <3>6. QED BY <3>1, <3>3, <3>4, <3>5
  <2>3. m_len' = v /\ dpc' = "copy" /\ in' = d2  BY <1>2, <2>2
  <2>4. Fed(items, src, in, T[n + 1].at)'  BY <1>2, <1>7, <1>11, <2>1, <2>3
  <2>5. AtCopy(items, t, T, n)'  BY <1>5, <1>6, <2>3, <2>4 DEF AtCopy
  <2>6. QED BY <1>1, <1>2, <1>3, <2>3, <2>5 DEF Decodes
<1>12. v \in Nat  BY <1>7
<1>13. QED BY <1>10, <1>11, <1>12

LEMMA LengthTurnDecodes ==
  ASSUME NEW items, NEW t, NEW T, NEW n, Decodes(items, t, T, n), Clear(in),
         NEW g \in Byte, LengthTurn(g)
  PROVE  Decodes(items, t, T, n)'
<1> DEFINE d1 == getbit(in, g)
           d2 == getbit(d1, g)
           x == 2 * m_len + Bit(d1)
<1>1. /\ Tokens(items, t, T, n) /\ oend = Len(t) /\ DstIs(t, T[n].pos)
      /\ AtLongLength(items, t, T, n) /\ items \in Seq(Item)
      /\ items[Len(items)] = <<"byte", ByteBase - 1>> /\ t \in Seq(Byte)
  BY LastItem DEF Decodes, LengthTurn, Tokens
<1>2. PICK off, len, v : \E j \in Nat :
        /\ InMatch(items, t, T, n, off, len)
        /\ v = CodedLength(off, len) /\ v >= 4 /\ j < Log2(v - 2)
        /\ m_len = (v - 2) \div 2 ^ (Log2(v - 2) - j)
        /\ Fed(items, src, in, T[n].at + Len(OffsetItems(off, T[n].last)) + 2 + 2 * j)
  BY <1>1 DEF AtLongLength
<1>a. PICK j \in Nat :
        /\ InMatch(items, t, T, n, off, len)
        /\ v = CodedLength(off, len) /\ v >= 4 /\ j < Log2(v - 2)
        /\ m_len = (v - 2) \div 2 ^ (Log2(v - 2) - j)
        /\ Fed(items, src, in, T[n].at + Len(OffsetItems(off, T[n].last)) + 2 + 2 * j)
  BY <1>2
<1>3. PICK y \in Nat :
        /\ y = T[n].at + Len(OffsetItems(off, T[n].last)) /\ y + 2 <= Len(items)
        /\ v \in Nat \ {0} /\ v < Len(t)
        /\ v >= 4 => /\ items[y + 1] = <<"bit", 0>> /\ items[y + 2] = <<"bit", 0>>
                     /\ CodeAt(items, y + 2, v - 4)
                     /\ T[n + 1].at = y + 2 + 2 * Log2(v - 2)
        /\ v < 4 => /\ items[y + 1] = <<"bit", IF v > 1 THEN 1 ELSE 0>>
                    /\ items[y + 2] = <<"bit", v % 2>> /\ T[n + 1].at = y + 2
  <2>1. Token(items, t, T, n, off, len)  BY <1>a DEF InMatch
  <2>2. PICK z, k : z = T[n].at + Len(OffsetItems(off, T[n].last)) /\ k = Log2(v - 2)  OBVIOUS
  <2> HIDE DEF d1, d2, x
  <2>3. LengthShape(items, t, T, n, v, z, k)  BY <1>1, <1>a, <2>1, <2>2, LengthAhead
  <2>4. QED BY <2>2, <2>3 DEF LengthShape
<1>4. PICK i \in Nat, at \in Nat : i = v - 4 /\ i + 2 = v - 2 /\ at = y + 2  BY <1>a, <1>3
<1>5. /\ CodeAt(items, at, i) /\ T[n + 1].at = at + 2 * Log2(i + 2)
      /\ j < Log2(i + 2) /\ m_len = (i + 2) \div 2 ^ (Log2(i + 2) - j)
      /\ Fed(items, src, in, at + 2 * j)
  BY <1>a, <1>3, <1>4
<1>6. /\ x = (i + 2) \div 2 ^ (Log2(i + 2) - (j + 1)) /\ x \in Nat /\ x <= i + 2
      /\ d1.ilen < Len(src) /\ d1.ilen \in Nat /\ Len(src) \in Nat
      /\ Fed(items, src, d2, at + 2 * (j + 1))
      /\ Bit(d2) = IF j + 1 = Log2(i + 2) THEN 1 ELSE 0
      /\ j + 1 = Log2(i + 2) => x = i + 2
  <2>1. PICK e1, e2, z, k, h, m :
          /\ e1 = d1 /\ e2 = d2 /\ z = x /\ k = Log2(i + 2) /\ h = at + 2 * j /\ m = m_len
    OBVIOUS
  <2>2. e1 = getbit(in, g) /\ e2 = getbit(e1, g) /\ z = 2 * m + Bit(e1)  BY <2>1
  <2> HIDE DEF d1, d2, x
  <2>3. /\ CodeAt(items, at, i) /\ items \in Seq(Item)
        /\ items[Len(items)] = <<"byte", ByteBase - 1>>
        /\ j < k /\ Fed(items, src, in, h) /\ m = (i + 2) \div 2 ^ (k - j)
    BY <1>1, <1>5, <2>1
  <2>a. k = Log2(i + 2) /\ h = at + 2 * j  BY <2>1
  <2>4. Turned(items, at, i, j, k, z, e1, e2)
    BY <2>2, <2>3, <2>a, TurnReads
  <2>5. QED BY <2>1, <2>4 DEF Turned
<1> HIDE DEF d1, d2, x
<1>8. ~(d1.ilen >= Len(src)) /\ ~(x >= oend)
  <2>1. x < Len(t) /\ Len(t) \in Nat
    <3>1. Len(t) \in Nat  BY <1>1
    <3>2. v \in Nat /\ v < Len(t)  BY <1>3
    <3>3. i + 2 = v - 2 /\ x \in Nat /\ x <= i + 2  BY <1>4, <1>6
    <3>4. QED BY <3>1, <3>2, <3>3
  <2>2. QED BY <1>1, <1>6, <2>1
<1>9. /\ in' = d2 /\ m_len' = (IF Bit(d2) = 1 THEN x + 2 ELSE x)
      /\ dpc' = (IF Bit(d2) = 1 THEN "copy" ELSE "long_length")
      /\ UNCHANGED <<src, place, oend, dst, m_off, last_m_off>>
  BY <1>8 DEF LengthTurn, d1, d2, x
<1>10. DstIs(t, T[n].pos)'  BY <1>1, <1>9 DEF DstIs
<1>11. InMatch(items, t, T, n, off, len)'  BY <1>a, <1>9 DEF InMatch
<1>12. CASE j + 1 = Log2(i + 2)
  <2>1. dpc' = "copy" /\ m_len' = v /\ Fed(items, src, in, T[n + 1].at)'
    <3>1. x + 2 = v  BY <1>3, <1>4, <1>6, <1>12
    <3>2. QED BY <1>5, <1>6, <1>9, <1>12, <3>1
  <2>2. AtCopy(items, t, T, n)'  BY <1>a, <1>11, <2>1 DEF AtCopy
  <2>3. QED BY <1>1, <1>9, <1>10, <2>1, <2>2 DEF Decodes
<1>13. CASE j + 1 # Log2(i + 2)
  <2>1. PICK k \in Nat : k = Log2(i + 2)  BY LogOfCode
  <2>2. j + 1 \in Nat /\ j + 1 < Log2(v - 2)
    <3>1. j < k /\ j + 1 # k  BY <1>5, <1>13, <2>1
    <3>2. j + 1 < k  BY <3>1
    <3>3. QED BY <1>4, <2>1, <3>2
  <2>3. dpc' = "long_length" /\ m_len' = (v - 2) \div 2 ^ (Log2(v - 2) - (j + 1))
    BY <1>4, <1>6, <1>9, <1>13
  <2>4. Fed(items, src, in, T[n].at + Len(OffsetItems(off, T[n].last)) + 2 + 2 * (j + 1))'
    BY <1>3, <1>4, <1>6, <1>9
  <2>5. AtLongLength(items, t, T, n)'  BY <1>a, <1>11, <2>2, <2>3, <2>4 DEF AtLongLength
  <2>6. QED BY <1>1, <1>9, <1>10, <2>3, <2>5 DEF Decodes
<1>14. QED BY <1>12, <1>13

LEMMA CopyDecodes ==
  ASSUME NEW items, NEW t, NEW T, NEW n, Decodes(items, t, T, n), dst \in Seq(Byte), Copy
  PROVE  Decodes(items, t, T, n + 1)'
<1>1. /\ Tokens(items, t, T, n) /\ oend = Len(t) /\ DstIs(t, T[n].pos)
      /\ AtCopy(items, t, T, n) /\ items \in Seq(Item) /\ t \in Seq(Byte)
  BY DEF Decodes, Copy, Tokens
<1>2. PICK off, len :
        /\ InMatch(items, t, T, n, off, len)
        /\ m_len = CodedLength(off, len) /\ Fed(items, src, in, T[n + 1].at)
  BY <1>1 DEF AtCopy
<1>3. Token(items, t, T, n, off, len) /\ m_off = off /\ last_m_off = off  BY <1>2 DEF InMatch
<1>4. /\ off \in Nat \ {0} /\ off <= T[n].pos /\ len \in Nat /\ len >= 3
      /\ T[n].pos + len <= Len(t) /\ Tokens(items, t, T, n + 1)
  BY <1>1, <1>3, TokenFacts
<1>5. PICK p \in Nat : p = T[n].pos  BY <1>1, MarkTyped
<1>6. Len(dst) = p /\ \A i \in 1 .. p : dst[i] = t[i]  BY <1>1, <1>5 DEF DstIs
<1>7. Repeats(t, Len(dst), off, len)  BY <1>3, <1>5, <1>6 DEF Token
<1>8. /\ Len(Copied(dst, off, len)) = p + len
      /\ \A i \in 1 .. p + len : Copied(dst, off, len)[i] = t[i]
  BY <1>1, <1>6, <1>7, CopyRestores
<1>9. m_len \in Nat /\ (IF m_off > M2_MAX_OFFSET THEN m_len + 1 ELSE m_len) = len - 1
  <2>1. m_len = len - 1 - (IF off > M2_MAX_OFFSET THEN 1 ELSE 0)  BY <1>2 DEF CodedLength
  <2>2. CASE off > M2_MAX_OFFSET
    <3>1. m_len = len - 1 - 1  BY <2>1, <2>2
    <3>2. QED BY <1>3, <1>4, <2>2, <3>1
  <2>3. CASE ~(off > M2_MAX_OFFSET)
    <3>1. m_len = len - 1 - 0  BY <2>1, <2>3
    <3>2. QED BY <1>3, <1>4, <2>3, <3>1
  <2>4. QED BY <2>2, <2>3
<1>10. ~(Len(dst) + (len - 1) > oend) /\ ~(m_off > Len(dst)) /\ (len - 1) + 1 = len
  <2>1. Len(t) \in Nat  BY <1>1
  <2>2. QED BY <1>1, <1>3, <1>4, <1>5, <1>6, <2>1
<1>11. dst' = Copied(dst, off, len) /\ dpc' = "flag"
       /\ UNCHANGED <<src, place, oend, m_off, m_len, last_m_off, in>>
  BY <1>3, <1>9, <1>10 DEF Copy
<1>12. T[n + 1].pos = p + len /\ T[n + 1].last = off  BY <1>3, <1>5 DEF Token
<1>13. DstIs(t, T[n + 1].pos)'  BY <1>8, <1>11, <1>12 DEF DstIs
<1>14. AtFlag(items, T, n + 1)'  BY <1>2, <1>3, <1>11, <1>12 DEF AtFlag
<1>15. QED BY <1>1, <1>4, <1>11, <1>13, <1>14 DEF Decodes

LEMMA ResultDecodes ==
  ASSUME NEW items, NEW t, NEW T, NEW n, Decodes(items, t, T, n), Result
  PROVE  Decodes(items, t, T, n)'
<1>1. /\ Tokens(items, t, T, n) /\ oend = Len(t) /\ DstIs(t, T[n].pos)
      /\ n = Len(T) /\ Fed(items, src, in, Len(items)) /\ items \in Seq(Item)
  BY DEF Decodes, Result, Tokens
<1>2. in.ilen = Len(src)  BY <1>1, FedAll
<1>3. dpc' = "OK" /\ UNCHANGED <<src, place, oend, dst, in, m_off, m_len, last_m_off>>
  BY <1>2 DEF Result
<1>4. DstIs(t, T[n].pos)'  BY <1>1, <1>3 DEF DstIs
<1>5. QED BY <1>1, <1>3, <1>4 DEF Decodes

LEMMA DecompressDecodes ==
  ASSUME NEW items, NEW t, NEW T, NEW n, Decodes(items, t, T, n), DInv, Unread, Decompress
  PROVE  \E m : Decodes(items, t, T, m)'
<1>1. dst \in Seq(Byte) /\ m_off \in Nat /\ Clear(in)  BY UnreadClear DEF DInv
<1>2. ASSUME NEW g \in Byte, Flag(g) \/ OffsetTurn(g) \/ Length(g) \/ LengthTurn(g)
      PROVE  \E m : Decodes(items, t, T, m)'
  BY <1>1, <1>2, FlagDecodes, OffsetTurnDecodes, LengthDecodes, LengthTurnDecodes
<1>3. QED BY <1>1, <1>2, OffsetDecodes, CopyDecodes, ResultDecodes DEF Decompress

(* The decompressor is given what encodes the text. *)
LEMMA StartDecodes ==
  ASSUME NEW items, NEW t \in Seq(Byte), Encoded(items, t), Len(t) <= EofPrefix * ByteBase,
         NEW where, DecompressStart(Block(items), where, Len(t))
  PROVE  \E T, n : Decodes(items, t, T, n)'
<1>1. items \in Seq(Item)  BY DEF Encoded
<1>2. PICK T : Ended(items, t, T)  BY DEF Encoded
<1>3. Len(T) >= 1 /\ Len(T) \in Nat /\ T[1] = [at |-> 0, pos |-> 0, last |-> 1]
  BY <1>2 DEF Ended, Trail
<1>4. Tokens(items, t, T, 1)  BY <1>1, <1>2, <1>3 DEF Tokens
<1>5. /\ src' = Block(items) /\ oend' = Len(t) /\ dst' = <<>> /\ in' = [bb |-> 0, ilen |-> 0]
      /\ last_m_off' = 1 /\ dpc' = "flag"
  BY DEF DecompressStart
<1>6. Fed(items, src, in, T[1].at)'  BY <1>1, <1>3, <1>5, FedStart
<1>7. AtFlag(items, T, 1)'  BY <1>3, <1>5, <1>6 DEF AtFlag
<1>8. DstIs(t, T[1].pos)'
  <2>1. Len(<<>>) = 0 /\ 1 .. 0 = {}  OBVIOUS
  <2>2. QED BY <1>3, <1>5, <2>1 DEF DstIs
<1>9. Decodes(items, t, T, 1)'  BY <1>4, <1>5, <1>7, <1>8 DEF Decodes
<1>10. QED BY <1>9

(* So the output is the text so far, and at the end all of it. *)
LEMMA DecodesRight ==
  ASSUME NEW items, NEW t, NEW T, NEW n, Decodes(items, t, T, n), dst \in Seq(Byte)
  PROVE  /\ \A i \in 1 .. Len(dst) : i <= Len(t) /\ dst[i] = t[i]
         /\ dpc \in Running \/ (dpc = "OK" /\ dst = t)
<1>1. /\ Tokens(items, t, T, n) /\ t \in Seq(Byte)
      /\ Len(dst) = T[n].pos /\ \A i \in 1 .. T[n].pos : dst[i] = t[i]
  BY DEF Decodes, DstIs, Tokens
<1>2. T[n].pos <= Len(t)
  <2>1. CASE n = Len(T)
    <3>1. T[n].pos = Len(t) /\ Len(t) \in Nat  BY <1>1, <2>1 DEF Tokens, Ended
    <3>2. QED BY <3>1
  <2>2. CASE n # Len(T)
    <3>1. T[n].pos \in Nat /\ Len(t) \in Nat  BY <1>1, MarkTyped
    <3>2. CASE LiteralStep(items, t, T[n], T[n + 1])  BY <3>1, <3>2 DEF LiteralStep
    <3>3. ASSUME NEW off, NEW len, Token(items, t, T, n, off, len) PROVE T[n].pos <= Len(t)
      <4>1. len \in Nat /\ T[n].pos + len <= Len(t)  BY <1>1, <3>3, TokenFacts
      <4>2. QED BY <3>1, <4>1
    <3>4. QED BY <1>1, <2>2, <3>2, <3>3, NextToken
  <2>3. QED BY <2>1, <2>2
<1>3. T[n].pos \in Nat /\ Len(t) \in Nat  BY <1>1, MarkTyped
<1>4. ASSUME NEW i \in 1 .. Len(dst) PROVE i <= Len(t) /\ dst[i] = t[i]
  BY <1>1, <1>2, <1>3
<1>5. CASE dpc = "OK"
  <2>1. n = Len(T)  BY <1>5 DEF Decodes
  <2>2. T[n].pos = Len(t)  BY <1>1, <2>1 DEF Tokens, Ended
  <2>3. dst = t  BY <1>1, <2>2, SeqEqual
  <2>4. QED BY <1>4, <1>5, <2>3
<1>6. CASE dpc # "OK"
  <2>1. dpc \in Running  BY <1>6 DEF Decodes, Running
  <2>2. QED BY <1>4, <2>1
<1>7. QED BY <1>5, <1>6

-----------------------------------------------------------------------------
(* The container: numbers, and the checksum, in four bytes.                *)


Times(m, n) == m * n
LEMMA DivTwice ==
  ASSUME NEW a \in Nat, NEW m \in Nat \ {0}, NEW n \in Nat \ {0},
         NEW p \in Nat \ {0}, p = Times(m, n), NEW q, q = a \div m
  PROVE  a \div p = q \div n
<1> DEFINE c == a % m
           z == q \div n
           u == q % n
<1>1. q \in Nat /\ c \in 0 .. m - 1 /\ a = q * m + c  BY DivMod
<1> HIDE DEF c
<1>2. z \in Nat /\ u \in 0 .. n - 1 /\ q = z * n + u  BY <1>1, DivMod
<1> HIDE DEF z, u
<1>3. m * n \in Nat \ {0} /\ p = m * n  BY DEF Times
<1>4. u * m + c \in 0 .. m * n - 1
  <2>1. u \in Nat /\ u <= n - 1 /\ n - 1 \in Nat  BY <1>2
  <2>2. u * m <= (n - 1) * m /\ u * m \in Nat /\ (n - 1) * m \in Nat  BY <2>1, MulMono
  <2>3. (n - 1) * m = m * n - m  OBVIOUS
  <2>4. QED BY <1>1, <1>3, <2>2, <2>3
<1>5. a = z * (m * n) + (u * m + c)
  <2>1. (z * n + u) * m = z * (m * n) + u * m  BY <1>2
  <2>2. QED BY <1>1, <1>2, <2>1
<1>6. PICK y \in 0 .. p - 1 : y = u * m + c  BY <1>3, <1>4
<1>7. (z * p + y) \div p = z  BY <1>2, DivModUnique
<1>8. a = z * p + y  BY <1>3, <1>5, <1>6
<1>9. QED BY <1>7, <1>8 DEF z

(* The four bytes of a number. *)
LEMMA WordDigits ==
  ASSUME NEW v \in Nat, v < WordBase,
         NEW a, a = Word(v)[1], NEW b, b = Word(v)[2], NEW c, c = Word(v)[3], NEW d, d = Word(v)[4]
  PROVE  ((a * ByteBase + b) * ByteBase + c) * ByteBase + d = v
<1>1. PICK B \in Nat \ {0} : B = ByteBase  BY ByteFacts
<1>2. HalfBase = B * B /\ HalfBase \in Nat \ {0} /\ WordBase = HalfBase * HalfBase
  BY <1>1, ByteFacts DEF HalfBase, WordBase
<1>3. PICK H \in Nat \ {0} : H = HalfBase  BY <1>2
<1>4. PICK q1 \in Nat : q1 = v \div B /\ v = q1 * B + (v % B)  BY DivMod
<1>5. PICK q2 \in Nat : q2 = q1 \div B /\ q1 = q2 * B + (q1 % B)  BY DivMod
<1>6. PICK q3 \in Nat : q3 = q2 \div B /\ q2 = q3 * B + (q2 % B)  BY DivMod
<1>7. v \div H = q2
  <2>1. H = Times(B, B)  BY <1>2, <1>3 DEF Times
  <2>2. v \div H = q1 \div B  BY <1>4, <2>1, DivTwice
  <2>3. QED BY <1>4, <1>5, <2>2
<1>8. v \div (H * B) = q3 /\ H * B \in Nat \ {0}
  <2>1. PICK e \in Nat \ {0} : e = H * B /\ e = Times(H, B)  BY DEF Times
  <2>2. v \div e = q2 \div B  BY <1>7, <2>1, DivTwice
  <2>3. QED BY <1>6, <1>7, <2>1, <2>2
<1>9. q3 < B
  <2>1. PICK k \in Nat : k = B - 1 /\ k + 1 = B  OBVIOUS
  <2>2. PICK e \in Nat \ {0} : e = H * B  BY <1>8
  <2>3. WordBase = (k + 1) * e
    <3>1. H * (B * B) = B * (H * B)  OBVIOUS
    <3>2. QED BY <1>2, <1>3, <2>1, <2>2, <3>1
  <2>4. v \div e <= k  BY <2>2, <2>3, DivAtMost
  <2>5. QED BY <1>8, <2>1, <2>2, <2>4
<1>10. q3 % B = q3  BY <1>9, ModSmall
<1>11. a = q3 /\ b = q2 % B /\ c = q1 % B /\ d = v % B
  BY <1>1, <1>3, <1>4, <1>7, <1>8, <1>10 DEF Word
<1>12. q2 % B \in Nat /\ q1 % B \in Nat /\ v % B \in Nat  BY DivMod
<1>13. a * B + b = q2  BY <1>6, <1>11
<1>14. q2 * B + c = q1  BY <1>5, <1>11
<1>15. q1 * B + d = v  BY <1>4, <1>11
<1>16. QED BY <1>1, <1>13, <1>14, <1>15

(* So it is read as it was written. *)
LEMMA NumberPut ==
  ASSUME archive \in Seq(Byte), NEW p \in Nat, NEW v \in Nat, v < WordBase,
         Put(archive, p, Word(v))
  PROVE  Number(p) = v /\ p + 4 <= Len(archive)
<1>1. Len(Word(v)) = 4  BY WordTyped
<1>2. p + 4 <= Len(archive) /\ \A i \in 1 .. 4 : archive[p + i] = Word(v)[i]
  BY <1>1 DEF Put
<1>3. PICK a, b, c, d : a = Word(v)[1] /\ b = Word(v)[2] /\ c = Word(v)[3] /\ d = Word(v)[4]
  OBVIOUS
<1>4. archive[p + 1] = a /\ archive[p + 2] = b /\ archive[p + 3] = c /\ archive[p + 4] = d
  BY <1>2, <1>3
<1>5. Number(p) = ((a * ByteBase + b) * ByteBase + c) * ByteBase + d  BY <1>4 DEF Number
<1>6. ((a * ByteBase + b) * ByteBase + c) * ByteBase + d = v  BY <1>3, WordDigits
<1>7. QED BY <1>2, <1>5, <1>6

(* A checksum is written in a word. *)
LEMMA ChecksumInWord ==
  ASSUME NEW s \in Seq(Byte) PROVE EachByte(s) \in Nat /\ EachByte(s) < WordBase
<1>1. PICK f : Exact(s, f) /\ EachByte(s) = f[Len(s)][2] * HalfBase + f[Len(s)][1]
  BY ExactExists
<1>2. Len(s) \in 0 .. Len(s)  OBVIOUS
<1>3. f[Len(s)] \in Rest \X Rest  BY <1>1, <1>2, ExactTyped
<1>4. PICK x \in Rest, y \in Rest : x = f[Len(s)][1] /\ y = f[Len(s)][2]  BY <1>3
<1>5. PICK H \in Nat \ {0} : H = HalfBase  BY ByteFacts
<1>6. x \in Nat /\ y \in Nat /\ x <= H - 1 /\ y <= H - 1
  <2>1. BASE \in Nat /\ BASE < H  BY <1>5, BaseFacts
  <2>2. x \in 0 .. BASE - 1 /\ y \in 0 .. BASE - 1  BY DEF Rest
  <2>3. QED BY <2>1, <2>2
<1>7. y * H <= (H - 1) * H /\ y * H \in Nat /\ (H - 1) * H \in Nat
  <2>1. H - 1 \in Nat  OBVIOUS
  <2>2. QED BY <1>6, <2>1, MulMono
<1>8. (H - 1) * H = H * H - H  OBVIOUS
<1>9. WordBase = H * H  BY <1>5 DEF WordBase
<1>10. EachByte(s) = y * H + x  BY <1>1, <1>4, <1>5
<1>11. H * H \in Nat  OBVIOUS
<1>12. QED BY <1>6, <1>7, <1>8, <1>9, <1>10, <1>11

-----------------------------------------------------------------------------
(* The archive that do_compress writes.                                    *)


(* Where a block begins: in the archive and in the file.                   *)
Place == [at : Nat, pos : Nat]

(* What is written for a block: its bytes, or fewer that encode them.      *)
Carries(payload, t) ==
  \/ payload = t
  \/ /\ Len(payload) < Len(t)
     /\ \E items : Encoded(items, t) /\ payload = Block(items)

Segment(s, f, a, b) ==
  /\ a.pos < b.pos /\ b.pos <= Len(f) /\ b.pos - a.pos <= block_size
  /\ \E payload \in Seq(Byte) :
       /\ Carries(payload, SubSeq(f, a.pos + 1, b.pos))
       /\ Put(s, a.at, Word(b.pos - a.pos)) /\ Put(s, a.at + 4, Word(Len(payload)))
       /\ Put(s, a.at + 8, payload) /\ b.at = a.at + 8 + Len(payload)

(* The archive s begins with the blocks of the file f up to the last place. *)
Blocks(s, f, S) ==
  /\ S \in Seq(Place) /\ Len(S) >= 1
  /\ Put(s, 0, Header) /\ S[1] = [at |-> Len(Header), pos |-> 0]
  /\ \A i \in 1 .. Len(S) - 1 : Segment(s, f, S[i], S[i + 1])
Begun(s, f, p) == \E S : Blocks(s, f, S) /\ S[Len(S)] = [at |-> Len(s), pos |-> p]

(* All of the file, the end mark and the checksum.                         *)
Whole(s, f, S) ==
  /\ Blocks(s, f, S)
  /\ S[Len(S)].pos = Len(f)
  /\ Put(s, S[Len(S)].at, Word(0)) /\ Put(s, S[Len(S)].at + 4, Word(EachByte(f)))

LEMMA BegunAtFirst ==
  ASSUME NEW f PROVE Begun(Header, f, 0)
<1> DEFINE m == [at |-> Len(Header), pos |-> 0]
<1>1. Header \in Seq(Byte) /\ Len(Header) \in Nat  BY Typing
<1>2. m \in Place  BY <1>1 DEF Place
<1> HIDE DEF m
<1>3. <<m>> \in Seq(Place)  BY <1>2
<1>4. PICK S \in Seq(Place) : S = <<m>>  BY <1>3
<1>5. Len(S) = 1 /\ S[1] = m /\ S[Len(S)] = m /\ 1 .. Len(S) - 1 = {}  BY <1>4
<1>6. Put(Header, 0, Header)  BY <1>1 DEF Put
<1>7. Blocks(Header, f, S)  BY <1>5, <1>6 DEF Blocks, m
<1>8. QED BY <1>5, <1>7 DEF Begun, m

LEMMA SegmentMore ==
  ASSUME NEW s \in Seq(Byte), NEW more \in Seq(Byte), NEW f, NEW a \in Place, NEW b \in Place,
         Segment(s, f, a, b)
  PROVE  Segment(s \o more, f, a, b)
<1>1. PICK payload \in Seq(Byte) :
        /\ Carries(payload, SubSeq(f, a.pos + 1, b.pos))
        /\ Put(s, a.at, Word(b.pos - a.pos)) /\ Put(s, a.at + 4, Word(Len(payload)))
        /\ Put(s, a.at + 8, payload) /\ b.at = a.at + 8 + Len(payload)
  BY DEF Segment
<1>2. /\ a.pos < b.pos /\ b.pos <= Len(f) /\ b.pos - a.pos <= block_size  BY DEF Segment
<1>3. a.at \in Nat /\ a.at + 4 \in Nat /\ a.at + 8 \in Nat /\ b.pos - a.pos \in Nat
  BY <1>2 DEF Place
<1>4. Word(b.pos - a.pos) \in Seq(Byte) /\ Word(Len(payload)) \in Seq(Byte)
  BY <1>3, WordTyped
<1>5. /\ Put(s \o more, a.at, Word(b.pos - a.pos))
      /\ Put(s \o more, a.at + 4, Word(Len(payload)))
      /\ Put(s \o more, a.at + 8, payload)
  BY <1>1, <1>3, <1>4, PutMore
<1>6. QED BY <1>1, <1>2, <1>5 DEF Segment

LEMMA BlocksMore ==
  ASSUME NEW s \in Seq(Byte), NEW more \in Seq(Byte), NEW f, NEW S, Blocks(s, f, S)
  PROVE  Blocks(s \o more, f, S)
<1>1. /\ S \in Seq(Place) /\ Len(S) >= 1
      /\ Put(s, 0, Header) /\ S[1] = [at |-> Len(Header), pos |-> 0]
      /\ \A i \in 1 .. Len(S) - 1 : Segment(s, f, S[i], S[i + 1])
  BY DEF Blocks
<1>2. Put(s \o more, 0, Header)  BY <1>1, Typing, PutMore
<1>3. ASSUME NEW i \in 1 .. Len(S) - 1 PROVE Segment(s \o more, f, S[i], S[i + 1])
  <2>1. S[i] \in Place /\ S[i + 1] \in Place  BY <1>1
  <2>2. QED BY <1>1, <2>1, SegmentMore
<1>4. QED BY <1>1, <1>2, <1>3 DEF Blocks

LEMMA BytesTogether ==
  ASSUME NEW a \in Seq(Byte), NEW b \in Seq(Byte), NEW c \in Seq(Byte)
  PROVE  (a \o b) \o c = a \o (b \o c) /\ a \o b \in Seq(Byte)
<1>1. (a \o b) \o c = a \o (b \o c)  BY ConcatAssociative
<1>2. a \o b \in Seq(Byte)  BY ConcatProperties
<1>3. QED BY <1>1, <1>2

(* Two words and more bytes are put at the end.                            *)
Three(s, u, v, w) == s \o (u \o (v \o w))
LEMMA PutThree ==
  ASSUME NEW s \in Seq(Byte), NEW u \in Seq(Byte), NEW v \in Seq(Byte), NEW w \in Seq(Byte),
         Len(u) = 4, Len(v) = 4, NEW z, z = Three(s, u, v, w)
  PROVE  /\ z \in Seq(Byte) /\ Len(z) = Len(s) + 8 + Len(w)
         /\ Put(z, Len(s), u) /\ Put(z, Len(s) + 4, v) /\ Put(z, Len(s) + 8, w)
<1>a. PICK x \in Seq(Byte) : x = v \o w
  <2>1. v \o w \in Seq(Byte)  BY BytesTogether
  <2>2. QED BY <2>1
<1>b. PICK more \in Seq(Byte) : more = u \o x
  <2>1. u \o x \in Seq(Byte)  BY BytesTogether
  <2>2. QED BY <2>1
<1>c. z = s \o more  BY <1>a, <1>b DEF Three
<1>1. Len(x) = Len(v) + Len(w)  BY <1>a, ConcatProperties
<1>2. Len(more) = Len(u) + Len(x)  BY <1>b, ConcatProperties
<1>3. z \in Seq(Byte) /\ Len(z) = Len(s) + Len(more)  BY <1>c, ConcatProperties
<1>4. PICK at \in Nat : at = Len(s)  OBVIOUS
<1>5. Put(z, at, more)  BY <1>c, <1>4, PutLast
<1>6. Put(z, at, u) /\ Put(z, at + 4, x)
  <2>1. Put(z, at, u \o x)  BY <1>b, <1>5
  <2>2. Put(z, at, u) /\ Put(z, at + Len(u), x)  BY <1>3, <2>1, PutParts
  <2>3. QED BY <2>2
<1>7. PICK a4 \in Nat : a4 = at + 4 /\ a4 + 4 = at + 8  OBVIOUS
<1>8. Put(z, a4, v) /\ Put(z, a4 + 4, w)
  <2>1. Put(z, a4, v \o w)  BY <1>a, <1>6, <1>7
  <2>2. Put(z, a4, v) /\ Put(z, a4 + Len(v), w)  BY <1>3, <2>1, PutParts
  <2>3. QED BY <2>2
<1>9. Len(w) \in Nat /\ Len(z) = Len(s) + 8 + Len(w)  BY <1>1, <1>2, <1>3
<1>10. QED BY <1>3, <1>4, <1>6, <1>7, <1>8, <1>9

LEMMA BegunNext ==
  ASSUME NEW s \in Seq(Byte), NEW f, NEW p \in Nat, Begun(s, f, p), NEW q \in Nat,
         p < q, q <= Len(f), q - p <= block_size,
         NEW payload \in Seq(Byte), Carries(payload, SubSeq(f, p + 1, q)),
         NEW more, more = Word(q - p) \o (Word(Len(payload)) \o payload)
  PROVE  Begun(s \o more, f, q)
<1>1. PICK S : Blocks(s, f, S) /\ S[Len(S)] = [at |-> Len(s), pos |-> p]  BY DEF Begun
<1>2. PICK u \in Seq(Byte) : u = Word(q - p) /\ Len(u) = 4
  <2>1. q - p \in Nat  OBVIOUS
  <2>2. QED BY <2>1, WordTyped
<1>3. PICK v \in Seq(Byte) : v = Word(Len(payload)) /\ Len(v) = 4
  <2>1. Len(payload) \in Nat  OBVIOUS
  <2>2. QED BY <2>1, WordTyped
<1>4. PICK x \in Seq(Byte) : x = v \o payload /\ more = u \o x /\ more \in Seq(Byte)
  <2>1. v \o payload \in Seq(Byte)  BY BytesTogether
  <2>2. PICK x \in Seq(Byte) : x = v \o payload  BY <2>1
  <2>3. u \o x \in Seq(Byte)  BY BytesTogether
  <2>4. QED BY <1>2, <1>3, <2>2, <2>3
<1>6. PICK z : z = s \o more /\ z = Three(s, u, v, payload)  BY <1>4 DEF Three
<1>5. /\ Len(z) = Len(s) + 8 + Len(payload)
      /\ Put(z, Len(s), u) /\ Put(z, Len(s) + 4, v) /\ Put(z, Len(s) + 8, payload)
  <2>1. Len(u) = 4 /\ Len(v) = 4 /\ z = Three(s, u, v, payload)  BY <1>2, <1>3, <1>6
  <2>2. QED BY <2>1, PutThree
<1>7. Blocks(z, f, S)  BY <1>1, <1>4, <1>6, BlocksMore
<1>8. S \in Seq(Place) /\ Len(S) \in Nat /\ Len(S) >= 1 /\ Len(s) \in Nat /\ Len(payload) \in Nat
  BY <1>7 DEF Blocks
<1> DEFINE b == [at |-> Len(s) + 8 + Len(payload), pos |-> q]
<1>9. b \in Place /\ b.pos = q /\ b.at = Len(s) + 8 + Len(payload)  BY <1>8 DEF Place
<1>10. S[Len(S)].at = Len(s) /\ S[Len(S)].pos = p  BY <1>1
<1> HIDE DEF b
<1>11. Segment(z, f, S[Len(S)], b)  BY <1>2, <1>3, <1>5, <1>9, <1>10 DEF Segment
<1>12. PICK U : U = Append(S, b)  OBVIOUS
<1>13. /\ U \in Seq(Place) /\ Len(U) = Len(S) + 1 /\ U[Len(S) + 1] = b
       /\ \A i \in 1 .. Len(S) : U[i] = S[i]
  BY <1>8, <1>9, <1>12
<1>14. ASSUME NEW i \in 1 .. Len(U) - 1 PROVE Segment(z, f, U[i], U[i + 1])
  <2>1. i \in 1 .. Len(S)  BY <1>8, <1>13
  <2>2. CASE i = Len(S)  BY <1>11, <1>13, <2>1, <2>2
  <2>3. CASE i # Len(S)
    <3>1. i \in 1 .. Len(S) - 1 /\ i + 1 \in 1 .. Len(S)  BY <1>8, <2>1, <2>3
    <3>2. Segment(z, f, S[i], S[i + 1])  BY <1>7, <3>1 DEF Blocks
    <3>3. QED BY <1>13, <2>1, <3>1, <3>2
  <2>4. QED BY <2>2, <2>3
<1>15. U[1] = S[1] /\ Len(U) >= 1  BY <1>8, <1>13
<1>16. Blocks(z, f, U)  BY <1>7, <1>13, <1>14, <1>15 DEF Blocks
<1>17. U[Len(U)] = [at |-> Len(z), pos |-> q]  BY <1>5, <1>6, <1>13 DEF b
<1>18. QED BY <1>6, <1>16, <1>17 DEF Begun

LEMMA BegunEnds ==
  ASSUME NEW s \in Seq(Byte), NEW f \in Seq(Byte), Begun(s, f, Len(f)),
         NEW more, more = Word(0) \o Word(EachByte(f))
  PROVE  \E S : Whole(s \o more, f, S)
<1>1. PICK S : Blocks(s, f, S) /\ S[Len(S)] = [at |-> Len(s), pos |-> Len(f)]  BY DEF Begun
<1>2. PICK u \in Seq(Byte) : u = Word(0) /\ Len(u) = 4  BY WordTyped
<1>3. PICK v \in Seq(Byte) : v = Word(EachByte(f)) /\ Len(v) = 4
  BY ChecksumInWord, WordTyped
<1>4. PICK w \in Seq(Byte) : w = <<>>
  <2>1. <<>> \in Seq(Byte)  BY EmptySeq
  <2>2. QED BY <2>1
<1>5. v \o w = v  BY <1>4, ConcatEmptySeq
<1>6. PICK x \in Seq(Byte) : x = v \o w /\ more = u \o x /\ more \in Seq(Byte)
  <2>1. u \o v \in Seq(Byte)  BY BytesTogether
  <2>2. QED BY <1>2, <1>3, <1>5, <2>1
<1>8. PICK z : z = s \o more /\ z = Three(s, u, v, w)  BY <1>6 DEF Three
<1>7. Put(z, Len(s), u) /\ Put(z, Len(s) + 4, v)
  <2>1. Len(u) = 4 /\ Len(v) = 4 /\ z = Three(s, u, v, w)  BY <1>2, <1>3, <1>8
  <2>2. QED BY <2>1, PutThree
<1>9. Blocks(z, f, S)  BY <1>1, <1>6, <1>8, BlocksMore
<1>10. S[Len(S)].at = Len(s) /\ S[Len(S)].pos = Len(f)  BY <1>1
<1>11. Whole(z, f, S)  BY <1>2, <1>3, <1>7, <1>9, <1>10 DEF Whole
<1>12. QED BY <1>8, <1>11

-----------------------------------------------------------------------------
(* What do_decompress reads of it.                                         *)


(* A block is never empty: the end mark has a byte. *)
LEMMA BlockNotEmpty ==
  ASSUME NEW items, NEW t \in Seq(Byte), Encoded(items, t), Len(t) <= EofPrefix * ByteBase,
         NEW s, s = Block(items)
  PROVE  s \in Seq(Byte) /\ Len(s) >= 1 /\ Len(s) \in Nat
<1>1. items \in Seq(Item)  BY DEF Encoded
<1>2. PICK T : Ended(items, t, T)  BY DEF Encoded
<1>3. Len(T) >= 1 /\ Len(T) \in Nat  BY <1>2 DEF Ended, Trail
<1>4. Tokens(items, t, T, 1)  BY <1>1, <1>2, <1>3 DEF Tokens
<1>5. items[Len(items)] = <<"byte", ByteBase - 1>>  BY <1>4, LastItem
<1>6. Len(items) >= 1 /\ Len(items) \in Nat
  <2>1. Len(items) = T[Len(T)].at + Len(EndItems)  BY <1>2 DEF Ended
  <2>2. Tokens(items, t, T, Len(T))  BY <1>3, <1>4 DEF Tokens
  <2>3. T[Len(T)].at \in Nat  BY <2>2, MarkTyped
  <2>4. EndItems \in Seq(Item) /\ Len(EndItems) >= 1  BY EndItemsTyped
  <2>5. QED BY <2>1, <2>3, <2>4
<1>7. PICK d : d = [bb |-> 0, ilen |-> 0]  OBVIOUS
<1>8. d.ilen = 0  BY <1>7
<1>9. Fed(items, s, d, 0)  BY <1>1, <1>7, FedStart
<1>10. d.ilen < Len(s)  BY <1>1, <1>5, <1>6, <1>9, FedMore
<1>11. s \in Seq(Byte)  BY <1>1, BlockTyped
<1>12. Len(s) \in Nat  BY <1>11
<1>13. QED BY <1>8, <1>10, <1>11, <1>12

LEMMA SizeFits ==
  ASSUME NEW n \in Nat, n <= block_size
  PROVE  n <= EofPrefix * ByteBase /\ n < WordBase
<1>1. /\ block_size <= EofPrefix * ByteBase /\ block_size <= MaxBlockSize
      /\ MaxBlockSize < WordBase /\ block_size \in Nat /\ MaxBlockSize \in Nat
  BY PackAssumption, Typing
<1>2. EofPrefix * ByteBase \in Nat /\ WordBase \in Nat  BY ByteFacts
<1>3. QED BY <1>1, <1>2

(* The places of the blocks, and the text of one. *)
LEMMA PlaceTyped ==
  ASSUME NEW s, NEW f, NEW S, Blocks(s, f, S), NEW n \in 1 .. Len(S)
  PROVE  S[n] \in Place /\ S[n].at \in Nat /\ S[n].pos \in Nat /\ Len(S) \in Nat /\ Len(S) >= 1
<1>1. S \in Seq(Place) /\ Len(S) >= 1  BY DEF Blocks
<1>2. S[n] \in Place  BY <1>1
<1>3. QED BY <1>1, <1>2 DEF Place

LEMMA PieceTyped ==
  ASSUME file \in Seq(Byte), NEW p \in Nat, NEW q \in Nat, p <= q, q <= Len(file),
         NEW t, t = SubSeq(file, p + 1, q)
  PROVE  t \in Seq(Byte) /\ Len(t) = q - p /\ SubSeq(file, 1, p) \in Seq(Byte)
         /\ SubSeq(file, 1, q) = SubSeq(file, 1, p) \o t /\ Len(SubSeq(file, 1, p)) = p
<1>1. /\ SubSeq(file, 1, p) \in Seq(Byte) /\ SubSeq(file, p + 1, q) \in Seq(Byte)
      /\ Len(SubSeq(file, p + 1, q)) = q - p
      /\ SubSeq(file, 1, q) = SubSeq(file, 1, p) \o SubSeq(file, p + 1, q)
  BY SubSeqJoin
<1>2. Len(SubSeq(file, 1, p)) = p
  <2>1. \A k \in 1 .. p : file[k] \in Byte
    <3>1. \A k \in 1 .. p : k \in 1 .. Len(file)  OBVIOUS
    <3>2. QED BY <3>1
  <2>2. Len(SubSeq(file, 1, p)) = IF 1 <= p THEN p - 1 + 1 ELSE 0  BY <2>1, SubSeqProperties
  <2>3. QED BY <2>2
<1>3. QED BY <1>1, <1>2

(* A block of the archive, as do_decompress reads it. *)
ReadsBlock(t, payload) ==
  /\ payload \in Seq(Byte) /\ Carries(payload, t)
  /\ Has(4) /\ Has(8) /\ Number(fi) = Len(t) /\ Number(fi + 4) = Len(payload)
  /\ Has(8 + Len(payload)) /\ Payload(Len(payload)) = payload
  /\ Len(payload) \in Nat /\ Len(t) \in Nat
  /\ Len(payload) >= 1 /\ Len(payload) <= Len(t) /\ Len(t) <= block_size

LEMMA ReadSegment ==
  ASSUME archive \in Seq(Byte), file \in Seq(Byte), NEW S, Whole(archive, file, S),
         NEW n \in 1 .. Len(S) - 1, fi = S[n].at,
         NEW t, t = SubSeq(file, S[n].pos + 1, S[n + 1].pos)
  PROVE  \E payload : ReadsBlock(t, payload) /\ S[n + 1].at = fi + 8 + Len(payload)
<1>1. Blocks(archive, file, S) /\ Segment(archive, file, S[n], S[n + 1])
  BY DEF Whole, Blocks
<1>2. PICK a, b : a = S[n] /\ b = S[n + 1]  OBVIOUS
<1>3. a.at \in Nat /\ a.pos \in Nat /\ b.at \in Nat /\ b.pos \in Nat /\ Len(S) \in Nat
  <2>1. S \in Seq(Place)  BY <1>1 DEF Blocks
  <2>2. n \in 1 .. Len(S) /\ n + 1 \in 1 .. Len(S) /\ Len(S) \in Nat  BY <2>1
  <2>3. QED BY <1>1, <1>2, <2>2, PlaceTyped
<1>4. a.pos < b.pos /\ b.pos <= Len(file) /\ b.pos - a.pos <= block_size
  BY <1>1, <1>2 DEF Segment
<1>5. PICK payload \in Seq(Byte) :
        /\ Carries(payload, SubSeq(file, a.pos + 1, b.pos))
        /\ Put(archive, a.at, Word(b.pos - a.pos)) /\ Put(archive, a.at + 4, Word(Len(payload)))
        /\ Put(archive, a.at + 8, payload) /\ b.at = a.at + 8 + Len(payload)
  BY <1>1, <1>2 DEF Segment
<1>6. t \in Seq(Byte) /\ Len(t) = b.pos - a.pos /\ Carries(payload, t)
  <2>1. t = SubSeq(file, a.pos + 1, b.pos)  BY <1>2
  <2>2. Carries(payload, t)  BY <1>5, <2>1
  <2>3. a.pos <= b.pos  BY <1>3, <1>4
  <2>4. PICK p \in Nat, q \in Nat : p = a.pos /\ q = b.pos  BY <1>3
  <2>5. t \in Seq(Byte) /\ Len(t) = q - p  BY <1>4, <2>1, <2>3, <2>4, PieceTyped
  <2>6. QED BY <2>2, <2>4, <2>5
<1>7. Len(payload) \in Nat /\ Len(payload) >= 1 /\ Len(payload) <= Len(t) /\ Len(t) \in Nat
  <2>1. Len(payload) \in Nat /\ Len(t) \in Nat /\ Len(t) >= 1  BY <1>3, <1>4, <1>6
  <2>2. CASE payload = t  BY <2>1, <2>2
  <2>3. ASSUME Len(payload) < Len(t), NEW items, Encoded(items, t), payload = Block(items)
        PROVE  Len(payload) >= 1 /\ Len(payload) <= Len(t)
    <3>1. Len(t) <= EofPrefix * ByteBase  BY <1>4, <1>6, <2>1, SizeFits
    <3>2. Len(payload) >= 1  BY <1>6, <2>3, <3>1, BlockNotEmpty
    <3>3. PICK x \in Nat, y \in Nat : x = Len(payload) /\ y = Len(t)  BY <2>1
    <3>4. x < y  BY <2>3, <3>3
    <3>5. x <= y  BY <3>4
    <3>6. QED BY <3>2, <3>3, <3>5
  <2>4. QED BY <1>6, <2>1, <2>2, <2>3 DEF Carries
<1>8. PICK at \in Nat : at = fi /\ at = a.at  BY <1>2, <1>3
<1>9. Len(t) < WordBase /\ Len(payload) < WordBase
  <2>1. block_size \in Nat  BY Typing
  <2>2. Len(t) <= block_size /\ Len(payload) <= block_size  BY <1>4, <1>6, <1>7, <2>1
  <2>3. QED BY <1>7, <2>2, SizeFits
<1>10. Number(at) = Len(t)
  <2>1. Put(archive, at, Word(Len(t)))  BY <1>5, <1>6, <1>8
  <2>2. QED BY <1>7, <1>9, <2>1, NumberPut
<1>11. Number(at + 4) = Len(payload)
  <2>1. PICK a4 \in Nat : a4 = at + 4  OBVIOUS
  <2>2. Put(archive, a4, Word(Len(payload)))  BY <1>5, <1>8, <2>1
  <2>3. Number(a4) = Len(payload)  BY <1>7, <1>9, <2>2, NumberPut
  <2>4. QED BY <2>1, <2>3
<1>12. /\ at + 8 + Len(payload) <= Len(archive)
       /\ \A i \in 1 .. Len(payload) : archive[at + 8 + i] = payload[i]
  BY <1>5, <1>8 DEF Put
<1>13. SubSeq(archive, at + 9, at + 8 + Len(payload)) = payload
  <2>1. PICK L \in Nat : L = Len(payload)  BY <1>7
  <2>2. PICK m \in Int, k \in Int : m = at + 9 /\ k = at + 8 + L  OBVIOUS
  <2>3. \A i \in m .. k : archive[i] \in Byte
    <3>1. \A i \in m .. k : i \in 1 .. Len(archive)  BY <1>12, <2>1, <2>2
    <3>2. QED BY <3>1
  <2>4. PICK w \in Seq(Byte) : w = SubSeq(archive, m, k)  BY <2>3, SubSeqProperties
  <2>5. /\ Len(w) = IF m <= k THEN k - m + 1 ELSE 0
        /\ \A i \in 1 .. k - m + 1 : w[i] = archive[m + i - 1]
    BY <2>3, <2>4, SubSeqProperties
  <2>6. Len(w) = L /\ k - m + 1 = L  BY <2>2, <2>5
  <2>7. ASSUME NEW i \in 1 .. L PROVE w[i] = payload[i]
    <3>1. w[i] = archive[m + i - 1] /\ m + i - 1 = at + 8 + i  BY <2>2, <2>5, <2>6
    <3>2. QED BY <1>12, <2>1, <3>1
  <2>8. w = payload  BY <2>1, <2>6, <2>7, SeqEqual
  <2>9. QED BY <2>1, <2>2, <2>4, <2>8
<1>14. Has(4) /\ Has(8) /\ Has(8 + Len(payload))
  <2>1. Len(archive) \in Nat  OBVIOUS
  <2>2. QED BY <1>7, <1>8, <1>12, <2>1 DEF Has
<1>15. Payload(Len(payload)) = payload  BY <1>8, <1>13 DEF Payload
<1>16. Len(t) <= block_size  BY <1>4, <1>6
<1>17. ReadsBlock(t, payload)
  BY <1>6, <1>7, <1>8, <1>10, <1>11, <1>14, <1>15, <1>16 DEF ReadsBlock
<1>18. QED BY <1>2, <1>5, <1>8, <1>17

LEMMA ReadEnd ==
  ASSUME archive \in Seq(Byte), file \in Seq(Byte), NEW S, Whole(archive, file, S),
         fi = S[Len(S)].at
  PROVE  Has(4) /\ Has(8) /\ Number(fi) = 0 /\ Number(fi + 4) = EachByte(file)
<1>1. Blocks(archive, file, S) /\ Put(archive, fi, Word(0)) /\ Put(archive, fi + 4, Word(EachByte(file)))
  BY DEF Whole
<1>2. S \in Seq(Place) /\ Len(S) \in 1 .. Len(S)  BY <1>1 DEF Blocks
<1>3. fi \in Nat  BY <1>1, <1>2, PlaceTyped
<1>4. PICK a4 \in Nat : a4 = fi + 4  BY <1>3
<1>5. 0 \in Nat /\ 0 < WordBase  BY ByteFacts
<1>6. Number(fi) = 0  BY <1>1, <1>3, <1>5, NumberPut
<1>7. EachByte(file) \in Nat /\ EachByte(file) < WordBase  BY ChecksumInWord
<1>8. PICK v \in Nat : v = EachByte(file) /\ v < WordBase  BY <1>7
<1>9. Put(archive, a4, Word(v))  BY <1>1, <1>4, <1>8
<1>10. Number(a4) = v /\ a4 + 4 <= Len(archive)  BY <1>8, <1>9, NumberPut
<1>11. Has(4) /\ Has(8)
  <2>1. Len(archive) \in Nat  OBVIOUS
  <2>2. QED BY <1>3, <1>4, <1>10, <2>1 DEF Has
<1>12. QED BY <1>4, <1>6, <1>8, <1>10, <1>11

LEMMA ReadFirst ==
  ASSUME archive \in Seq(Byte), fi \in Nat, Put(archive, 0, Header)
  PROVE  /\ SubSeq(archive, 1, Len(magic)) = magic /\ Len(Header) <= Len(archive)
         /\ Number(MethodAt + 2) = block_size /\ archive[MethodAt + 1] = MethodByte
<1>1. PICK u \in Seq(Byte) : u = Word(1) /\ Len(u) = 4  BY WordTyped
<1>2. block_size \in Nat /\ block_size < WordBase /\ Len(magic) \in Nat
  BY Typing, PackAssumption, ByteFacts
<1>3. PICK w \in Seq(Byte) : w = Word(block_size) /\ Len(w) = 4  BY <1>2, WordTyped
<1>4. PICK v \in Seq(Byte) : v = <<MethodByte, LevelByte>> /\ Len(v) = 2 /\ v[1] = MethodByte
  <2>1. <<MethodByte, LevelByte>> \in Seq(Byte)  BY PackAssumption
  <2>2. QED BY <2>1
<1>5. magic \in Seq(Byte)  BY PackAssumption
<1>6. PICK a \in Seq(Byte) : a = magic \o u /\ Len(a) = Len(magic) + 4
  <2>1. magic \o u \in Seq(Byte) /\ Len(magic \o u) = Len(magic) + Len(u)
    BY <1>5, ConcatProperties
  <2>2. QED BY <1>1, <2>1
<1>7. PICK b \in Seq(Byte) : b = a \o v /\ Len(b) = Len(magic) + 6
  <2>1. a \o v \in Seq(Byte) /\ Len(a \o v) = Len(a) + Len(v)  BY ConcatProperties
  <2>2. PICK b \in Seq(Byte) : b = a \o v  BY <2>1
  <2>3. Len(b) = Len(a) + Len(v)  BY <2>1, <2>2
  <2>4. Len(a) + Len(v) = Len(magic) + 6  BY <1>2, <1>4, <1>6
  <2>5. QED BY <2>2, <2>3, <2>4
<1>8. Header = b \o w  BY <1>1, <1>3, <1>4, <1>6, <1>7 DEF Header
<1>9. 0 \in Nat /\ Put(archive, 0, b \o w)  BY <1>8
<1>10. Put(archive, 0, b) /\ Put(archive, 0 + Len(b), w)  BY <1>9, PutParts
<1>11. Put(archive, 0, a \o v)  BY <1>7, <1>10
<1>12. Put(archive, 0, a) /\ Put(archive, 0 + Len(a), v)  BY <1>9, <1>11, PutParts
<1>13. Put(archive, 0, magic \o u)  BY <1>6, <1>12
<1>14. Put(archive, 0, magic)  BY <1>5, <1>9, <1>13, PutParts
<1>15. PICK p \in Nat : p = MethodAt + 2 /\ p = 0 + Len(b)  BY <1>2, <1>7 DEF MethodAt
<1>16. Number(MethodAt + 2) = block_size
  <2>1. Put(archive, p, Word(block_size))  BY <1>3, <1>10, <1>15
  <2>2. Number(p) = block_size  BY <1>2, <2>1, NumberPut
  <2>3. QED BY <1>15, <2>2
<1>17. archive[MethodAt + 1] = MethodByte
  <2>1. archive[0 + Len(a) + 1] = v[1]  BY <1>4, <1>12 DEF Put
  <2>2. 0 + Len(a) + 1 = MethodAt + 1  BY <1>2, <1>6 DEF MethodAt
  <2>3. QED BY <1>4, <2>1, <2>2
<1>18. Len(Header) <= Len(archive)
  <2>1. 0 + Len(Header) <= Len(archive)  BY DEF Put
  <2>2. Len(Header) \in Nat  BY Typing
  <2>3. QED BY <2>1, <2>2
<1>19. SubSeq(archive, 1, Len(magic)) = magic
  <2>1. PICK L \in Nat : L = Len(magic)  BY <1>2
  <2>2. 0 + L <= Len(archive) /\ \A i \in 1 .. L : archive[0 + i] = magic[i]
    BY <1>14, <2>1 DEF Put
  <2>3. L <= Len(archive) /\ \A i \in 1 .. L : archive[i] = magic[i]  BY <2>2
  <2>4. \A i \in 1 .. L : archive[i] \in Byte
    <3>1. \A i \in 1 .. L : i \in 1 .. Len(archive)  BY <2>3
    <3>2. QED BY <3>1
  <2>a. SubSeq(archive, 1, L) \in Seq(Byte)  BY <2>4, SubSeqProperties
  <2>5. PICK x \in Seq(Byte) : x = SubSeq(archive, 1, L)  BY <2>a
  <2>6. /\ Len(x) = IF 1 <= L THEN L - 1 + 1 ELSE 0
        /\ \A i \in 1 .. L - 1 + 1 : x[i] = archive[1 + i - 1]
    BY <2>4, <2>5, SubSeqProperties
  <2>7. Len(x) = L /\ L - 1 + 1 = L /\ \A i \in 1 .. L : 1 + i - 1 = i  BY <2>6
  <2>8. \A i \in 1 .. L : x[i] = magic[i]  BY <2>3, <2>6, <2>7
  <2>9. x = magic  BY <1>5, <2>1, <2>7, <2>8, SeqEqual
  <2>10. QED BY <2>1, <2>5, <2>9
<1>20. QED BY <1>16, <1>17, <1>18, <1>19

-----------------------------------------------------------------------------
(* The two runs of uclpack, and simple.                                    *)


(* uclpack, with an archive that is not damaged.                           *)
Reading(S, n) ==
  /\ Whole(archive, file, S) /\ header_size = block_size
  /\ fo = SubSeq(file, 1, S[n].pos)

(* The block that begins at place n is decompressed.                       *)
InBlock(S, n) ==
  /\ Reading(S, n) /\ fi = S[n + 1].at /\ out_len = S[n + 1].pos - S[n].pos
  /\ \E t, items, T, m :
       t = SubSeq(file, S[n].pos + 1, S[n + 1].pos) /\ Decodes(items, t, T, m)

Compressing(p) ==
  /\ Begun(archive, file, p) /\ p < fi /\ fi <= Len(file) /\ fi - p <= block_size
  /\ text = SubSeq(file, p + 1, fi)

Written ==
  /\ ppc = "read" => Begun(archive, file, fi)
  /\ ppc = "compress" => \E p \in Nat : Compressing(p)
  /\ ppc = "header" => fi = 0 /\ \E S : Whole(archive, file, S)
  /\ ppc = "sizes" => \E S : \E n \in 1 .. Len(S) : Reading(S, n) /\ fi = S[n].at
  /\ ppc = "decompress" => \E S : \E n \in 1 .. Len(S) - 1 : InBlock(S, n)
  /\ ppc = "end" => r = 2 \/ (r = 0 /\ fo = file)

(* simple: the one block. *)
Single ==
  /\ fo = <<>> /\ Len(file) >= 1 /\ Len(file) <= block_size
  /\ ppc \in {"read", "compress", "decompress", "end"}
  /\ ppc = "read" => fi = 0
  /\ ppc = "compress" => text = file
  /\ ppc = "decompress" =>
       /\ out_len = Len(file) /\ place = Apart
       /\ \E items, T, m : Decodes(items, file, T, m)

(* With IInv, the inductive invariant: what the compressor put so far is   *)
(* tokens of its text, what the archive holds is segments of the file, and *)
(* the decompressor is at one of their tokens.                             *)
WInv ==
  /\ EInv /\ client \in {"uclpack", "simple", "damaged"}
  /\ client = "uclpack" /\ hit = 0 => Written
  /\ client = "simple" => Single

(* Where a block is decompressed in place, no byte of it is overwritten    *)
(* before it is read.                                                      *)
NotOvertaken == client = "uclpack" => NoOvertake

LEMMA InitWritten == Init => WInv
<1> SUFFICES ASSUME Init PROVE WInv  OBVIOUS
<1>1. EInv  BY IdleEncodes DEF Init
<1>2. ASSUME client = "uclpack" PROVE Written
  <2>1. archive = Header /\ ppc = "read" /\ fi = 0
    BY <1>2 DEF Init, PackInit, SimpleInit, DamagedInit
  <2>2. Begun(Header, file, 0)  BY BegunAtFirst
  <2>3. QED BY <2>1, <2>2 DEF Written
<1>3. ASSUME client = "simple" PROVE Single
  <2>1. file \in Texts /\ ppc = "read" /\ fi = 0 /\ fo = <<>>
    BY <1>3 DEF Init, PackInit, SimpleInit, DamagedInit
  <2>2. Len(file) \in 1 .. block_size  BY <2>1, PackAssumption
  <2>3. QED BY <2>1, <2>2, Typing DEF Single
<1>4. client \in {"uclpack", "simple", "damaged"}
  BY DEF Init, PackInit, SimpleInit, DamagedInit
<1>5. QED BY <1>1, <1>2, <1>3, <1>4 DEF WInv

(* What was read is the next part of the file. *)
LEMMA ReadBlockWrites == ASSUME IInv, WInv, ReadBlock PROVE WInv'
<1> DEFINE S == {fi + block_size, Len(file)}
           e == Min(S)
           t == SubSeq(file, fi + 1, e)
<1>1. /\ file \in Seq(Byte) /\ fi \in Nat /\ fi < Len(file)
      /\ Len(file) \in Nat /\ block_size \in Nat \ {0} /\ ppc = "read"
  BY Typing DEF IInv, PInv, ReadBlock
<1>2. S \in SUBSET Nat /\ S # {}  BY <1>1
<1>3. e \in S /\ \A y \in S : e <= y  BY <1>2, MinOf
<1>4. /\ fi' = fi + Len(t) /\ CompressStart(t) /\ ppc' = "compress"
      /\ UNCHANGED <<dvars, kept, archive, hit, header_size, out_len, fo, r>>
  BY DEF ReadBlock, t, e
<1> HIDE DEF e
<1>5. e \in Nat /\ fi < e /\ e <= Len(file) /\ e <= fi + block_size
      /\ (e = Len(file) \/ e = fi + block_size)
  BY <1>1, <1>3
<1>6. PICK p \in Nat, q \in Nat : p = fi /\ q = e  BY <1>1, <1>5
<1>7. t \in Seq(Byte) /\ Len(t) = q - p
  <2>1. PICK z : z = t  OBVIOUS
  <2>2. p <= q /\ q <= Len(file) /\ z = SubSeq(file, p + 1, q)  BY <1>1, <1>5, <1>6, <2>1
  <2>3. file \in Seq(Byte)  BY <1>1
  <2> HIDE DEF t
  <2>4. z \in Seq(Byte) /\ Len(z) = q - p  BY <2>2, <2>3, PieceTyped
  <2>5. QED BY <2>1, <2>4
<1>8. fi' = q /\ text' = t /\ t = SubSeq(file, p + 1, q)
  BY <1>1, <1>4, <1>6, <1>7 DEF CompressStart
<1> HIDE DEF t
<1>9. EInv'  BY <1>4, <1>7, StartEncodes
<1>10. ASSUME client = "uclpack", hit = 0 PROVE Written'
  <2>1. Begun(archive, file, p)  BY <1>1, <1>6, <1>10 DEF WInv, Written
  <2>2. Begun(archive', file', p)  BY <1>4, <2>1 DEF kept
  <2>3. p < q /\ q <= Len(file) /\ q - p <= block_size  BY <1>1, <1>5, <1>6
  <2>4. Compressing(p)'  BY <1>4, <1>8, <2>2, <2>3 DEF Compressing, kept
  <2>5. QED BY <1>4, <2>4 DEF Written
<1>11. ASSUME client = "simple" PROVE Single'
  <2>1. fi = 0 /\ Len(file) <= block_size /\ fo = <<>> /\ Len(file) >= 1
    BY <1>1, <1>11 DEF WInv, Single
  <2>2. e = Len(file) /\ p = 0  BY <1>1, <1>5, <1>6, <2>1
  <2>3. t = file  BY <1>1, <1>6, <1>8, <2>2, SubSeqFull
  <2>4. text' = file'  BY <1>4, <1>8, <2>3 DEF kept
  <2>5. QED BY <1>4, <2>1, <2>4 DEF Single, kept
<1>12. QED BY <1>4, <1>9, <1>10, <1>11 DEF WInv, kept

LEMMA CompressBlockWrites == ASSUME IInv, WInv, CompressBlock PROVE WInv'
<1>1. Compress /\ ppc = "compress" /\ UNCHANGED <<dvars, pvars>>  BY DEF CompressBlock
<1>2. EInv'  BY <1>1, CompressEncodes DEF IInv, WInv
<1>3. text' = text
  BY <1>1 DEF Compress, Literal, Candidate, LazyStep, CodeMatch, Finish
<1>4. ASSUME client = "uclpack", hit = 0 PROVE Written'
  <2>1. PICK p \in Nat : Compressing(p)  BY <1>1, <1>4 DEF WInv, Written
  <2>2. Begun(archive', file', p)  BY <1>1, <2>1 DEF Compressing, pvars
  <2>3. Compressing(p)'  BY <1>1, <1>3, <2>1, <2>2 DEF Compressing, pvars
  <2>4. QED BY <1>1, <2>3 DEF Written, pvars
<1>5. ASSUME client = "simple" PROVE Single'
  BY <1>1, <1>3, <1>5 DEF WInv, Single, pvars
<1>6. QED BY <1>1, <1>2, <1>4, <1>5 DEF WInv, pvars

(* The block is stored, or its items are in the archive. *)
LEMMA WriteBlockWrites == ASSUME IInv, WInv, WriteBlock PROVE WInv'
<1>1. /\ ppc = "compress" /\ cpc = "done" /\ client = "uclpack"
      /\ UNCHANGED <<cvars, dvars, kept, fi, hit, header_size, out_len, checksum, fo>>
  BY DEF WriteBlock
<1>2. EInv'  BY <1>1, EncoderStays DEF WInv
<1>3. archive \in Seq(Byte) /\ file \in Seq(Byte) /\ fi \in Nat /\ text \in Seq(Byte) /\ out \in Seq(Item)
  BY DEF IInv, PInv, CInv, CType
<1>4. ASSUME hit = 0 PROVE Written'
  <2>1. CASE r' = 2 /\ ppc' = "end"  BY <2>1 DEF Written
  <2>2. ASSUME ppc' = "read", NEW payload \in Seq(Byte), Carries(payload, text),
               archive' = (archive \o Word(Len(text))) \o (Word(Len(payload)) \o payload)
        PROVE  Written'
    <3>1. PICK p \in Nat : Compressing(p)  BY <1>1, <1>4 DEF WInv, Written
    <3>2. PICK q \in Nat : q = fi  BY <1>3
    <3>3. /\ Begun(archive, file, p) /\ p < q /\ q <= Len(file) /\ q - p <= block_size
          /\ text = SubSeq(file, p + 1, q)
      BY <3>1, <3>2 DEF Compressing
    <3>4. Len(text) = q - p  BY <1>3, <3>3, PieceTyped
    <3>5. PICK u \in Seq(Byte) : u = Word(q - p)
      <4>1. q - p \in Nat  BY <3>3
      <4>2. QED BY <4>1, WordTyped
    <3>6. PICK v \in Seq(Byte) : v = Word(Len(payload))  BY WordTyped, Len(payload) \in Nat
    <3>7. PICK x \in Seq(Byte) : x = v \o payload
      <4>1. v \o payload \in Seq(Byte)  BY BytesTogether
      <4>2. QED BY <4>1
    <3>8. archive' = (archive \o u) \o x  BY <2>2, <3>4, <3>5, <3>6, <3>7
    <3>9. (archive \o u) \o x = archive \o (u \o x)
      <4>1. PICK s \in Seq(Byte) : s = archive  BY <1>3
      <4>2. (s \o u) \o x = s \o (u \o x)  BY BytesTogether
      <4>3. QED BY <4>1, <4>2
    <3>10. PICK more : more = u \o x /\ more = Word(q - p) \o (Word(Len(payload)) \o payload)
      BY <3>5, <3>6, <3>7
    <3>11. Carries(payload, SubSeq(file, p + 1, q))  BY <2>2, <3>3
    <3>12. Begun(archive \o more, file, q)  BY <1>3, <3>3, <3>10, <3>11, BegunNext
    <3>13. archive' = archive \o more  BY <3>8, <3>9, <3>10
    <3>14. Begun(archive', file', fi')  BY <1>1, <3>2, <3>12, <3>13 DEF kept
    <3>15. QED BY <2>2, <3>14 DEF Written
  <2>3. PICK p \in Nat : Compressing(p)  BY <1>1, <1>4 DEF WInv, Written
  <2>4. text # <<>>
    <3>1. p <= fi /\ fi <= Len(file) /\ text = SubSeq(file, p + 1, fi) /\ p < fi
      BY <1>3, <2>3 DEF Compressing
    <3>2. Len(text) = fi - p  BY <1>3, <3>1, PieceTyped
    <3>3. Len(text) # 0
      <4>1. PICK k \in Nat : k = fi  BY <1>3
      <4>2. k - p # 0  BY <3>1, <4>1
      <4>3. QED BY <3>2, <4>1, <4>2
    <3>4. Len(<<>>) = 0  OBVIOUS
    <3>5. QED BY <3>3, <3>4
  <2>5. Encoded(out, text)  BY <1>1, <2>4 DEF WInv, EInv
  <2>6. PICK b \in Seq(Byte) : b = Block(out)  BY <1>3, BlockTyped
  <2>7. \/ r' = 2 /\ ppc' = "end"
        \/ /\ ppc' = "read"
           /\ archive' = archive \o Word(Len(text))
                           \o (IF Len(b) < Len(text) THEN Word(Len(b)) \o b
                               ELSE Word(Len(text)) \o text)
    BY <2>6 DEF WriteBlock
  <2>8. CASE ppc' = "read" /\ Len(b) < Len(text)
    <3>1. Carries(b, text)  BY <2>5, <2>6, <2>8 DEF Carries
    <3>2. QED BY <2>2, <2>7, <2>8, <3>1
  <2>9. CASE ppc' = "read" /\ ~(Len(b) < Len(text))
    <3>1. Carries(text, text)  BY DEF Carries
    <3>2. QED BY <1>3, <2>2, <2>7, <2>9, <3>1
  <2>10. QED BY <2>1, <2>7, <2>8, <2>9
<1>5. QED BY <1>1, <1>2, <1>4 DEF WInv, kept

LEMMA WriteEOFWrites == ASSUME IInv, WInv, WriteEOF PROVE WInv'
<1>1. /\ ppc = "read" /\ fi = Len(file)
      /\ archive' = archive \o Word(0) \o Word(checksum) /\ ppc' = "header" /\ fi' = 0
      /\ UNCHANGED <<cvars, dvars, kept, hit, header_size, out_len, checksum, fo, r>>
  BY DEF WriteEOF
<1>2. EInv'  BY <1>1, EncoderStays DEF WInv
<1>3. archive \in Seq(Byte) /\ file \in Seq(Byte)  BY DEF IInv, PInv
<1>4. ASSUME client = "uclpack", hit = 0 PROVE Written'
  <2>1. Begun(archive, file, Len(file))  BY <1>1, <1>4 DEF WInv, Written
  <2>2. checksum = EachByte(file)
    <3>1. checksum = EachByte(SubSeq(file, 1, fi))  BY <1>1, <1>4 DEF IInv, PInv, ChecksumExact
    <3>2. SubSeq(file, 1, fi) = file  BY <1>1, <1>3, SubSeqFull
    <3>3. QED BY <3>1, <3>2
  <2>3. PICK u \in Seq(Byte) : u = Word(0)  BY WordTyped
  <2>4. PICK v \in Seq(Byte) : v = Word(EachByte(file))
    <3>1. EachByte(file) \in Nat  BY <1>3, ChecksumInWord
    <3>2. QED BY <3>1, WordTyped
  <2>5. archive' = (archive \o u) \o v  BY <1>1, <2>2, <2>3, <2>4
  <2>6. (archive \o u) \o v = archive \o (u \o v)  BY <1>3, BytesTogether
  <2>7. PICK more : more = u \o v /\ more = Word(0) \o Word(EachByte(file))  BY <2>3, <2>4
  <2>8. PICK S : Whole(archive \o more, file, S)  BY <1>3, <2>1, <2>7, BegunEnds
  <2>9. Whole(archive', file', S)  BY <1>1, <2>5, <2>6, <2>7, <2>8 DEF kept
  <2>10. QED BY <1>1, <2>9 DEF Written
<1>5. ASSUME client = "simple" PROVE FALSE
  <2>1. fi = 0 /\ Len(file) >= 1  BY <1>1, <1>5 DEF WInv, Single
  <2>2. QED BY <1>1, <2>1
<1>6. QED BY <1>1, <1>2, <1>4, <1>5 DEF WInv, kept

LEMMA DamageWrites == ASSUME IInv, WInv, Damage PROVE WInv'
<1>1. /\ ppc = "header" /\ UNCHANGED <<cvars, dvars, kept, fi, header_size, out_len, checksum, fo, r, ppc>>
  BY DEF Damage
<1>2. EInv'  BY <1>1, EncoderStays DEF WInv
<1>3. hit' # 0
  <2>1. archive \in Seq(Byte)  BY DEF IInv, PInv
  <2>2. hit' \in 1 .. Len(archive)  BY <2>1 DEF Damage
  <2>3. QED BY <2>2
<1>4. client # "simple"  BY <1>1 DEF WInv, Single
<1>5. QED BY <1>1, <1>2, <1>3, <1>4 DEF WInv, kept

(* The decompressor does not move. *)
LEMMA DecodesStays ==
  ASSUME NEW items, NEW t, NEW T, NEW n, Decodes(items, t, T, n), UNCHANGED dvars
  PROVE  Decodes(items, t, T, n)'
<1>1. /\ src' = src /\ place' = place /\ oend' = oend /\ dst' = dst /\ in' = in /\ m_off' = m_off
      /\ m_len' = m_len /\ last_m_off' = last_m_off /\ dpc' = dpc
  BY DEF dvars
<1>2. DstIs(t, T[n].pos)'  BY <1>1 DEF Decodes, DstIs
<1>3. AtFlag(items, T, n) => AtFlag(items, T, n)'  BY <1>1 DEF AtFlag
<1>4. AtOffset(items, t, T, n) => AtOffset(items, t, T, n)'  BY <1>1 DEF AtOffset
<1>5. AtOffsetByte(items, t, T, n) => AtOffsetByte(items, t, T, n)'  BY <1>1 DEF AtOffsetByte
<1>6. AtLength(items, t, T, n) => AtLength(items, t, T, n)'  BY <1>1 DEF AtLength, InMatch
<1>7. AtLongLength(items, t, T, n) => AtLongLength(items, t, T, n)'
  BY <1>1 DEF AtLongLength, InMatch
<1>8. AtCopy(items, t, T, n) => AtCopy(items, t, T, n)'  BY <1>1 DEF AtCopy, InMatch
<1>9. QED BY <1>1, <1>2, <1>3, <1>4, <1>5, <1>6, <1>7, <1>8 DEF Decodes

(* The program ends. *)
LEMMA RefuseWrites ==
  ASSUME WInv, NEW code, Refuse(code), client = "uclpack" /\ hit = 0 => code = 0 /\ fo = file
  PROVE  WInv'
<1>1. /\ r' = code /\ ppc' = "end"
      /\ UNCHANGED <<cvars, dvars, kept, fi, archive, hit, header_size, out_len, checksum, fo>>
  BY DEF Refuse
<1>2. EInv'  BY <1>1, EncoderStays DEF WInv
<1>3. ASSUME client = "uclpack", hit = 0 PROVE Written'  BY <1>1, <1>3 DEF Written, kept
<1>4. ASSUME client = "simple" PROVE Single'  BY <1>1, <1>4 DEF WInv, Single, kept
<1>5. QED BY <1>1, <1>2, <1>3, <1>4 DEF WInv, kept

(* What do_decompress reads next: a block, or the end mark. *)
LEMMA NextRead ==
  ASSUME IInv, Written, ppc = "sizes"
  PROVE  \/ \E S : \E n \in 1 .. Len(S) - 1 : \E t, payload :
              /\ Reading(S, n) /\ t = SubSeq(file, S[n].pos + 1, S[n + 1].pos)
              /\ ReadsBlock(t, payload) /\ S[n + 1].at = fi + 8 + Len(payload)
         \/ Has(4) /\ Has(8) /\ Number(fi) = 0 /\ Number(fi + 4) = EachByte(file) /\ fo = file
<1>1. archive \in Seq(Byte) /\ file \in Seq(Byte)  BY DEF IInv, PInv
<1>2. PICK S : \E n \in 1 .. Len(S) : Reading(S, n) /\ fi = S[n].at  BY DEF Written
<1>3. PICK n \in 1 .. Len(S) : Reading(S, n) /\ fi = S[n].at  BY <1>2
<1>4. Whole(archive, file, S)  BY <1>3 DEF Reading
<1>5. Len(S) \in Nat  BY <1>3, <1>4, PlaceTyped DEF Whole
<1>6. CASE n = Len(S)
  <2>1. fi = S[Len(S)].at  BY <1>3, <1>6
  <2>2. Has(4) /\ Has(8) /\ Number(fi) = 0 /\ Number(fi + 4) = EachByte(file)
    BY <1>1, <1>4, <2>1, ReadEnd
  <2>3. S[n].pos = Len(file)  BY <1>4, <1>6 DEF Whole
  <2>4. fo = SubSeq(file, 1, Len(file))  BY <1>3, <2>3 DEF Reading
  <2>5. fo = file  BY <1>1, <2>4, SubSeqFull
  <2>6. QED BY <2>2, <2>5
<1>7. CASE n # Len(S)
  <2>1. n \in 1 .. Len(S) - 1  BY <1>5, <1>7
  <2>2. PICK t : t = SubSeq(file, S[n].pos + 1, S[n + 1].pos)  OBVIOUS
  <2>3. fi = S[n].at  BY <1>3
  <2>4. PICK payload : ReadsBlock(t, payload) /\ S[n + 1].at = fi + 8 + Len(payload)
    BY <1>1, <1>4, <2>1, <2>2, <2>3, ReadSegment
  <2>5. QED BY <1>3, <2>1, <2>2, <2>4
<1>8. QED BY <1>6, <1>7

(* The text of a block is the next part of the file. *)
LEMMA NextPiece ==
  ASSUME IInv, NEW S, NEW n \in 1 .. Len(S) - 1, Whole(archive, file, S),
         NEW t, t = SubSeq(file, S[n].pos + 1, S[n + 1].pos)
  PROVE  /\ t \in Seq(Byte) /\ Len(t) = S[n + 1].pos - S[n].pos /\ n + 1 \in 1 .. Len(S)
         /\ SubSeq(file, 1, S[n + 1].pos) = SubSeq(file, 1, S[n].pos) \o t
         /\ Len(SubSeq(file, 1, S[n].pos)) = S[n].pos
         /\ S[n].pos \in Nat /\ S[n + 1].pos \in Nat /\ Len(t) <= block_size
<1>1. Blocks(archive, file, S) /\ Segment(archive, file, S[n], S[n + 1])  BY DEF Whole, Blocks
<1>2. S \in Seq(Place)  BY <1>1 DEF Blocks
<1>3. n \in 1 .. Len(S) /\ n + 1 \in 1 .. Len(S) /\ Len(S) \in Nat  BY <1>2
<1>4. S[n].pos \in Nat /\ S[n + 1].pos \in Nat  BY <1>1, <1>3, PlaceTyped
<1>5. PICK p \in Nat, q \in Nat : p = S[n].pos /\ q = S[n + 1].pos  BY <1>4
<1>6. p < q /\ q <= Len(file) /\ q - p <= block_size  BY <1>1, <1>5 DEF Segment
<1>7. t = SubSeq(file, p + 1, q) /\ p <= q /\ q <= Len(file) /\ file \in Seq(Byte)
  BY <1>5, <1>6 DEF IInv, PInv
<1>8. /\ t \in Seq(Byte) /\ Len(t) = q - p
      /\ SubSeq(file, 1, q) = SubSeq(file, 1, p) \o t /\ Len(SubSeq(file, 1, p)) = p
  BY <1>7, PieceTyped
<1>9. QED BY <1>3, <1>4, <1>5, <1>6, <1>8

LEMMA EOFMarkerWrites == ASSUME IInv, WInv, EOFMarker PROVE WInv'
<1>1. ppc = "sizes" /\ Has(4) /\ Number(fi) = 0  BY DEF EOFMarker
<1>2. ASSUME client = "uclpack", hit = 0 PROVE Has(8) /\ Number(fi + 4) = checksum /\ fo = file
  <2>1. Written  BY <1>2 DEF WInv
  <2>2. ASSUME NEW S, NEW n \in 1 .. Len(S) - 1, NEW t, NEW payload, ReadsBlock(t, payload)
        PROVE  FALSE
    BY <1>1, <2>2 DEF ReadsBlock
  <2>3. Has(8) /\ Number(fi + 4) = EachByte(file) /\ fo = file  BY <1>1, <2>1, <2>2, NextRead
  <2>4. checksum = EachByte(fo)  BY <1>1, <1>2 DEF IInv, PInv, ChecksumExact
  <2>5. QED BY <2>3, <2>4
<1>3. PICK code : Refuse(code) /\ (client = "uclpack" /\ hit = 0 => code = 0 /\ fo = file)
  <2>1. CASE client = "uclpack" /\ hit = 0  BY <1>2, <2>1 DEF EOFMarker
  <2>2. CASE ~(client = "uclpack" /\ hit = 0)  BY <2>2 DEF EOFMarker
  <2>3. QED BY <2>1, <2>2
<1>4. QED BY <1>3, RefuseWrites

LEMMA BlockRefusedWrites == ASSUME IInv, WInv, BlockRefused PROVE WInv'
<1>1. ppc = "sizes"  BY DEF BlockRefused
<1>2. ASSUME client = "uclpack", hit = 0 PROVE FALSE
  <2>1. Written  BY <1>2 DEF WInv
  <2>2. ASSUME NEW S, NEW n \in 1 .. Len(S) - 1, NEW t, NEW payload,
               ReadsBlock(t, payload), Reading(S, n)
        PROVE  FALSE
    <3>1. PICK x \in Nat : x = Len(payload)  BY <2>2 DEF ReadsBlock
    <3>2. PICK y \in Nat : y = Len(t)  BY <2>2 DEF ReadsBlock
    <3>3. /\ Has(4) /\ Has(8) /\ Number(fi) = y /\ Number(fi + 4) = x
          /\ Has(8 + x) /\ x >= 1 /\ x <= y /\ y <= header_size
      BY <2>2, <3>1, <3>2 DEF ReadsBlock, Reading
    <3>4. Sane(Number(fi + 4), Number(fi))
      <4>1. header_size \in Nat  BY DEF IInv, PInv
      <4>2. x <= header_size /\ x # 0  BY <3>3, <4>1
      <4>3. QED BY <3>3, <4>2 DEF Sane
    <3>5. Number(fi) # 0  BY <3>3
    <3>6. QED BY <3>3, <3>4, <3>5 DEF BlockRefused
  <2>3. Has(4) /\ Has(8) /\ Number(fi) = 0  BY <1>1, <2>1, <2>2, NextRead
  <2>4. QED BY <2>3 DEF BlockRefused
<1>3. PICK code : Refuse(code)  BY DEF BlockRefused
<1>4. QED BY <1>2, <1>3, RefuseWrites

LEMMA ReadHeaderWrites == ASSUME IInv, WInv, ReadHeader PROVE WInv'
<1>1. ppc = "header"  BY DEF ReadHeader
<1>2. CASE client = "uclpack" /\ hit = 0
  <2>1. fi = 0 /\ fo = <<>> /\ archive \in Seq(Byte)  BY <1>1, <1>2 DEF WInv, Written, IInv, PInv
  <2>2. PICK S : Whole(archive, file, S)  BY <1>1, <1>2 DEF WInv, Written
  <2>3. /\ Blocks(archive, file, S) /\ Put(archive, 0, Header)
        /\ S \in Seq(Place) /\ Len(S) >= 1 /\ S[1] = [at |-> Len(Header), pos |-> 0]
    BY <2>2 DEF Whole, Blocks
  <2>4. fi \in Nat  BY <2>1
  <2>5. /\ SubSeq(archive, 1, Len(magic)) = magic /\ Len(Header) <= Len(archive)
        /\ Number(MethodAt + 2) = block_size
    BY <2>1, <2>3, <2>4, ReadFirst
  <2>6. HeaderThere
    <3>1. Len(Header) \in Nat /\ Len(archive) \in Nat  BY <2>1, Typing
    <3>2. QED BY <2>1, <2>5, <3>1 DEF HeaderThere, Has
  <2>7. block_size \in MinBlockSize .. MaxBlockSize  BY PackAssumption, Typing
  <2>8. /\ header_size' = block_size /\ fi' = Len(Header) /\ ppc' = "sizes"
        /\ UNCHANGED <<cvars, dvars, kept, archive, hit, out_len, fo, r>>
    BY <2>5, <2>6, <2>7 DEF ReadHeader
  <2>9. EInv'  BY <2>8, EncoderStays DEF WInv
  <2>10. SubSeq(file, 1, 0) = <<>>  BY SubSeqEmpty DEF IInv, PInv
  <2>11. S[1].at = Len(Header) /\ S[1].pos = 0 /\ 1 \in 1 .. Len(S)  BY <2>3
  <2>12. Whole(archive', file', S)  BY <2>2, <2>8 DEF kept
  <2>13. fo' = SubSeq(file', 1, S[1].pos)  BY <2>1, <2>8, <2>10, <2>11 DEF kept
  <2>14. Reading(S, 1)'  BY <2>8, <2>12, <2>13 DEF Reading
  <2>15. Written'  BY <2>8, <2>11, <2>14 DEF Written
  <2>16. QED BY <1>2, <2>8, <2>9, <2>15 DEF WInv, kept
<1>3. CASE ~(client = "uclpack" /\ hit = 0)
  <2>1. client # "simple"  BY <1>1 DEF WInv, Single
  <2>2. CASE ppc' = "sizes" /\ UNCHANGED <<cvars, kept, hit>>
    <3>1. EInv'  BY <2>2, EncoderStays DEF WInv
    <3>2. QED BY <1>3, <2>1, <2>2, <3>1 DEF WInv, kept
  <2>3. ASSUME NEW code, Refuse(code) PROVE WInv'  BY <1>3, <2>3, RefuseWrites
  <2>4. QED BY <2>2, <2>3 DEF ReadHeader
<1>4. QED BY <1>2, <1>3

(* A stored block is copied from the archive. *)
LEMMA StoredBlockWrites == ASSUME IInv, WInv, StoredBlock PROVE WInv'
<1>1. /\ ppc = "sizes" /\ Number(fi) # 0 /\ Number(fi) = Number(fi + 4)
      /\ fo' = fo \o Payload(Number(fi)) /\ fi' = fi + 8 + Number(fi)
      /\ UNCHANGED <<cvars, dvars, kept, archive, hit, header_size, out_len, r, ppc>>
  BY DEF StoredBlock, BlockRead, WriteOut
<1>2. EInv'  BY <1>1, EncoderStays DEF WInv
<1>3. ASSUME client = "uclpack", hit = 0 PROVE Written'
  <2>1. Written  BY <1>3 DEF WInv
  <2>2. PICK S : \E n \in 1 .. Len(S) - 1 : \E t, payload :
          /\ Reading(S, n) /\ t = SubSeq(file, S[n].pos + 1, S[n + 1].pos)
          /\ ReadsBlock(t, payload) /\ S[n + 1].at = fi + 8 + Len(payload)
    BY <1>1, <2>1, NextRead
  <2>3. PICK n \in 1 .. Len(S) - 1 : \E t, payload :
          /\ Reading(S, n) /\ t = SubSeq(file, S[n].pos + 1, S[n + 1].pos)
          /\ ReadsBlock(t, payload) /\ S[n + 1].at = fi + 8 + Len(payload)
    BY <2>2
  <2>4. PICK t, payload :
          /\ Reading(S, n) /\ t = SubSeq(file, S[n].pos + 1, S[n + 1].pos)
          /\ ReadsBlock(t, payload) /\ S[n + 1].at = fi + 8 + Len(payload)
    BY <2>3
  <2>5. Whole(archive, file, S)  BY <2>4 DEF Reading
  <2>6. /\ n + 1 \in 1 .. Len(S)
        /\ SubSeq(file, 1, S[n + 1].pos) = SubSeq(file, 1, S[n].pos) \o t
    BY <2>4, <2>5, NextPiece
  <2>7. PICK k \in Nat : k = Len(t) /\ k = Len(payload) /\ Number(fi) = k
    BY <1>1, <2>4 DEF ReadsBlock
  <2>8. payload = t
    <3>1. ~(Len(payload) < Len(t))
      <4>1. ~(k < k)  OBVIOUS
      <4>2. QED BY <2>7, <4>1
    <3>2. QED BY <2>4, <3>1 DEF ReadsBlock, Carries
  <2>9. Payload(k) = payload  BY <2>4, <2>7 DEF ReadsBlock
  <2>10. fo' = SubSeq(file, 1, S[n].pos) \o t  BY <1>1, <2>4, <2>7, <2>8, <2>9 DEF Reading
  <2>11. fi' = S[n + 1].at  BY <1>1, <2>4, <2>7
  <2>12. Whole(archive', file', S)  BY <1>1, <2>5 DEF kept
  <2>13. Reading(S, n + 1)'  BY <1>1, <2>4, <2>6, <2>10, <2>12 DEF Reading, kept
  <2>14. QED BY <1>1, <2>6, <2>11, <2>13 DEF Written
<1>4. client # "simple"  BY <1>1 DEF WInv, Single
<1>5. QED BY <1>1, <1>2, <1>3, <1>4 DEF WInv, kept

(* The decompressor is given the block. *)
LEMMA CompressedBlockWrites == ASSUME IInv, WInv, CompressedBlock PROVE WInv'
<1>1. /\ ppc = "sizes" /\ Number(fi) # 0 /\ Number(fi) # Number(fi + 4)
      /\ DecompressStart(Payload(Number(fi + 4)), buf_len - Number(fi + 4), Number(fi))
      /\ out_len' = Number(fi) /\ fi' = fi + 8 + Number(fi + 4) /\ ppc' = "decompress"
      /\ UNCHANGED <<cvars, kept, archive, hit, header_size, checksum, fo, r>>
  BY DEF CompressedBlock, BlockRead
<1>2. EInv'  BY <1>1, EncoderStays DEF WInv
<1>3. ASSUME client = "uclpack", hit = 0 PROVE Written'
  <2>1. Written  BY <1>3 DEF WInv
  <2>2. PICK S : \E n \in 1 .. Len(S) - 1 : \E t, payload :
          /\ Reading(S, n) /\ t = SubSeq(file, S[n].pos + 1, S[n + 1].pos)
          /\ ReadsBlock(t, payload) /\ S[n + 1].at = fi + 8 + Len(payload)
    BY <1>1, <2>1, NextRead
  <2>3. PICK n \in 1 .. Len(S) - 1 : \E t, payload :
          /\ Reading(S, n) /\ t = SubSeq(file, S[n].pos + 1, S[n + 1].pos)
          /\ ReadsBlock(t, payload) /\ S[n + 1].at = fi + 8 + Len(payload)
    BY <2>2
  <2>4. PICK t, payload :
          /\ Reading(S, n) /\ t = SubSeq(file, S[n].pos + 1, S[n + 1].pos)
          /\ ReadsBlock(t, payload) /\ S[n + 1].at = fi + 8 + Len(payload)
    BY <2>3
  <2>5. Whole(archive, file, S)  BY <2>4 DEF Reading
  <2>6. /\ t \in Seq(Byte) /\ Len(t) = S[n + 1].pos - S[n].pos /\ Len(t) <= block_size
    BY <2>4, <2>5, NextPiece
  <2>7. Number(fi) = Len(t) /\ Number(fi + 4) = Len(payload) /\ Payload(Len(payload)) = payload
    BY <2>4 DEF ReadsBlock
  <2>8. PICK items : Encoded(items, t) /\ payload = Block(items)
    <3>1. payload # t  BY <1>1, <2>7
    <3>2. QED BY <2>4, <3>1 DEF ReadsBlock, Carries
  <2>9. Len(t) <= EofPrefix * ByteBase
    <3>1. Len(t) \in Nat  BY <2>6
    <3>2. QED BY <2>6, <3>1, SizeFits
  <2>10. \E where : DecompressStart(Block(items), where, Len(t))  BY <1>1, <2>7, <2>8
  <2>11. PICK T, m : Decodes(items, t, T, m)'  BY <2>6, <2>8, <2>9, <2>10, StartDecodes
  <2>12. Whole(archive', file', S)  BY <1>1, <2>5 DEF kept
  <2>13. Reading(S, n)'  BY <1>1, <2>4, <2>12 DEF Reading, kept
  <2>14. fi' = S[n + 1].at /\ out_len' = S[n + 1].pos - S[n].pos  BY <1>1, <2>4, <2>6, <2>7
  <2>15. t = SubSeq(file', S[n].pos + 1, S[n + 1].pos)  BY <1>1, <2>4 DEF kept
  <2>16. InBlock(S, n)'  BY <2>11, <2>13, <2>14, <2>15 DEF InBlock
  <2>17. QED BY <1>1, <2>16 DEF Written
<1>4. client # "simple"  BY <1>1 DEF WInv, Single
<1>5. QED BY <1>1, <1>2, <1>3, <1>4 DEF WInv, kept

(* With the method of the header no block is passed over. *)
LEMMA UnknownMethodWrites == ASSUME IInv, WInv, UnknownMethod PROVE WInv'
<1>1. /\ ppc = "sizes" /\ archive[MethodAt + 1] # MethodByte
      /\ UNCHANGED <<cvars, dvars, kept, archive, hit, header_size, out_len, r, ppc>>
  BY DEF UnknownMethod, BlockRead
<1>2. EInv'  BY <1>1, EncoderStays DEF WInv
<1>3. ASSUME client = "uclpack", hit = 0 PROVE FALSE
  <2>1. PICK S : \E n \in 1 .. Len(S) : Reading(S, n)  BY <1>1, <1>3 DEF WInv, Written
  <2>2. Put(archive, 0, Header)  BY <2>1 DEF Reading, Whole, Blocks
  <2>3. archive \in Seq(Byte) /\ fi \in Nat  BY DEF IInv, PInv
  <2>4. archive[MethodAt + 1] = MethodByte  BY <2>2, <2>3, ReadFirst
  <2>5. QED BY <1>1, <2>4
<1>4. client # "simple"  BY <1>1 DEF WInv, Single
<1>5. QED BY <1>1, <1>2, <1>3, <1>4 DEF WInv, kept

LEMMA PlaceStays == ASSUME Decompress PROVE place' = place
BY DEF Decompress, Flag, OffsetTurn, Offset, Length, LengthTurn, Copy, Result, Fail

LEMMA DecompressBlockWrites ==
  ASSUME IInv, WInv, NotOvertaken, DecompressBlock PROVE WInv'
<1>1. ppc = "decompress" /\ Decompress /\ DInv /\ UNCHANGED <<cvars, pvars>>
  BY DEF DecompressBlock, IInv
<1>2. EInv'  BY <1>1, EncoderStays DEF WInv
<1>3. ASSUME client = "uclpack", hit = 0 PROVE Written'
  <2>1. PICK S : \E n \in 1 .. Len(S) - 1 : InBlock(S, n)  BY <1>1, <1>3 DEF WInv, Written
  <2>2. PICK n \in 1 .. Len(S) - 1 : InBlock(S, n)  BY <2>1
  <2>3. PICK t, items, T, m : t = SubSeq(file, S[n].pos + 1, S[n + 1].pos) /\ Decodes(items, t, T, m)
    BY <2>2 DEF InBlock
  <2>a. Unread  BY <1>1, <1>3 DEF NotOvertaken, NoOvertake, Intact
  <2>4. PICK k : Decodes(items, t, T, k)'  BY <1>1, <2>3, <2>a, DecompressDecodes
  <2>5. Whole(archive', file', S)  BY <1>1, <2>2 DEF InBlock, Reading, pvars
  <2>6. Reading(S, n)'  BY <1>1, <2>2, <2>5 DEF InBlock, Reading, pvars
  <2>7. t = SubSeq(file', S[n].pos + 1, S[n + 1].pos)  BY <1>1, <2>3 DEF pvars
  <2>8. fi' = S[n + 1].at /\ out_len' = S[n + 1].pos - S[n].pos
    BY <1>1, <2>2 DEF InBlock, pvars
  <2>9. InBlock(S, n)'  BY <2>4, <2>6, <2>7, <2>8 DEF InBlock
  <2>10. QED BY <1>1, <2>9 DEF Written, pvars
<1>4. ASSUME client = "simple" PROVE Single'
  <2>a. place = Apart /\ place' = Apart
    BY <1>1, <1>4, PlaceStays DEF WInv, Single
  <2>1. PICK items, T, m : Decodes(items, file, T, m)  BY <1>1, <1>4 DEF WInv, Single
  <2>2. PICK t : t = file  OBVIOUS
  <2>3. PICK k : Decodes(items, t, T, k)'
    <3>1. Unread  BY <2>a DEF Unread
    <3>2. QED BY <1>1, <2>1, <2>2, <3>1, DecompressDecodes
  <2>4. t = file'  BY <1>1, <2>2 DEF pvars
  <2>5. \E it, U, h : Decodes(it, file, U, h)'  BY <2>3, <2>4
  <2>6. QED BY <1>1, <1>4, <2>a, <2>5 DEF WInv, Single, pvars
<1>5. QED BY <1>1, <1>2, <1>3, <1>4 DEF WInv, pvars

(* The text of the block that is decompressed, and where it is in the file. *)
LEMMA BlockText ==
  ASSUME IInv, NEW S, NEW n \in 1 .. Len(S) - 1, InBlock(S, n)
  PROVE  \E t \in Seq(Byte) :
           /\ t = SubSeq(file, Len(fo) + 1, Len(fo) + out_len) /\ Len(t) = out_len
           /\ SubSeq(file, 1, S[n + 1].pos) = fo \o t
           /\ \E items, T, m : Decodes(items, t, T, m)
<1>1. PICK t : /\ t = SubSeq(file, S[n].pos + 1, S[n + 1].pos)
               /\ \E items, T, m : Decodes(items, t, T, m)
  BY DEF InBlock
<1>2. Whole(archive, file, S) /\ fo = SubSeq(file, 1, S[n].pos) /\ out_len = S[n + 1].pos - S[n].pos
  BY DEF InBlock, Reading
<1>3. /\ t \in Seq(Byte) /\ Len(t) = S[n + 1].pos - S[n].pos
      /\ SubSeq(file, 1, S[n + 1].pos) = SubSeq(file, 1, S[n].pos) \o t
      /\ Len(SubSeq(file, 1, S[n].pos)) = S[n].pos
      /\ S[n].pos \in Nat /\ S[n + 1].pos \in Nat
  BY <1>1, <1>2, NextPiece
<1>4. Len(fo) = S[n].pos /\ Len(fo) + out_len = S[n + 1].pos  BY <1>2, <1>3
<1>5. t = SubSeq(file, Len(fo) + 1, Len(fo) + out_len)  BY <1>1, <1>4
<1>6. QED BY <1>1, <1>2, <1>3, <1>5

(* The block is written out, and the next one is read. *)
LEMMA DecompressedWrites == ASSUME IInv, WInv, Decompressed PROVE WInv'
<1>1. /\ ppc = "decompress" /\ dpc \notin Running /\ client = "uclpack"
      /\ \/ (dpc # "OK" \/ Len(dst) # out_len) /\ Refuse(6)
         \/ /\ dpc = "OK" /\ Len(dst) = out_len
            /\ fo' = fo \o dst /\ ppc' = "sizes"
            /\ UNCHANGED <<cvars, dvars, kept, fi, archive, hit, header_size, out_len, r>>
  BY DEF Decompressed, WriteOut
<1>2. CASE hit = 0
  <2>1. PICK S : \E n \in 1 .. Len(S) - 1 : InBlock(S, n)
    BY <1>1, <1>2 DEF WInv, Written
  <2>2. PICK n \in 1 .. Len(S) - 1 : InBlock(S, n)  BY <2>1
  <2>3. PICK t \in Seq(Byte) :
          /\ Len(t) = out_len /\ SubSeq(file, 1, S[n + 1].pos) = fo \o t
          /\ \E items, T, m : Decodes(items, t, T, m)
    BY <2>2, BlockText
  <2>4. dst \in Seq(Byte)  BY DEF IInv, DInv
  <2>5. dpc = "OK" /\ dst = t  BY <1>1, <2>3, <2>4, DecodesRight
  <2>6. /\ fo' = fo \o t /\ ppc' = "sizes"
        /\ UNCHANGED <<cvars, dvars, kept, fi, archive, hit, header_size, out_len, r>>
    BY <1>1, <2>3, <2>5
  <2>7. EInv'  BY <2>6, EncoderStays DEF WInv
  <2>8. Whole(archive', file', S) /\ header_size' = block_size
    BY <2>2, <2>6 DEF InBlock, Reading, kept
  <2>9. Reading(S, n + 1)'  BY <2>3, <2>6, <2>8 DEF Reading, kept
  <2>10. fi' = S[n + 1].at  BY <2>2, <2>6 DEF InBlock
  <2>11. n + 1 \in 1 .. Len(S)
    <3>1. Blocks(archive, file, S)  BY <2>2 DEF InBlock, Reading, Whole
    <3>2. Len(S) \in Nat  BY <3>1 DEF Blocks
    <3>3. QED BY <3>2
  <2>12. Written'  BY <2>6, <2>9, <2>10, <2>11 DEF Written
  <2>13. QED BY <1>1, <2>6, <2>7, <2>12 DEF WInv, kept
<1>3. CASE hit # 0
  <2>1. CASE Refuse(6)  BY <1>3, <2>1, RefuseWrites
  <2>2. CASE UNCHANGED <<cvars, kept, hit>>
    <3>1. EInv'  BY <2>2, EncoderStays DEF WInv
    <3>2. QED BY <1>1, <1>3, <2>2, <3>1 DEF WInv, kept
  <2>3. QED BY <1>1, <2>1, <2>2
<1>4. QED BY <1>2, <1>3

(* simple.c gives the block to the decompressor. *)
LEMMA TransferWrites == ASSUME IInv, WInv, Transfer PROVE WInv'
<1>1. /\ ppc = "compress" /\ cpc = "done" /\ client = "simple"
      /\ DecompressStart(Block(out), Apart, Len(text))
      /\ out_len' = Len(text) /\ ppc' = "decompress"
      /\ UNCHANGED <<cvars, kept, fi, archive, hit, header_size, checksum, fo, r>>
  BY DEF Transfer
<1>2. EInv'  BY <1>1, EncoderStays DEF WInv
<1>3. /\ fo = <<>> /\ Len(file) >= 1 /\ Len(file) <= block_size
      /\ text = file /\ file \in Seq(Byte)
  BY <1>1 DEF WInv, Single, IInv, PInv
<1>4. text # <<>>
  <2>1. Len(text) # 0  BY <1>3
  <2>2. Len(<<>>) = 0  OBVIOUS
  <2>3. QED BY <2>1, <2>2
<1>5. Encoded(out, text)  BY <1>1, <1>4 DEF WInv, EInv
<1>a. PICK items : items = out  OBVIOUS
<1>6. PICK t \in Seq(Byte) : t = text  BY <1>3
<1>7. Encoded(items, t) /\ DecompressStart(Block(items), Apart, Len(t))
  BY <1>1, <1>5, <1>a, <1>6
<1>8. Len(t) <= EofPrefix * ByteBase
  <2>1. Len(t) \in Nat /\ Len(t) <= block_size  BY <1>3, <1>6
  <2>2. QED BY <2>1, SizeFits
<1>9. PICK T, m : Decodes(items, t, T, m)'  BY <1>7, <1>8, StartDecodes
<1>10. t = file' /\ out_len' = Len(file')  BY <1>1, <1>3, <1>6 DEF kept
<1>11. \E it, U, h : Decodes(it, file, U, h)'  BY <1>9, <1>10
<1>b. place' = Apart  BY <1>1 DEF DecompressStart
<1>12. Single'  BY <1>1, <1>3, <1>10, <1>11, <1>b DEF Single, kept
<1>13. QED BY <1>1, <1>2, <1>12 DEF WInv, kept

(* Every step of either run keeps the two sides together. *)
LEMMA StepWrites == IInv /\ WInv /\ NotOvertaken /\ [Next]_vars => WInv'
<1> SUFFICES ASSUME IInv, WInv, NotOvertaken, [Next]_vars PROVE WInv'  OBVIOUS
<1>1. CASE Returned
  <2>1. client # "uclpack" /\ \E code : Refuse(code)  BY <1>1 DEF Returned
  <2>2. QED BY <2>1, RefuseWrites
<1>2. CASE UNCHANGED vars
  <2>1. UNCHANGED <<cvars, dvars, pvars>>  BY <1>2 DEF vars
  <2>2. EInv'  BY <2>1, EncoderStays DEF WInv
  <2>3. text' = text /\ place' = place  BY <2>1 DEF cvars, dvars
  <2>4. ASSUME client = "uclpack", hit = 0 PROVE Written'
    <3>1. ppc # "decompress" => Written'
      BY <2>1, <2>3, <2>4 DEF WInv, Written, Reading, Compressing, pvars
    <3>2. ASSUME ppc = "decompress" PROVE Written'
      <4>1. PICK S : \E n \in 1 .. Len(S) - 1 : InBlock(S, n)
        BY <2>4, <3>2 DEF WInv, Written
      <4>2. PICK n \in 1 .. Len(S) - 1 : InBlock(S, n)  BY <4>1
      <4>3. PICK t, items, T, m :
              t = SubSeq(file, S[n].pos + 1, S[n + 1].pos) /\ Decodes(items, t, T, m)
        BY <4>2 DEF InBlock
      <4>4. Decodes(items, t, T, m)'  BY <2>1, <4>3, DecodesStays
      <4>5. Whole(archive', file', S)  BY <2>1, <4>2 DEF InBlock, Reading, pvars
      <4>6. Reading(S, n)'  BY <2>1, <4>2, <4>5 DEF InBlock, Reading, pvars
      <4>7. t = SubSeq(file', S[n].pos + 1, S[n + 1].pos)  BY <2>1, <4>3 DEF pvars
      <4>8. fi' = S[n + 1].at /\ out_len' = S[n + 1].pos - S[n].pos
        BY <2>1, <4>2 DEF InBlock, pvars
      <4>9. InBlock(S, n)'  BY <4>4, <4>6, <4>7, <4>8 DEF InBlock
      <4>10. QED BY <2>1, <3>2, <4>9 DEF Written, pvars
    <3>3. QED BY <3>1, <3>2
  <2>5. ASSUME client = "simple" PROVE Single'
    <3>1. ASSUME ppc = "decompress" PROVE \E it, U, h : Decodes(it, file, U, h)'
      <4>1. PICK items, T, m : Decodes(items, file, T, m)  BY <2>5, <3>1 DEF WInv, Single
      <4>2. PICK t : t = file  OBVIOUS
      <4>3. Decodes(items, t, T, m)'  BY <2>1, <4>1, <4>2, DecodesStays
      <4>4. t = file'  BY <2>1, <4>2 DEF pvars
      <4>5. QED BY <4>3, <4>4
    <3>2. QED BY <2>1, <2>3, <2>5, <3>1 DEF WInv, Single, pvars
  <2>6. QED BY <2>1, <2>2, <2>4, <2>5 DEF WInv, pvars
<1>3. QED
  BY <1>1, <1>2, ReadBlockWrites, CompressBlockWrites, WriteBlockWrites, WriteEOFWrites,
     DamageWrites, ReadHeaderWrites, EOFMarkerWrites, BlockRefusedWrites, StoredBlockWrites,
     CompressedBlockWrites, UnknownMethodWrites, DecompressBlockWrites, DecompressedWrites,
     TransferWrites
  DEF Next, Exited

(* What is written and what is read agree, as long as nothing is overtaken. *)
LEMMA WritesInvariant == Spec /\ []NotOvertaken => [](IInv /\ WInv)
<1>1. Init => WInv  BY InitWritten
<1>2. IInv /\ WInv /\ NotOvertaken /\ [Next]_vars => WInv'  BY StepWrites
<1>3. QED BY <1>1, <1>2, Invariance, PTL DEF Spec

LEMMA WritesLossless == IInv /\ WInv => Lossless
<1>1. ASSUME IInv, WInv, Intact, ppc = "decompress", NEW expected,
             expected = SubSeq(file, Len(fo) + 1, Len(fo) + out_len)
      PROVE  /\ \A i \in 1 .. Len(dst) : i <= out_len /\ dst[i] = expected[i]
             /\ dpc \notin Running => dpc = "OK" /\ dst = expected
  <2>1. \E t : t = expected /\ Len(t) = out_len /\ \E items, T, m : Decodes(items, t, T, m)
    <3>1. CASE client = "uclpack"
      <4>1. PICK S : \E n \in 1 .. Len(S) - 1 : InBlock(S, n)
        BY <1>1, <3>1 DEF Intact, WInv, Written
      <4>2. PICK n \in 1 .. Len(S) - 1 : InBlock(S, n)  BY <4>1
      <4>3. QED BY <1>1, <4>2, BlockText
    <3>2. CASE client = "simple"
      <4>1. /\ fo = <<>> /\ out_len = Len(file) /\ file \in Seq(Byte)
            /\ \E items, T, m : Decodes(items, file, T, m)
        BY <1>1, <3>2 DEF WInv, Single, IInv, PInv
      <4>2. Len(fo) = 0 /\ Len(file) \in Nat  BY <4>1
      <4>3. Len(fo) + 1 = 1 /\ Len(fo) + out_len = Len(file)  BY <4>1, <4>2
      <4>4. expected = SubSeq(file, 1, Len(file))  BY <1>1, <4>3
      <4>5. expected = file  BY <4>1, <4>4, SubSeqFull
      <4>6. QED BY <4>1, <4>5
    <3>3. QED BY <1>1, <3>1, <3>2 DEF Intact, WInv
  <2>2. PICK t : t = expected /\ Len(t) = out_len /\ \E items, T, m : Decodes(items, t, T, m)
    BY <2>1
  <2>3. dst \in Seq(Byte)  BY <1>1 DEF IInv, DInv
  <2>4. /\ \A i \in 1 .. Len(dst) : i <= Len(t) /\ dst[i] = t[i]
        /\ dpc \in Running \/ (dpc = "OK" /\ dst = t)
    BY <2>2, <2>3, DecodesRight
  <2>5. QED BY <2>2, <2>4
<1>2. QED BY <1>1 DEF Lossless

(* Lossless: a block that the compressor made, in an archive or in memory, *)
(* is decompressed to its text, whatever matches the finder returned and   *)
(* the parser chose.  At no time is a byte of the output another one, and  *)
(* the only result is OK.  In place this needs that the output never       *)
(* reaches a byte of the block that is still to be read, which does not    *)
(* hold of every block.                                                    *)
THEOREM AlwaysLossless == Spec /\ []NoOvertake => []Lossless
<1>1. NoOvertake => NotOvertaken  BY DEF NotOvertaken
<1>2. QED BY <1>1, WritesInvariant, WritesLossless, PTL

(* A caller that gives the output memory of its own, as simple.c does, may *)
(* rely on it with no condition.                                           *)
THEOREM SimpleLossless == Spec => [](client = "simple" => Lossless)
<1> DEFINE Simple == client = "simple"
<1>1. Simple => NotOvertaken  BY DEF NotOvertaken
<1>2. [Next]_vars => client' = client
  BY DEF Next, vars, pvars, kept, ReadBlock, CompressBlock, WriteBlock, WriteEOF, Damage,
     ReadHeader, EOFMarker, BlockRefused, StoredBlock, CompressedBlock, UnknownMethod,
     DecompressBlock, Decompressed, Transfer, Returned, Exited, Refuse
<1>3. Simple /\ [Next]_vars => Simple'  BY <1>2
<1>4. ~Simple /\ [Next]_vars => ~Simple'  BY <1>2
<1> HIDE DEF Simple
<1>5. Spec => [](Simple => Lossless)
  BY <1>1, <1>3, <1>4, WritesInvariant, WritesLossless, PTL DEF Spec
<1>6. QED BY <1>5 DEF Simple

(* Restores: uclpack -d of an archive that is not damaged ends with 0 and  *)
(* writes the file, however it was cut into blocks, and whichever of them  *)
(* were stored, if in none of the others the output overtakes the input.   *)
(* Code 2 is the other end, of do_compress: a block that became longer     *)
(* than its buffer, and no archive.                                        *)
THEOREM AlwaysRestores == Spec /\ []NoOvertake => [](r # 2 => Restores)
<1>1. IInv /\ WInv => (r # 2 => Restores)  BY DEF WInv, Written, Restores
<1>2. NoOvertake => NotOvertaken  BY DEF NotOvertaken
<1>3. QED BY <1>1, <1>2, WritesInvariant, PTL
=============================================================================
