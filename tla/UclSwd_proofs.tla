---------------------------- MODULE UclSwd_proofs ----------------------------
(***************************************************************************)
(* The dictionary of the compressor, for every window, every text and      *)
(* every hash that tells the third bytes apart: the ring holds the window, *)
(* the chains hold its positions, a match is in the text, and no longer    *)
(* one was passed over.                                                    *)
(***************************************************************************)
EXTENDS UclSwd, NatLemmas

LEMMA Sizes ==
  /\ n \in Nat \ {0} /\ f \in Nat /\ f >= 3 /\ b_size = n + f /\ b_size \in Nat \ {0}
BY SwdAssumption DEF b_size

LEMMA SlotType ==
  ASSUME NEW p \in Nat
  PROVE  Slot(p) \in 0 .. b_size - 1 /\ Slot(p) \in Nat
<1>1. Slot(p) \in 0 .. b_size - 1  BY Sizes, DivMod DEF Slot
<1>2. QED BY <1>1, Sizes

(* Two positions that the ring has both have different slots. *)
LEMMA SlotsDiffer ==
  ASSUME NEW p \in Nat, NEW q \in Nat, p < q, q - p < b_size
  PROVE  Slot(p) # Slot(q)
BY Sizes, ModDiffer DEF Slot

LEMMA SlotNext ==
  ASSUME NEW p \in Nat
  PROVE  Succ(Slot(p)) = Slot(p + 1)
<1>1. Slot(p) \in 0 .. b_size - 1  BY SlotType
<1>2. Slot(p + 1) = IF Slot(p) + 1 = b_size THEN 0 ELSE Slot(p) + 1
  BY Sizes, ModNext DEF Slot
<1>3. CASE Slot(p) + 1 = b_size
  <2>1. 0 * b_size + 0 = 0 /\ b_size = 1 * b_size + 0  BY Sizes
  <2>2. (1 * b_size + 0) % b_size = 0
    <3>1. 1 \in Nat /\ 0 \in 0 .. b_size - 1  BY Sizes
    <3>2. QED BY <3>1, Sizes, DivModUnique
  <2>3. QED BY <1>2, <1>3, <2>1, <2>2 DEF Succ
<1>4. CASE Slot(p) + 1 # b_size
  <2>1. Slot(p) + 1 \in 0 .. b_size - 1  BY <1>1, <1>4, Sizes
  <2>2. (Slot(p) + 1) % b_size = Slot(p) + 1  BY <2>1, Sizes, ModSmall
  <2>3. QED BY <1>2, <1>4, <2>2 DEF Succ
<1>5. QED BY <1>3, <1>4

(* The slots from a slot on: they continue at the start of the ring.       *)
LEMMA SlotTurn ==
  ASSUME NEW p \in Nat, NEW i \in 0 .. b_size - 1
  PROVE  \/ Slot(p + i) = Slot(p) + i
         \/ /\ Slot(p + i) = Slot(p) + i - b_size /\ Slot(p + i) < i
            /\ p + i >= b_size
<1> DEFINE q == p \div b_size
           r == Slot(p)
<1>1. q \in Nat /\ r \in 0 .. b_size - 1 /\ p = q * b_size + r
  BY Sizes, DivMod DEF Slot
<1> HIDE DEF q, r
<1>2. i \in Nat /\ i < b_size /\ q * b_size \in Nat  BY <1>1, Sizes, MulMono
<1>3. CASE r + i < b_size
  <2>1. r + i \in 0 .. b_size - 1 /\ p + i = q * b_size + (r + i)  BY <1>1, <1>2, <1>3, Sizes
  <2>2. (p + i) % b_size = r + i
    <3> DEFINE s == r + i
    <3>1. s \in 0 .. b_size - 1 /\ p + i = q * b_size + s  BY <2>1
    <3> HIDE DEF s
    <3>2. (q * b_size + s) % b_size = s  BY <1>1, <3>1, Sizes, DivModUnique
    <3>3. QED BY <3>1, <3>2 DEF s
  <2>3. QED BY <2>2 DEF Slot, r
<1>4. CASE r + i >= b_size
  <2>1. r + i - b_size \in 0 .. b_size - 1 /\ r + i - b_size < i
    BY <1>1, <1>2, <1>4, Sizes
  <2>2. q + 1 \in Nat /\ (q + 1) * b_size = q * b_size + b_size  BY <1>1, Sizes
  <2>3. p + i = (q + 1) * b_size + (r + i - b_size)  BY <1>1, <1>2, <2>2, Sizes
  <2>4. (p + i) % b_size = r + i - b_size
    <3> DEFINE s == r + i - b_size
    <3>1. s \in 0 .. b_size - 1 /\ p + i = (q + 1) * b_size + s  BY <2>1, <2>3
    <3> HIDE DEF s
    <3>2. ((q + 1) * b_size + s) % b_size = s  BY <2>2, <3>1, Sizes, DivModUnique
    <3>3. QED BY <3>1, <3>2 DEF s
  <2>5. p + i >= b_size  BY <1>1, <1>2, <1>4, Sizes
  <2>6. QED BY <2>1, <2>4, <2>5 DEF Slot, r
<1>5. QED BY <1>1, <1>2, <1>3, <1>4, Sizes

LEMMA SlotAfter ==
  ASSUME NEW p \in Nat, NEW i \in 0 .. f - 1
  PROVE  \/ Slot(p + i) = Slot(p) + i
         \/ /\ Slot(p + i) = Slot(p) + i - b_size /\ Slot(p + i) < f
            /\ p + i >= b_size
<1>1. i \in 0 .. b_size - 1 /\ i < f /\ i \in Nat  BY Sizes
<1>2. Slot(p + i) \in Nat  BY <1>1, SlotType
<1>3. QED BY <1>1, <1>2, SlotTurn, Sizes

-----------------------------------------------------------------------------
(* The ring. *)
RType ==
  /\ text \in Seq(Byte) /\ b \in [0 .. b_size + f - 1 -> Byte]
  /\ pos \in Nat /\ next \in 0 .. Len(text) /\ look \in 0 .. f
  /\ ip \in 0 .. b_size - 1 /\ bp = Slot(pos) /\ rp = Slot(pos + f)

(* What was read of the text, and how much of it is ahead.                 *)
ReadAhead ==
  /\ next = (IF Len(text) < pos + f THEN Len(text) ELSE pos + f)
  /\ look = (IF pos < next THEN next - pos ELSE 0)
  /\ next < Len(text) => ip = Slot(next)

(* A position's byte stays until n + f later ones were read; the first f   *)
(* slots are repeated after the end from the second round on.              *)
RingText ==
  \A q \in 0 .. next - 1 :
    q >= pos - n =>
      /\ b[Slot(q)] = text[q + 1]
      /\ q >= b_size /\ Slot(q) < f => b[Slot(q) + b_size] = text[q + 1]

RInv == RType /\ ReadAhead /\ RingText

LEMMA RingRead ==
  ASSUME RInv, NEW p \in Nat, p >= pos - n, NEW i \in 0 .. f - 1, p + i < next
  PROVE  b[Slot(p) + i] = text[p + i + 1]
<1>1. p + i \in 0 .. next - 1 /\ p + i >= pos - n
  BY Sizes DEF RInv, RType
<1>2. /\ b[Slot(p + i)] = text[p + i + 1]
      /\ p + i >= b_size /\ Slot(p + i) < f => b[Slot(p + i) + b_size] = text[p + i + 1]
  BY <1>1 DEF RInv, RingText
<1>3. Slot(p) \in Nat /\ Slot(p + i) \in Nat
  <2>1. p + i \in Nat  BY Sizes
  <2>2. QED BY <2>1, SlotType
<1>4. CASE Slot(p + i) = Slot(p) + i  BY <1>2, <1>4
<1>5. CASE /\ Slot(p + i) = Slot(p) + i - b_size /\ Slot(p + i) < f
           /\ p + i >= b_size
  <2>1. Slot(p + i) + b_size = Slot(p) + i  BY <1>3, <1>5, Sizes
  <2>2. QED BY <1>2, <1>5, <2>1
<1>6. QED BY <1>4, <1>5, SlotAfter

LEMMA InitRing == Init => RInv
<1> SUFFICES ASSUME Init PROVE RInv  OBVIOUS
<1>1. /\ text \in Seq(Byte) /\ Len(text) \in Nat /\ look = Least(Len(text), f)
      /\ next = look /\ ip = look % b_size /\ bp = 0 /\ rp = f /\ pos = 0
  BY SwdAssumption DEF Init
<1>2. look \in 0 .. f /\ look <= Len(text) /\ look \in 0 .. b_size - 1
  BY <1>1, Sizes DEF Least
<1>3. PICK g \in Byte :
        b = [i \in 0 .. b_size + f - 1 |-> IF i < look THEN text[i + 1] ELSE g]
  BY DEF Init
<1>4. b \in [0 .. b_size + f - 1 -> Byte]
  <2>1. \A i \in 0 .. b_size + f - 1 : i < look => text[i + 1] \in Byte
    BY <1>1, <1>2, Sizes
  <2>2. QED BY <1>3, <2>1
<1>5. \A q \in 0 .. b_size - 1 : Slot(q) = q  BY Sizes, ModSmall DEF Slot
<1>6. 0 \in 0 .. b_size - 1 /\ f \in 0 .. b_size - 1  BY Sizes
<1>7. RType  BY <1>1, <1>2, <1>4, <1>5, <1>6, Sizes DEF RType, Slot
<1>8. ReadAhead  BY <1>1, <1>2, Sizes DEF ReadAhead, Least, Slot
<1>9. RingText
  <2>1. SUFFICES ASSUME NEW q \in 0 .. next - 1
                 PROVE  b[Slot(q)] = text[q + 1] /\ ~(q >= b_size)
    BY DEF RingText
  <2>2. q \in 0 .. b_size - 1 /\ q \in 0 .. b_size + f - 1 /\ q < look
    BY <1>1, <1>2, Sizes
  <2>3. QED BY <1>3, <1>5, <2>2, Sizes
<1>10. QED BY <1>7, <1>8, <1>9 DEF RInv

LEMMA GetByteRing == ASSUME RInv, swd_getbyte, text' = text PROVE RInv'
<1>1. /\ text \in Seq(Byte) /\ Len(text) \in Nat /\ pos \in Nat /\ next \in 0 .. Len(text)
      /\ ip \in 0 .. b_size - 1 /\ look \in 0 .. f /\ bp = Slot(pos) /\ rp = Slot(pos + f)
      /\ b \in [0 .. b_size + f - 1 -> Byte]
  BY DEF RInv, RType
<1>2. /\ next = (IF Len(text) < pos + f THEN Len(text) ELSE pos + f)
      /\ look = (IF pos < next THEN next - pos ELSE 0)
      /\ next < Len(text) => ip = Slot(next)
  BY DEF RInv, ReadAhead
<1>3. ip' = Succ(ip) /\ bp' = Succ(bp) /\ rp' = Succ(rp) /\ pos' = pos + 1
  BY DEF swd_getbyte
<1>4. pos' \in Nat /\ bp' = Slot(pos') /\ rp' = Slot(pos' + f)
  <2>1. pos + f \in Nat /\ pos + 1 + f = pos + f + 1  BY <1>1, Sizes
  <2>2. QED BY <1>1, <1>3, <2>1, SlotNext
<1>5. ip' \in 0 .. b_size - 1
  <2>1. ip + 1 \in Nat  BY <1>1
  <2>2. QED BY <1>3, <2>1, Sizes, DivMod DEF Succ
<1>6. CASE next = Len(text)
  <2>1. /\ look' = (IF look > 0 THEN look - 1 ELSE 0) /\ b' = b /\ next' = next
    BY <1>6 DEF swd_getbyte
  <2>2. RType'
    <3>1. look' \in 0 .. f  BY <1>1, <2>1, Sizes
    <3>2. QED BY <1>1, <1>4, <1>5, <2>1, <3>1 DEF RType
  <2>3. ReadAhead'
    <3>1. next' = (IF Len(text) < pos' + f THEN Len(text) ELSE pos' + f)
      BY <1>1, <1>2, <1>3, <1>6, <2>1, Sizes
    <3>2. look' = (IF pos' < next' THEN next' - pos' ELSE 0)
      BY <1>1, <1>2, <1>3, <2>1, Sizes
    <3>3. QED BY <1>6, <2>1, <3>1, <3>2, <1>1 DEF ReadAhead
  <2>4. RingText'
    <3>1. ASSUME NEW q \in 0 .. next' - 1, q >= pos' - n
          PROVE  /\ b'[Slot(q)] = text'[q + 1]
                 /\ q >= b_size /\ Slot(q) < f => b'[Slot(q) + b_size] = text'[q + 1]
      <4>1. q \in 0 .. next - 1 /\ q >= pos - n  BY <1>1, <1>3, <2>1, <3>1, Sizes
      <4>2. QED BY <2>1, <4>1 DEF RInv, RingText
    <3>2. QED BY <3>1 DEF RingText, Slot
  <2>5. QED BY <2>2, <2>3, <2>4 DEF RInv
<1>7. CASE next < Len(text)
  <2>1. b' = Written(text[next + 1]) /\ next' = next + 1 /\ look' = look
    BY <1>1, <1>7 DEF swd_getbyte
  <2>2. next = pos + f /\ ip = Slot(next) /\ look = f /\ next \in Nat
    BY <1>1, <1>2, <1>7, Sizes
  <2> DEFINE c == text[next + 1]
  <2>3. c \in Byte  BY <1>1, <1>7
  <2>4. b' = [i \in 0 .. b_size + f - 1 |->
                IF i = ip \/ (ip < f /\ i = ip + b_size) THEN c ELSE b[i]]
    BY <1>1, <2>1 DEF Written
  <2> HIDE DEF c
  <2>5. b' \in [0 .. b_size + f - 1 -> Byte]  BY <1>1, <2>3, <2>4
  <2>6. RType'
    <3>1. next' \in 0 .. Len(text)  BY <1>1, <1>7, <2>1
    <3>2. QED BY <1>1, <1>4, <1>5, <2>1, <2>5, <3>1 DEF RType
  <2>7. ReadAhead'
    <3>1. ip' = Slot(next')  BY <1>3, <2>1, <2>2, SlotNext
    <3>2. QED BY <1>1, <1>3, <1>7, <2>1, <2>2, <3>1, Sizes DEF ReadAhead
  <2>8. RingText'
    <3>0. SUFFICES ASSUME NEW q \in 0 .. next' - 1, q >= pos' - n
                   PROVE  /\ b'[Slot(q)] = text'[q + 1]
                          /\ q >= b_size /\ Slot(q) < f => b'[Slot(q) + b_size] = text'[q + 1]
      BY DEF RingText, Slot
    <3>1. q \in 0 .. next /\ q >= pos + 1 - n  BY <1>1, <1>3, <2>1, <3>0, Sizes
    <3>2. q \in Nat /\ Slot(q) \in 0 .. b_size - 1 /\ Slot(q) \in 0 .. b_size + f - 1
          /\ (Slot(q) < f => Slot(q) + b_size \in 0 .. b_size + f - 1)
          /\ Slot(q) + b_size # ip /\ Slot(q) # ip + b_size
      <4>1. q \in Nat  BY <2>2
      <4>2. Slot(q) \in 0 .. b_size - 1  BY <4>1, SlotType
      <4>3. QED BY <1>1, <4>1, <4>2, Sizes
    <3>3. CASE q = next  BY <2>2, <2>4, <3>2, <3>3 DEF c
    <3>4. CASE q # next
      <4>1. q \in 0 .. next - 1 /\ q >= pos - n /\ q < next /\ next - q < b_size
        BY <1>1, <2>2, <3>1, <3>4, Sizes
      <4>2. Slot(q) # ip  BY <2>2, <3>2, <4>1, SlotsDiffer
      <4>3. /\ b[Slot(q)] = text[q + 1]
            /\ q >= b_size /\ Slot(q) < f => b[Slot(q) + b_size] = text[q + 1]
        BY <4>1 DEF RInv, RingText
      <4>4. Slot(q) + b_size # ip + b_size  BY <1>1, <3>2, <4>2, Sizes
      <4>5. QED BY <2>4, <3>2, <4>2, <4>3, <4>4
    <3>5. QED BY <3>3, <3>4
  <2>9. QED BY <2>6, <2>7, <2>8 DEF RInv
<1>8. QED BY <1>1, <1>6, <1>7

LEMMA NextRing == RInv /\ [Next]_vars => RInv'
<1> SUFFICES ASSUME RInv, [Next]_vars PROVE RInv'  OBVIOUS
<1>1. CASE Find
  BY <1>1 DEF Find, RInv, RType, ReadAhead, RingText, ring, Slot
<1>2. CASE Accept  BY <1>2, GetByteRing DEF Accept
<1>3. ASSUME NEW max_chain \in MaxChains, FindBest(max_chain) PROVE RInv'
  BY <1>3, GetByteRing DEF FindBest
<1>4. CASE UNCHANGED vars
  BY <1>4 DEF vars, RInv, RType, ReadAhead, RingText, ring, Slot
<1>5. QED BY <1>1, <1>2, <1>3, <1>4 DEF Next

(* The ring's invariant is inductive by itself.                            *)
THEOREM RingInvariant == Spec => []RInv
BY InitRing, NextRing, PTL DEF Spec

(* The bytes of the window and those ahead are read across the end of the  *)
(* ring as they are in the text, for every size of the ring.               *)
THEOREM AlwaysHolds == Spec => []RingHoldsWindow
<1>1. RInv => RingHoldsWindow
  <2> SUFFICES ASSUME RInv, NEW p \in Window \cup pos .. next - 1, NEW i \in 0 .. f - 1,
                      p + i < next
               PROVE  b[Slot(p) + i] = text[p + i + 1]
    BY DEF RingHoldsWindow
  <2>1. pos \in Nat /\ next \in Nat  BY DEF RInv, RType
  <2>2. p \in Nat /\ p >= pos - n  BY <2>1, Sizes DEF Window
  <2>3. QED BY <2>2, RingRead
<1>2. QED BY <1>1, RingInvariant, PTL

-----------------------------------------------------------------------------
(* The chains.  The nodes of a key are positions of the window; each is    *)
(* linked to the next older one, and the newest is the head.               *)
WindowAt(x) == {p \in 0 .. x - 1 : p >= x - n}
KeyAt(c, p) == Hash(c[Slot(p)], c[Slot(p) + 1], c[Slot(p) + 2])
Nodes(c, x, k) == {p \in WindowAt(x) : KeyAt(c, p) = k}

HeadOk(K, first) == \A p \in K : (\A q \in K : q <= p) => first = Slot(p)
LinksOk(K, succ) ==
  \A p \in K, q \in K :
    q < p /\ (\A r \in K : ~(q < r /\ r < p)) => succ[Slot(p)] = Slot(q)

CType ==
  /\ node_count = (IF pos < n THEN n - pos ELSE 0)
  /\ head3 \in [Keys -> 0 .. b_size - 1] /\ llen3 \in [Keys -> Int]
  /\ succ3 \in [0 .. b_size - 1 -> 0 .. b_size - 1]

Chained ==
  \A k \in Keys :
    /\ llen3[k] = Cardinality(Nodes(b, pos, k))
    /\ HeadOk(Nodes(b, pos, k), head3[k])
    /\ LinksOk(Nodes(b, pos, k), succ3)

CInv == RInv /\ CType /\ Chained

LEMMA NodesFinite ==
  ASSUME NEW c, NEW x \in Nat, NEW k
  PROVE  /\ IsFiniteSet(Nodes(c, x, k)) /\ Nodes(c, x, k) \subseteq 0 .. x - 1
         /\ Cardinality(Nodes(c, x, k)) \in Nat
<1>1. Nodes(c, x, k) \subseteq 0 .. x - 1  BY DEF Nodes, WindowAt
<1>2. IsFiniteSet(0 .. x - 1)  BY FS_Interval
<1>3. QED BY <1>1, <1>2, FS_Subset, FS_CardinalityType

LEMMA KeyOfSlot == \A p : HEAD3(Slot(p)) = KeyAt(b, p)
BY DEF HEAD3, KeyAt

LEMMA KeyType ==
  ASSUME RType, NEW p \in Nat
  PROVE  KeyAt(b, p) \in Keys
<1>1. Slot(p) \in 0 .. b_size - 1 /\ b \in [0 .. b_size + f - 1 -> Byte]
  BY SlotType DEF RType
<1>2. /\ Slot(p) \in 0 .. b_size + f - 1 /\ Slot(p) + 1 \in 0 .. b_size + f - 1
      /\ Slot(p) + 2 \in 0 .. b_size + f - 1
  BY <1>1, Sizes
<1>3. b[Slot(p)] \in Byte /\ b[Slot(p) + 1] \in Byte /\ b[Slot(p) + 2] \in Byte
  BY <1>1, <1>2
<1>4. QED BY <1>3, SwdAssumption DEF KeyAt

(* A position that stays in the window keeps its hash: what is written to  *)
(* the ring is not what the hash is computed from, even across the end.    *)
LEMMA KeyStays ==
  ASSUME RInv, swd_getbyte, text' = text,
         NEW p \in Nat, p >= pos + 1 - n, p <= pos
  PROVE  KeyAt(b', p) = KeyAt(b, p)
<1>1. /\ RInv' /\ pos \in Nat /\ Len(text) \in Nat /\ next \in 0 .. Len(text)
      /\ next = (IF Len(text) < pos + f THEN Len(text) ELSE pos + f)
  BY GetByteRing DEF RInv, RType, ReadAhead
<1>2. CASE next = Len(text)
  <2>1. b' = b  BY <1>2 DEF swd_getbyte
  <2>2. QED BY <2>1
<1>3. CASE next < Len(text)
  <2>1. next = pos + f /\ next' = next + 1 /\ pos' = pos + 1
    BY <1>1, <1>3, Sizes DEF swd_getbyte
  <2>2. ASSUME NEW i \in 0 .. 2 PROVE b'[Slot(p) + i] = b[Slot(p) + i]
    <3>1. i \in 0 .. f - 1 /\ p + i < next /\ p >= pos - n  BY <1>1, <2>1, Sizes
    <3>2. b[Slot(p) + i] = text[p + i + 1]  BY <3>1, RingRead
    <3>3. RingText'  BY <1>1 DEF RInv
    <3>4. b'[Slot(p) + i] = text[p + i + 1]
      <4>1. p + i \in 0 .. next' - 1 /\ p + i >= pos' - n  BY <1>1, <2>1, <3>1, Sizes
      <4>2. /\ b'[Slot(p + i)] = text[p + i + 1]
            /\ p + i >= b_size /\ Slot(p + i) < f => b'[Slot(p + i) + b_size] = text[p + i + 1]
        BY <3>3, <4>1 DEF RingText, Slot
      <4>3. Slot(p) \in Nat /\ Slot(p + i) \in Nat
        <5>1. p + i \in Nat  OBVIOUS
        <5>2. QED BY <5>1, SlotType
      <4>4. CASE Slot(p + i) = Slot(p) + i  BY <4>2, <4>4
      <4>5. CASE /\ Slot(p + i) = Slot(p) + i - b_size /\ Slot(p + i) < f
                 /\ p + i >= b_size
        <5>1. Slot(p + i) + b_size = Slot(p) + i  BY <4>3, <4>5, Sizes
        <5>2. QED BY <4>2, <4>5, <5>1
      <4>6. QED BY <3>1, <4>4, <4>5, SlotAfter
    <3>5. QED BY <3>2, <3>4
  <2>3. Slot(p) + 0 = Slot(p)  BY SlotType
  <2>4. QED BY <2>2, <2>3 DEF KeyAt
<1>4. QED BY <1>1, <1>2, <1>3

(* The length of a chain goes up and down with its nodes. *)
LEMMA LengthNext ==
  ASSUME NEW K, NEW L, NEW x \in Nat, NEW y \in Int, IsFiniteSet(K), x \notin K, x # y,
         NEW enters \in BOOLEAN,
         \A p : p \in L <=> (p \in K /\ p # y) \/ (p = x /\ enters)
  PROVE  Cardinality(L) = Cardinality(K) + (IF enters THEN 1 ELSE 0)
                                         - (IF y \in K THEN 1 ELSE 0)
<1> DEFINE M == K \ {y}
<1>1. /\ IsFiniteSet(M)
      /\ Cardinality(M) = IF y \in K THEN Cardinality(K) - 1 ELSE Cardinality(K)
  BY FS_RemoveElement
<1>2. Cardinality(K) \in Nat /\ Cardinality(M) \in Nat  BY <1>1, FS_CardinalityType
<1>3. CASE enters
  <2>1. L = M \cup {x} /\ x \notin M  BY <1>3
  <2>2. Cardinality(L) = Cardinality(M) + 1  BY <1>1, <2>1, FS_AddElement
  <2> HIDE DEF M
  <2>3. QED BY <1>1, <1>2, <1>3, <2>2
<1>4. CASE ~enters
  <2>1. L = M  BY <1>4
  <2> HIDE DEF M
  <2>2. QED BY <1>1, <1>2, <1>4, <2>1
<1>5. QED BY <1>3, <1>4

LEMMA InitChains == Init => CInv
<1> SUFFICES ASSUME Init PROVE CInv  OBVIOUS
<1>1. RInv  BY InitRing
<1>2. pos = 0 /\ node_count = n /\ 0 \in 0 .. b_size - 1  BY Sizes DEF Init
<1>3. CType  BY <1>2, Sizes DEF Init, CType
<1>4. ASSUME NEW k \in Keys PROVE llen3[k] = Cardinality(Nodes(b, pos, k))
                                  /\ Nodes(b, pos, k) = {}
  <2>1. Nodes(b, pos, k) = {}  BY <1>2 DEF Nodes, WindowAt
  <2>2. llen3[k] = 0  BY DEF Init
  <2>3. QED BY <2>1, <2>2, FS_EmptySet
<1>5. Chained  BY <1>4 DEF Chained, HeadOk, LinksOk
<1>6. QED BY <1>1, <1>3, <1>5 DEF CInv

LEMMA InsertChains ==
  ASSUME CInv, InsertAndRemove, swd_getbyte, text' = text
  PROVE  CInv'
<1>1. RInv /\ RInv' /\ CType /\ Chained  BY GetByteRing DEF CInv
<1>2. pos \in Nat /\ pos' = pos + 1 /\ bp = Slot(pos) /\ rp = Slot(pos + f)
      /\ bp \in 0 .. b_size - 1
  BY <1>1, SlotType DEF RInv, RType, swd_getbyte
<1>3. /\ node_count = (IF pos < n THEN n - pos ELSE 0)
      /\ head3 \in [Keys -> 0 .. b_size - 1] /\ llen3 \in [Keys -> Int]
      /\ succ3 \in [0 .. b_size - 1 -> 0 .. b_size - 1]
  BY <1>1 DEF CType
<1> DEFINE k0 == KeyAt(b, pos)
<1>4. k0 \in Keys /\ HEAD3(bp) = k0
  BY <1>1, <1>2, KeyType, KeyOfSlot DEF RInv
<1>5. node_count = 0 <=> pos >= n  BY <1>2, <1>3, Sizes
<1>6. pos >= n => HEAD3(rp) = KeyAt(b, pos - n)
  <2>1. SUFFICES ASSUME pos >= n PROVE HEAD3(rp) = KeyAt(b, pos - n)  OBVIOUS
  <2>2. pos - n \in Nat /\ pos + f = (pos - n) + b_size  BY <1>2, <2>1, Sizes
  <2>3. Slot(pos + f) = Slot(pos - n)  BY <2>2, Sizes, ModAround DEF Slot
  <2>4. QED BY <1>2, <2>3, KeyOfSlot
<1>7. /\ succ3' = [succ3 EXCEPT ![bp] = head3[k0]]
      /\ head3' = [head3 EXCEPT ![k0] = bp]
      /\ llen3' = [k \in Keys |-> llen3[k] + Change[k]]
      /\ node_count' = IF node_count = 0 THEN 0 ELSE node_count - 1
  BY <1>4 DEF InsertAndRemove
<1>8. ASSUME NEW k \in Keys
      PROVE  Change[k] = (IF k = k0 THEN 1 ELSE 0)
                           - (IF pos >= n /\ k = KeyAt(b, pos - n) THEN 1 ELSE 0)
  BY <1>4, <1>5, <1>6 DEF Change
<1> HIDE DEF k0
<1>9. CType'
  <2>1. node_count' = (IF pos' < n THEN n - pos' ELSE 0)
    <3>1. node_count' = (IF node_count = 0 THEN 0 ELSE node_count - 1)  BY <1>7
    <3>2. pos \in Nat /\ n \in Nat /\ pos' = pos + 1  BY <1>2, Sizes
    <3>3. CASE pos < n
      <4>1. node_count = n - pos  BY <1>3, <3>3
      <4>2. node_count' = n - pos - 1  BY <3>1, <3>2, <3>3, <4>1
      <4>3. QED BY <3>2, <3>3, <4>2
    <3>4. CASE pos >= n
      <4>1. node_count' = 0  BY <1>5, <3>1, <3>4
      <4>2. QED BY <3>2, <3>4, <4>1
    <3>5. QED BY <3>2, <3>3, <3>4
  <2>2. head3' \in [Keys -> 0 .. b_size - 1]  BY <1>2, <1>3, <1>7
  <2>3. succ3' \in [0 .. b_size - 1 -> 0 .. b_size - 1]
    <3>1. head3[k0] \in 0 .. b_size - 1  BY <1>3, <1>4
    <3>2. QED BY <1>2, <1>3, <1>7, <3>1
  <2>4. llen3' \in [Keys -> Int]
    <3>1. \A k \in Keys : llen3[k] + Change[k] \in Int  BY <1>3, <1>8
    <3>2. QED BY <1>7, <3>1
  <2>5. QED BY <2>1, <2>2, <2>3, <2>4 DEF CType
<1>10. ASSUME NEW k \in Keys
       PROVE  /\ llen3'[k] = Cardinality(Nodes(b', pos', k))
              /\ HeadOk(Nodes(b', pos', k), head3'[k])
              /\ LinksOk(Nodes(b', pos', k), succ3')
  <2> DEFINE K == Nodes(b, pos, k)
             L == Nodes(b', pos + 1, k)
  <2>1. /\ llen3[k] = Cardinality(K) /\ HeadOk(K, head3[k]) /\ LinksOk(K, succ3)
    BY <1>1 DEF Chained
  <2>2. \A p \in Nat : p >= pos + 1 - n /\ p <= pos => KeyAt(b', p) = KeyAt(b, p)
    BY <1>1, KeyStays
  <2>3. /\ \A p : p \in L <=> (p \in K /\ p # pos - n) \/ (p = pos /\ k0 = k)
        /\ \A p \in K : p \in Nat /\ p < pos /\ p >= pos - n
        /\ pos - n \in K <=> pos >= n /\ KeyAt(b, pos - n) = k
    <3>1. /\ \A p : p \in L <=> (p \in K /\ p # pos - n) \/ (p = pos /\ KeyAt(b, pos) = k)
          /\ \A p \in K : p \in Nat /\ p < pos /\ p >= pos - n
          /\ pos - n \in K <=> pos >= n /\ KeyAt(b, pos - n) = k
      <4> DEFINE d == b'
                 c == b
      <4>1. pos \in Nat /\ \A p \in Nat : p >= pos + 1 - n /\ p <= pos => KeyAt(d, p) = KeyAt(c, p)
        BY <1>2, <2>2
      <4> HIDE DEF d, c
      <4>2. /\ \A p : p \in Nodes(d, pos + 1, k)
                        <=> (p \in Nodes(c, pos, k) /\ p # pos - n) \/ (p = pos /\ KeyAt(c, pos) = k)
            /\ \A p \in Nodes(c, pos, k) : p \in Nat /\ p < pos /\ p >= pos - n
            /\ pos - n \in Nodes(c, pos, k) <=> pos >= n /\ KeyAt(c, pos - n) = k
        BY <4>1, Sizes DEF Nodes, WindowAt
      <4>3. QED BY <4>2 DEF K, L, d, c
    <3> HIDE DEF K, L
    <3>2. QED BY <3>1 DEF k0
  <2>4. IsFiniteSet(K) /\ Cardinality(K) \in Nat  BY <1>2, NodesFinite
  <2> HIDE DEF K, L
  <2>5. llen3'[k] = Cardinality(L)
    <3>1. pos \notin K /\ pos # pos - n /\ pos - n \in Int  BY <1>2, <2>3, Sizes
    <3>2. Cardinality(L) = Cardinality(K) + (IF k0 = k THEN 1 ELSE 0)
                                          - (IF pos - n \in K THEN 1 ELSE 0)
      <4> DEFINE e == k0 = k
      <4>1. e \in BOOLEAN /\ \A p : p \in L <=> (p \in K /\ p # pos - n) \/ (p = pos /\ e)
        BY <2>3
      <4> HIDE DEF e
      <4>2. Cardinality(L) = Cardinality(K) + (IF e THEN 1 ELSE 0)
                                            - (IF pos - n \in K THEN 1 ELSE 0)
        BY <1>2, <2>4, <3>1, <4>1, LengthNext
      <4>3. QED BY <4>2 DEF e
    <3>3. llen3'[k] = llen3[k] + Change[k]  BY <1>7
    <3>4. QED BY <1>8, <2>1, <2>3, <2>4, <3>2, <3>3
  <2>6. HeadOk(L, head3'[k])
    <3>1. SUFFICES ASSUME NEW p \in L, \A q \in L : q <= p
                   PROVE  head3'[k] = Slot(p)
      BY DEF HeadOk
    <3>2. CASE k0 = k
      <4>1. pos \in L  BY <2>3, <3>2
      <4>2. p = pos  BY <1>2, <2>3, <3>1, <4>1
      <4>3. QED BY <1>2, <1>3, <1>7, <3>2, <4>2
    <3>3. CASE k0 # k
      <4>1. p \in K /\ p # pos - n  BY <2>3, <3>1, <3>3
      <4>2. \A q \in K : q <= p
        <5>1. SUFFICES ASSUME NEW q \in K PROVE q <= p  OBVIOUS
        <5>2. CASE q = pos - n  BY <1>2, <2>3, <4>1, <5>2, Sizes
        <5>3. CASE q # pos - n
          <6>1. q \in L  BY <2>3, <5>3
          <6>2. QED BY <3>1, <6>1
        <5>4. QED BY <5>2, <5>3
      <4>3. head3[k] = Slot(p)  BY <2>1, <4>1, <4>2 DEF HeadOk
      <4>4. QED BY <1>3, <1>7, <3>3, <4>3
    <3>4. QED BY <3>2, <3>3
  <2>7. LinksOk(L, succ3')
    <3>1. SUFFICES ASSUME NEW p \in L, NEW q \in L, q < p,
                          \A r \in L : ~(q < r /\ r < p)
                   PROVE  succ3'[Slot(p)] = Slot(q)
      BY DEF LinksOk
    <3>2. q \in K /\ q # pos - n /\ q \in Nat /\ p \in Nat /\ p <= pos
      BY <1>2, <2>3, <3>1
    <3>3. \A r \in K : r > q => r \in L /\ r \in Nat
      BY <1>2, <2>3, <3>2, Sizes
    <3>4. CASE p = pos
      <4>1. k0 = k  BY <2>3, <3>1, <3>4
      <4>2. \A r \in K : r <= q
        <5>1. SUFFICES ASSUME NEW r \in K, r > q PROVE FALSE  BY <2>3, <3>2
        <5>2. r \in L /\ r < pos  BY <2>3, <3>3, <5>1
        <5>3. QED BY <3>1, <3>4, <5>1, <5>2
      <4>3. head3[k] = Slot(q)  BY <2>1, <3>2, <4>2 DEF HeadOk
      <4>4. QED BY <1>2, <1>3, <1>7, <3>4, <4>1, <4>3
    <3>5. CASE p # pos
      <4>1. p \in K /\ p < pos /\ pos - p < b_size
        BY <1>2, <2>3, <3>1, <3>2, <3>5, Sizes
      <4>2. \A r \in K : ~(q < r /\ r < p)  BY <3>1, <3>3
      <4>3. succ3[Slot(p)] = Slot(q)  BY <2>1, <3>1, <3>2, <4>1, <4>2 DEF LinksOk
      <4>4. Slot(p) # bp  BY <1>2, <3>2, <4>1, SlotsDiffer
      <4>5. QED BY <1>3, <1>7, <4>3, <4>4
    <3>6. QED BY <3>4, <3>5
  <2>8. QED BY <1>2, <2>5, <2>6, <2>7 DEF L
<1>11. Chained'  BY <1>10 DEF Chained, Nodes, WindowAt, KeyAt, HeadOk, LinksOk, Slot
<1>12. QED BY <1>1, <1>9, <1>11 DEF CInv

LEMMA NextChains == CInv /\ [Next]_vars => CInv'
<1> SUFFICES ASSUME CInv, [Next]_vars PROVE CInv'  OBVIOUS
<1>0. RInv'  BY NextRing DEF CInv
<1>1. ASSUME UNCHANGED <<ring, chains, pos>> PROVE CType' /\ Chained'
  <2>1. /\ b' = b /\ pos' = pos /\ node_count' = node_count /\ head3' = head3
        /\ succ3' = succ3 /\ llen3' = llen3
    BY <1>1 DEF ring, chains
  <2>2. CType'  BY <2>1 DEF CInv, CType
  <2>3. Chained'
    BY <2>1 DEF CInv, Chained, Nodes, WindowAt, KeyAt, HeadOk, LinksOk, Slot
  <2>4. QED BY <2>2, <2>3
<1>2. CASE Find  BY <1>0, <1>1, <1>2 DEF Find, CInv
<1>3. CASE Accept  BY <1>3, InsertChains DEF Accept
<1>4. ASSUME NEW max_chain \in MaxChains, FindBest(max_chain) PROVE CInv'
  BY <1>4, InsertChains DEF FindBest
<1>5. CASE UNCHANGED vars  BY <1>0, <1>1, <1>5 DEF vars, CInv
<1>6. QED BY <1>2, <1>3, <1>4, <1>5 DEF Next

(* The chains' invariant, from that of the ring.                           *)
THEOREM ChainInvariant == Spec => []CInv
BY InitChains, NextChains, PTL DEF Spec

-----------------------------------------------------------------------------
(* The places in a chain. *)
LEMMA PlaceFacts ==
  ASSUME NEW K \in SUBSET Nat, IsFiniteSet(K), NEW p \in K
  PROVE  /\ Place(p, K) \in 1 .. Cardinality(K)
         /\ (\A q \in K : q <= p) => Place(p, K) = 1
         /\ (\A q \in K : q >= p) <=> Place(p, K) = Cardinality(K)
         /\ \A q \in K : q < p => Place(p, K) < Place(q, K)
<1> DEFINE Up(x) == {q \in K : q >= x}
<1>1. ASSUME NEW x \in K
      PROVE  /\ IsFiniteSet(Up(x)) /\ Cardinality(Up(x)) \in Nat
             /\ Cardinality(Up(x)) <= Cardinality(K) /\ Cardinality(K) \in Nat
             /\ Cardinality(Up(x)) >= 1
             /\ Cardinality(Up(x)) = Cardinality(K) => Up(x) = K
  <2>1. Up(x) \in SUBSET K  OBVIOUS
  <2>2. /\ IsFiniteSet(Up(x)) /\ Cardinality(Up(x)) <= Cardinality(K)
        /\ Cardinality(K) = Cardinality(Up(x)) => Up(x) = K
    BY <2>1, FS_Subset
  <2>3. x \in Up(x)  OBVIOUS
  <2>4. Cardinality(Up(x)) # 0  BY <2>2, <2>3, FS_EmptySet
  <2> HIDE DEF Up
  <2>5. QED BY <2>2, <2>4, FS_CardinalityType
<1>2. Place(p, K) = Cardinality(Up(p))  BY DEF Place
<1>3. (\A q \in K : q <= p) => Place(p, K) = 1
  <2>1. SUFFICES ASSUME \A q \in K : q <= p PROVE Cardinality(Up(p)) = 1  BY <1>2
  <2>2. p \in Nat /\ \A q \in K : q \in Nat  OBVIOUS
  <2>3. \A q \in K : q >= p <=> q = p  BY <2>1, <2>2
  <2>4. Up(p) = {p}  BY <2>3
  <2>5. QED BY <2>4, FS_Singleton
<1>4. (\A q \in K : q >= p) <=> Place(p, K) = Cardinality(K)
  <2>1. (\A q \in K : q >= p) <=> Up(p) = K  OBVIOUS
  <2> HIDE DEF Up
  <2>2. QED BY <1>1, <1>2, <2>1
<1>5. ASSUME NEW q \in K, q < p PROVE Place(p, K) < Place(q, K)
  <2>0. p \in Nat /\ q \in Nat /\ \A r \in K : r \in Nat  OBVIOUS
  <2>a. ~(q >= p) /\ q >= q /\ \A r \in K : r >= p => r >= q  BY <1>5, <2>0
  <2>1. Up(p) \in SUBSET Up(q) /\ q \in Up(q) /\ q \notin Up(p)  BY <2>a
  <2>2. Place(q, K) = Cardinality(Up(q))  BY DEF Place
  <2> HIDE DEF Up
  <2>3. /\ Cardinality(Up(p)) <= Cardinality(Up(q))
        /\ Cardinality(Up(q)) = Cardinality(Up(p)) => Up(q) = Up(p)
    BY <1>1, <2>1, FS_Subset
  <2>4. Cardinality(Up(p)) # Cardinality(Up(q))  BY <2>1, <2>3
  <2>5. QED BY <1>1, <1>2, <2>2, <2>3, <2>4
<1> HIDE DEF Up
<1>6. QED BY <1>1, <1>2, <1>3, <1>4, <1>5

LEMMA NextPlace ==
  ASSUME NEW K \in SUBSET Nat, IsFiniteSet(K), NEW p \in K, NEW q \in K, q < p,
         \A r \in K : ~(q < r /\ r < p)
  PROVE  Place(q, K) = Place(p, K) + 1
<1> DEFINE P == {r \in K : r >= p}
           Q == {r \in K : r >= q}
<1>1. Q = P \cup {q} /\ q \notin P
  <2>1. p \in Nat /\ q \in Nat /\ \A r \in K : r \in Nat  OBVIOUS
  <2>2. ~(q >= p) /\ \A r \in K : r >= q <=> r >= p \/ r = q  BY <2>1
  <2>3. QED BY <2>2
<1>2. IsFiniteSet(P)
  <2>1. P \in SUBSET K  OBVIOUS
  <2>2. QED BY <2>1, FS_Subset
<1> HIDE DEF P, Q
<1>3. Cardinality(Q) = Cardinality(P) + 1  BY <1>1, <1>2, FS_AddElement
<1>4. QED BY <1>3 DEF Place, P, Q

Iteration(h, s, cnt, g) == [i \in 1 .. cnt |-> IF i = 1 THEN h ELSE s[g[i - 1]]]

LEMMA IterationExists ==
  ASSUME NEW h, NEW s, NEW cnt \in Nat
  PROVE  \E g : g = Iteration(h, s, cnt, g)
<1> DEFINE S == {k \in Nat : \E g : g = [i \in 1 .. k |-> IF i = 1 THEN h ELSE s[g[i - 1]]]}
<1>1. 0 \in S
  <2> DEFINE g == [i \in 1 .. 0 |-> h]
  <2>1. g = [i \in 1 .. 0 |-> IF i = 1 THEN h ELSE s[g[i - 1]]]  OBVIOUS
  <2> HIDE DEF g
  <2>2. QED BY <2>1
<1>2. ASSUME NEW k \in S PROVE k + 1 \in S
  <2>1. k \in Nat  OBVIOUS
  <2>2. PICK g : g = [i \in 1 .. k |-> IF i = 1 THEN h ELSE s[g[i - 1]]]  OBVIOUS
  <2> DEFINE e == [i \in 1 .. k + 1 |->
                     IF i <= k THEN g[i] ELSE IF i = 1 THEN h ELSE s[g[k]]]
  <2>3. ASSUME NEW i \in 1 .. k + 1
        PROVE  e[i] = IF i = 1 THEN h ELSE s[e[i - 1]]
    <3>1. CASE i <= k
      <4>1. i \in 1 .. k /\ e[i] = g[i]  BY <2>1, <3>1
      <4>2. g[i] = IF i = 1 THEN h ELSE s[g[i - 1]]  BY <2>2, <4>1
      <4>3. i # 1 => e[i - 1] = g[i - 1]
        <5>1. i # 1 => i - 1 \in 1 .. k + 1 /\ i - 1 <= k  BY <2>1, <3>1
        <5>2. QED BY <5>1
      <4>4. QED BY <4>1, <4>2, <4>3
    <3>2. CASE i > k
      <4>1. i = k + 1 /\ i - 1 = k  BY <2>1, <3>2
      <4>2. i # 1 => k \in 1 .. k + 1 /\ e[k] = g[k]  BY <2>1, <4>1
      <4>3. e[i] = IF i = 1 THEN h ELSE s[g[k]]  BY <2>1, <4>1
      <4>4. QED BY <4>1, <4>2, <4>3
    <3>3. QED BY <2>1, <3>1, <3>2
  <2>4. e = [i \in 1 .. k + 1 |-> e[i]]  OBVIOUS
  <2> HIDE DEF e
  <2>5. e = [i \in 1 .. k + 1 |-> IF i = 1 THEN h ELSE s[e[i - 1]]]  BY <2>3, <2>4
  <2>6. QED BY <2>1, <2>5
<1>3. S = Nat
  <2> HIDE DEF S
  <2>1. S \in SUBSET Nat  BY DEF S
  <2>2. QED BY <1>1, <1>2, <2>1, SetInduction
<1>4. cnt \in S  BY <1>3
<1>5. QED BY <1>4 DEF Iteration

LEMMA ChainStep ==
  ASSUME NEW key, NEW cnt \in Nat
  PROVE  /\ Len(Chain(key, cnt)) = cnt
         /\ \A i \in 1 .. cnt :
              Chain(key, cnt)[i] = IF i = 1 THEN head3[key]
                                   ELSE succ3[Chain(key, cnt)[i - 1]]
<1> DEFINE G(g) == [i \in 1 .. cnt |-> IF i = 1 THEN head3[key] ELSE succ3[g[i - 1]]]
           node == CHOOSE g : g = G(g)
<1>1. \E g : g = G(g)
  <2>1. PICK g : g = Iteration(head3[key], succ3, cnt, g)  BY IterationExists
  <2>2. g = G(g)  BY <2>1 DEF Iteration
  <2> HIDE DEF G
  <2>3. QED BY <2>2
<1>2. node = G(node)  BY <1>1
<1>3. Chain(key, cnt) = [i \in 1 .. cnt |-> node[i]]  BY DEF Chain
<1> HIDE DEF node
<1>4. Len(Chain(key, cnt)) = cnt  BY <1>3
<1>5. ASSUME NEW i \in 1 .. cnt
      PROVE  Chain(key, cnt)[i] = IF i = 1 THEN head3[key]
                                  ELSE succ3[Chain(key, cnt)[i - 1]]
  <2>1. Chain(key, cnt)[i] = node[i]  BY <1>3
  <2>2. node[i] = IF i = 1 THEN head3[key] ELSE succ3[node[i - 1]]  BY <1>2
  <2>3. i # 1 => Chain(key, cnt)[i - 1] = node[i - 1]
    <3>1. i # 1 => i - 1 \in 1 .. cnt  OBVIOUS
    <3>2. QED BY <1>3, <3>1
  <2>4. QED BY <2>1, <2>2, <2>3
<1>6. QED BY <1>4, <1>5

(* A chain is followed from the newest node to the oldest.                 *)
LEMMA ChainFollows ==
  ASSUME CInv, NEW k \in Keys, NEW cnt \in Nat, cnt <= llen3[k]
  PROVE  \A i \in 1 .. cnt :
           \E p \in Nodes(b, pos, k) :
             Place(p, Nodes(b, pos, k)) = i /\ Chain(k, cnt)[i] = Slot(p)
<1> DEFINE K == Nodes(b, pos, k)
           C == Chain(k, cnt)
           S == {i \in Nat : i + 1 > cnt \/ \E p \in K : Place(p, K) = i + 1 /\ C[i + 1] = Slot(p)}
<1>1. pos \in Nat  BY DEF CInv, RInv, RType
<1>2. /\ llen3[k] = Cardinality(K) /\ HeadOk(K, head3[k]) /\ LinksOk(K, succ3)
  BY DEF CInv, Chained
<1>3. IsFiniteSet(K) /\ K \subseteq 0 .. pos - 1 /\ Cardinality(K) \in Nat
  BY <1>1, NodesFinite
<1>4. K \in SUBSET Nat  BY <1>1, <1>3
<1>5. \A i \in 1 .. cnt : C[i] = IF i = 1 THEN head3[k] ELSE succ3[C[i - 1]]
  BY ChainStep
<1> HIDE DEF K, C
<1>6. 0 \in S
  <2>1. SUFFICES ASSUME 1 <= cnt PROVE \E p \in K : Place(p, K) = 1 /\ C[1] = Slot(p)
    OBVIOUS
  <2>2. K # {}  BY <1>2, <1>3, <2>1, FS_EmptySet
  <2>3. \E p \in K : p < pos
    <3>1. PICK p \in K : TRUE  BY <2>2
    <3>2. p \in 0 .. pos - 1  BY <1>3
    <3>3. QED BY <1>1, <3>1, <3>2
  <2>4. PICK p \in K : p < pos /\ \A r \in K : ~(p < r /\ r < pos)
    BY <1>1, <1>4, <2>3, GreatestBelow
  <2>5. \A r \in K : r <= p  BY <1>1, <1>3, <2>4
  <2>6. Place(p, K) = 1  BY <1>3, <1>4, <2>5, PlaceFacts
  <2>7. head3[k] = Slot(p)  BY <1>2, <2>5 DEF HeadOk
  <2>8. 1 \in 1 .. cnt  BY <2>1
  <2>9. QED BY <1>5, <2>6, <2>7, <2>8
<1>7. ASSUME NEW i \in S PROVE i + 1 \in S
  <2>1. SUFFICES ASSUME i + 2 <= cnt
                 PROVE  \E q \in K : Place(q, K) = i + 2 /\ C[i + 2] = Slot(q)
    OBVIOUS
  <2>2. i \in Nat /\ ~(i + 1 > cnt)  BY <2>1
  <2>3. PICK p \in K : Place(p, K) = i + 1 /\ C[i + 1] = Slot(p)  BY <2>2
  <2>4. \E q \in K : q < p
    <3>1. Place(p, K) # Cardinality(K)  BY <1>2, <1>3, <2>1, <2>2, <2>3
    <3>2. PICK q \in K : ~(q >= p)  BY <1>3, <1>4, <3>1, PlaceFacts
    <3>3. QED BY <1>4, <3>2
  <2>5. PICK q \in K : q < p /\ \A r \in K : ~(q < r /\ r < p)
    BY <1>4, <2>4, GreatestBelow
  <2>6. Place(q, K) = i + 2
    <3>1. Place(q, K) = Place(p, K) + 1  BY <1>3, <1>4, <2>5, NextPlace
    <3>2. QED BY <2>2, <2>3, <3>1
  <2>7. succ3[Slot(p)] = Slot(q)  BY <1>2, <2>5 DEF LinksOk
  <2>8. i + 2 \in 1 .. cnt /\ i + 2 # 1 /\ (i + 2) - 1 = i + 1  BY <2>1, <2>2
  <2>9. C[i + 2] = succ3[C[i + 1]]  BY <1>5, <2>8
  <2>10. QED BY <2>3, <2>6, <2>7, <2>9
<1>8. S = Nat
  <2> HIDE DEF S
  <2>1. S \in SUBSET Nat  BY DEF S
  <2>2. QED BY <1>6, <1>7, <2>1, SetInduction
<1>9. ASSUME NEW i \in 1 .. cnt PROVE \E p \in K : Place(p, K) = i /\ C[i] = Slot(p)
  <2>1. i - 1 \in Nat /\ (i - 1) + 1 = i /\ ~(i > cnt)  OBVIOUS
  <2>2. i - 1 \in S  BY <1>8, <2>1
  <2>3. QED BY <2>1, <2>2
<1>10. QED BY <1>9 DEF K, C

(* The chains are the positions of the window with their hash, newest      *)
(* first and no others, although a node leaves under a hash that is        *)
(* computed again.                                                         *)
THEOREM AlwaysChained == Spec => []ChainsExact
<1>1. CInv => ChainsExact
  <2> SUFFICES ASSUME CInv, NEW k \in Keys
               PROVE  LET K == {p \in Window : HEAD3(Slot(p)) = k}
                      IN  /\ llen3[k] = Cardinality(K)
                          /\ \A p \in K : Chain(k, llen3[k])[Place(p, K)] = Slot(p)
    BY DEF ChainsExact
  <2> DEFINE K == {p \in Window : HEAD3(Slot(p)) = k}
  <2>1. K = Nodes(b, pos, k)  BY KeyOfSlot DEF Nodes, WindowAt, Window
  <2> HIDE DEF K
  <2>2. pos \in Nat  BY DEF CInv, RInv, RType
  <2>3. llen3[k] = Cardinality(K)  BY <2>1 DEF CInv, Chained
  <2>4. IsFiniteSet(K) /\ K \subseteq 0 .. pos - 1 /\ Cardinality(K) \in Nat
    BY <2>1, <2>2, NodesFinite
  <2>5. K \in SUBSET Nat  BY <2>2, <2>4
  <2>6. ASSUME NEW p \in K PROVE Chain(k, llen3[k])[Place(p, K)] = Slot(p)
    <3>1. Place(p, K) \in 1 .. llen3[k]  BY <2>3, <2>4, <2>5, PlaceFacts
    <3>2. llen3[k] \in Nat  BY <2>3, <2>4
    <3>3. PICK q \in K : /\ Place(q, K) = Place(p, K)
                         /\ Chain(k, llen3[k])[Place(p, K)] = Slot(q)
      BY <2>1, <3>1, <3>2, ChainFollows
    <3>4. p = q
      <4>1. ~(q < p)  BY <2>4, <2>5, <3>1, <3>3, PlaceFacts
      <4>2. ~(p < q)  BY <2>4, <2>5, <3>1, <3>3, PlaceFacts
      <4>3. QED BY <2>5, <4>1, <4>2
    <3>5. QED BY <3>3, <3>4
  <2>7. QED BY <2>3, <2>6 DEF K
<1>2. QED BY <1>1, ChainInvariant, PTL

-----------------------------------------------------------------------------
(* The matches. *)
LEMMA MaxOf ==
  ASSUME NEW B \in Nat, NEW S \in SUBSET (0 .. B), S # {}
  PROVE  Max(S) \in S /\ \A y \in S : Max(S) >= y
<1> DEFINE D == {d \in Nat : d <= B /\ B - d \in S}
<1>1. D # {}
  <2>1. PICK x \in S : TRUE  OBVIOUS
  <2>2. B - x \in Nat /\ B - x <= B /\ B - (B - x) = x  OBVIOUS
  <2>3. QED BY <2>2
<1>2. PICK d \in D : \A e \in D : d <= e  BY <1>1, LeastOf
<1>3. B - d \in S  BY <1>2
<1>4. ASSUME NEW y \in S PROVE B - d >= y
  <2>1. B - y \in Nat /\ B - y <= B /\ B - (B - y) = y  OBVIOUS
  <2>2. B - y \in D  BY <2>1
  <2>3. d <= B - y /\ d \in Nat  BY <1>2, <2>2
  <2>4. y \in Nat  OBVIOUS
  <2>5. QED BY <2>1, <2>3, <2>4
<1>5. \E x \in S : \A y \in S : x >= y  BY <1>3, <1>4
<1>6. QED BY <1>5 DEF Max

LEMMA MinOf ==
  ASSUME NEW S \in SUBSET Nat, S # {}
  PROVE  Min(S) \in S /\ \A y \in S : Min(S) <= y
BY LeastOf DEF Min

(* The offset of a position in the ring is its distance. *)
LEMMA OffsetOf ==
  ASSUME NEW p \in Nat, NEW q \in Nat, q < p, p - q < b_size, bp = Slot(p)
  PROVE  swd_pos2off(Slot(q)) = p - q
<1> DEFINE d == p - q
<1>1. d \in 0 .. b_size - 1 /\ q + d = p /\ d >= 1  BY Sizes
<1>2. \/ Slot(q + d) = Slot(q) + d
      \/ Slot(q + d) = Slot(q) + d - b_size
  <2> HIDE DEF d
  <2>1. QED BY <1>1, SlotTurn
<1>3. Slot(p) \in Nat /\ Slot(q) \in Nat  BY SlotType
<1> HIDE DEF d
<1>4. CASE Slot(q + d) = Slot(q) + d
  <2>1. bp > Slot(q) /\ bp - Slot(q) = d  BY <1>1, <1>3, <1>4
  <2>2. QED BY <2>1 DEF swd_pos2off, d
<1>5. CASE Slot(q + d) = Slot(q) + d - b_size
  <2>1. ~(bp > Slot(q)) /\ b_size - (Slot(q) - bp) = d  BY <1>1, <1>3, <1>5, Sizes
  <2>2. QED BY <2>1 DEF swd_pos2off, d
<1>6. QED BY <1>2, <1>4, <1>5

LEMMA CommonFacts ==
  ASSUME RType, look >= 3, NEW node
  PROVE  /\ Common(node) \in 0 .. look
         /\ Common(node) > 0 =>
              /\ Common(node) >= 3 /\ b[node] = b[bp] /\ b[node + 1] = b[bp + 1]
              /\ \A i \in 3 .. Common(node) - 1 : b[node + i] = b[bp + i]
<1> DEFINE S == {l \in 3 .. look : \A i \in 3 .. l - 1 : b[node + i] = b[bp + i]}
<1>1. look \in Nat  BY Sizes DEF RType
<1>2. CASE b[node] # b[bp] \/ b[node + 1] # b[bp + 1]
  <2>1. Common(node) = 0  BY <1>2 DEF Common
  <2>2. QED BY <1>1, <2>1
<1>3. CASE b[node] = b[bp] /\ b[node + 1] = b[bp + 1]
  <2>1. Common(node) = Max(S)  BY <1>3 DEF Common
  <2>2. S \in SUBSET (0 .. look)  BY <1>1
  <2>3. 3 \in S  BY <1>1
  <2>4. Max(S) \in S  BY <1>1, <2>2, <2>3, MaxOf
  <2>5. QED BY <1>1, <1>3, <2>1, <2>4
<1>4. QED BY <1>2, <1>3

(* The node's position has the bytes in the text, the third one too.       *)
LEMMA CommonAgrees ==
  ASSUME CInv, look >= 3, NEW q \in Nodes(b, pos, KeyAt(b, pos)), Common(Slot(q)) > 0
  PROVE  /\ Common(Slot(q)) \in Nat /\ Common(Slot(q)) >= 3
         /\ Common(Slot(q)) <= next - pos
         /\ Agree(pos, q, Common(Slot(q)))
<1> DEFINE c == Common(Slot(q))
<1>1. /\ RInv /\ RType /\ pos \in Nat /\ bp = Slot(pos) /\ look \in 0 .. f
      /\ next \in 0 .. Len(text) /\ Len(text) \in Nat
      /\ b \in [0 .. b_size + f - 1 -> Byte]
      /\ look = (IF pos < next THEN next - pos ELSE 0)
  BY DEF CInv, RInv, RType, ReadAhead
<1>2. q \in Nat /\ q < pos /\ q >= pos - n /\ KeyAt(b, q) = KeyAt(b, pos)
  BY <1>1 DEF Nodes, WindowAt
<1>3. /\ c \in 0 .. look /\ c >= 3
      /\ b[Slot(q)] = b[bp] /\ b[Slot(q) + 1] = b[bp + 1]
      /\ \A i \in 3 .. c - 1 : b[Slot(q) + i] = b[bp + i]
  BY <1>1, CommonFacts
<1> HIDE DEF c
<1>4. b[Slot(q) + 2] = b[bp + 2]
  <2>1. /\ Slot(q) \in 0 .. b_size - 1 /\ bp \in 0 .. b_size - 1
    BY <1>1, <1>2, SlotType
  <2>2. /\ bp \in 0 .. b_size + f - 1 /\ bp + 1 \in 0 .. b_size + f - 1
        /\ bp + 2 \in 0 .. b_size + f - 1 /\ Slot(q) + 2 \in 0 .. b_size + f - 1
    BY <2>1, Sizes
  <2>3. b[bp] \in Byte /\ b[bp + 1] \in Byte /\ b[bp + 2] \in Byte /\ b[Slot(q) + 2] \in Byte
    BY <1>1, <2>2
  <2>4. Hash(b[bp], b[bp + 1], b[Slot(q) + 2]) = Hash(b[bp], b[bp + 1], b[bp + 2])
    BY <1>1, <1>2, <1>3 DEF KeyAt
  <2>5. QED BY <2>3, <2>4, SwdAssumption
<1>5. ASSUME NEW i \in 0 .. c - 1 PROVE b[Slot(q) + i] = b[bp + i]
  <2>0. c \in Nat /\ Slot(q) \in Nat /\ bp \in Nat
    BY <1>1, <1>2, <1>3, SlotType
  <2>1. i = 0 \/ i = 1 \/ i = 2 \/ i \in 3 .. c - 1  BY <2>0
  <2>2. Slot(q) + 0 = Slot(q) /\ bp + 0 = bp  BY <2>0
  <2>3. QED BY <1>3, <1>4, <2>1, <2>2
<1>6. c \in Nat /\ c <= look /\ look \in Nat /\ look <= f /\ pos < next /\ look = next - pos
  BY <1>1, <1>3, Sizes
<1>7. ASSUME NEW i \in 1 .. c PROVE text[pos + i] = text[q + i]
  <2>1. i - 1 \in 0 .. c - 1 /\ i - 1 \in 0 .. f - 1 /\ pos >= pos - n
        /\ pos + (i - 1) < next /\ q + (i - 1) < next
        /\ pos + (i - 1) + 1 = pos + i /\ q + (i - 1) + 1 = q + i
    BY <1>1, <1>2, <1>6, Sizes
  <2>2. b[Slot(q) + (i - 1)] = text[q + (i - 1) + 1]  BY <1>1, <1>2, <2>1, RingRead
  <2>3. b[Slot(pos) + (i - 1)] = text[pos + (i - 1) + 1]  BY <1>1, <2>1, RingRead
  <2>4. b[Slot(q) + (i - 1)] = b[bp + (i - 1)]  BY <1>5, <2>1
  <2>5. QED BY <1>1, <2>1, <2>2, <2>3, <2>4
<1>8. QED BY <1>3, <1>6, <1>7 DEF Agree, c

(* A match that a search returns is the common part with a node.           *)
LEMMA SearchFinds ==
  ASSUME RType, look >= 3, NEW nodes, Len(nodes) \in Nat, Search(nodes).m_len > 1
  PROVE  \E j \in 1 .. Len(nodes) : /\ Search(nodes).m_pos = nodes[j]
                                    /\ Search(nodes).m_len = Common(nodes[j])
<1> DEFINE len == [i \in 0 .. Len(nodes) |->
                     Max({1} \cup {Common(nodes[j]) : j \in 1 .. i})]
           Stops(i) == /\ len[i] > len[i - 1]
                       /\ \/ len[i] = look
                          \/ len[i] >= nice_length
                          \/ len[i] > best3[nodes[i]]
           L == {Len(nodes)} \cup {i \in 1 .. Len(nodes) : Stops(i)}
           last == Min(L)
           T == {1} \cup {Common(nodes[j]) : j \in 1 .. last}
           M == {i \in 1 .. last : Common(nodes[i]) = len[last]}
<1>1. Search(nodes) = [m_len |-> len[last],
                       m_pos |-> IF len[last] = 1 THEN 0 ELSE nodes[Min(M)]]
  BY DEF Search
<1>2. look \in Nat  BY Sizes DEF RType
<1>3. last \in 0 .. Len(nodes)
  <2>1. L \in SUBSET Nat /\ L # {}  OBVIOUS
  <2> HIDE DEF L
  <2>2. last \in L  BY <2>1, MinOf
  <2>3. QED BY <2>2 DEF L
<1> HIDE DEF L, Stops, last
<1>4. len[last] = Max(T)  BY <1>3
<1> HIDE DEF len
<1>5. T \in SUBSET (0 .. look) /\ T # {}
  <2>1. \A j \in 1 .. last : Common(nodes[j]) \in 0 .. look  BY CommonFacts
  <2>2. QED BY <1>2, <2>1
<1>6. Max(T) \in T
  <2> HIDE DEF T
  <2>1. QED BY <1>2, <1>5, MaxOf
<1>7. len[last] > 1  BY <1>1
<1>8. M # {}
  <2>1. len[last] \in T /\ len[last] # 1  BY <1>4, <1>6, <1>7
  <2>2. PICK j \in 1 .. last : Common(nodes[j]) = len[last]  BY <2>1
  <2>3. QED BY <2>2
<1>9. M \in SUBSET Nat  BY <1>3
<1>10. Min(M) \in M
  <2> HIDE DEF M
  <2>1. QED BY <1>8, <1>9, MinOf
<1>11. Min(M) \in 1 .. Len(nodes) /\ Common(nodes[Min(M)]) = len[last]
  BY <1>3, <1>10
<1> HIDE DEF M
<1>12. QED BY <1>1, <1>7, <1>11

LEMMA FindBestReal ==
  ASSUME CInv, NEW max_chain \in MaxChains, FindBest(max_chain), m_len' > 1
  PROVE  /\ m_off' \in 1 .. Least(n, pos) /\ pos + m_len' <= Len(text) /\ m_len' >= 3
         /\ Agree(pos, pos - m_off', m_len')
<1> DEFINE key == HEAD3(bp)
           cut == max_chain > 0 /\ llen3[key] > max_chain
           cnt == IF cut THEN max_chain ELSE llen3[key]
           nodes == Chain(key, cnt)
<1>1. /\ RInv /\ RType /\ pos \in Nat /\ bp = Slot(pos) /\ look \in 0 .. f
      /\ next \in 0 .. Len(text) /\ Len(text) \in Nat
      /\ b \in [0 .. b_size + f - 1 -> Byte]
      /\ look = (IF pos < next THEN next - pos ELSE 0)
  BY DEF CInv, RInv, RType, ReadAhead
<1>2. look >= 3 /\ Search(nodes).m_len > 1
  BY DEF FindBest
<1>3. /\ m_len' = Search(nodes).m_len
      /\ m_off' = swd_pos2off(Search(nodes).m_pos)
  BY <1>1, <1>2 DEF FindBest
<1>4. key = KeyAt(b, pos) /\ key \in Keys  BY <1>1, KeyOfSlot, KeyType
<1>5. llen3[key] \in Nat
  BY <1>1, <1>4, NodesFinite DEF CInv, Chained
<1>6. cnt \in Nat /\ cnt <= llen3[key]
  <2>1. max_chain \in Nat  BY SwdAssumption
  <2>2. QED BY <1>5, <2>1
<1>7. Len(nodes) = cnt  BY <1>6, ChainStep
<1>8. PICK j \in 1 .. cnt : /\ Search(nodes).m_pos = nodes[j]
                            /\ Search(nodes).m_len = Common(nodes[j])
  BY <1>1, <1>2, <1>6, <1>7, SearchFinds
<1>9. PICK q \in Nodes(b, pos, key) : nodes[j] = Slot(q)
  BY <1>4, <1>6, ChainFollows
<1> HIDE DEF nodes, cnt, cut, key
<1>10. q \in Nat /\ q < pos /\ q >= pos - n /\ KeyAt(b, q) = key
  BY <1>1, <1>9 DEF Nodes, WindowAt
<1>11. pos - q < b_size /\ pos - q <= n  BY <1>1, <1>10, Sizes
<1>12. m_off' = pos - q  BY <1>1, <1>3, <1>8, <1>9, <1>10, <1>11, OffsetOf
<1>13. Common(Slot(q)) = m_len'  BY <1>3, <1>8, <1>9
<1>14. Common(Slot(q)) \in Nat  BY <1>1, <1>2, CommonFacts, Sizes
<1>15. Common(Slot(q)) > 0  BY <1>2, <1>3, <1>13, <1>14
<1>16. q \in Nodes(b, pos, KeyAt(b, pos))  BY <1>4, <1>9
<1>17. /\ m_len' >= 3 /\ m_len' \in Nat /\ m_len' <= next - pos
       /\ Agree(pos, q, m_len')
  BY <1>1, <1>2, <1>13, <1>15, <1>16, CommonAgrees
<1>18. m_off' \in 1 .. Least(n, pos)  BY <1>1, <1>10, <1>11, <1>12, Sizes DEF Least
<1>19. pos + m_len' <= Len(text)  BY <1>1, <1>17
<1>20. pos - m_off' = q  BY <1>1, <1>10, <1>12
<1>21. QED BY <1>17, <1>18, <1>19, <1>20

(* A match is three bytes or more of the text, from no further behind than *)
(* the window, and does not go past the end: the third byte, which is not  *)
(* compared, agrees because the hash does.                                 *)
THEOREM AlwaysReal == Spec => []MatchIsReal
<1>1. Init => MatchIsReal  BY DEF Init, MatchIsReal
<1>2. CInv /\ MatchIsReal /\ [Next]_vars => MatchIsReal'
  <2> SUFFICES ASSUME CInv, MatchIsReal, [Next]_vars PROVE MatchIsReal'  OBVIOUS
  <2>1. CASE Find  BY <2>1 DEF Find, MatchIsReal
  <2>2. CASE Accept  BY <2>2 DEF Accept, MatchIsReal
  <2>3. ASSUME NEW max_chain \in MaxChains, FindBest(max_chain) PROVE MatchIsReal'
    <3>1. pos' = pos + 1 /\ text' = text /\ pos \in Nat
      BY <2>3 DEF FindBest, swd_getbyte, CInv, RInv, RType
    <3>2. pos' - 1 = pos  BY <3>1
    <3>3. m_len' > 1 =>
            /\ m_off' \in 1 .. Least(n, pos) /\ pos + m_len' <= Len(text) /\ m_len' >= 3
            /\ Agree(pos, pos - m_off', m_len')
      BY <2>3, FindBestReal
    <3>4. QED BY <3>1, <3>2, <3>3 DEF MatchIsReal, Agree, Least
  <2>4. CASE UNCHANGED vars  BY <2>4 DEF vars, MatchIsReal, Agree, Least
  <2>5. QED BY <2>1, <2>2, <2>3, <2>4 DEF Next
<1>3. QED BY <1>1, <1>2, ChainInvariant, PTL DEF Spec

-----------------------------------------------------------------------------
(* The longest match. *)
LEMMA SearchLength ==
  ASSUME RType, look >= 3, NEW nodes, Len(nodes) \in Nat
  PROVE  Search(nodes).m_len \in Nat
<1> DEFINE len == [k \in 0 .. Len(nodes) |-> Max({1} \cup {Common(nodes[j]) : j \in 1 .. k})]
           Stops(k) == /\ len[k] > len[k - 1]
                       /\ \/ len[k] = look
                          \/ len[k] >= nice_length
                          \/ len[k] > best3[nodes[k]]
           L == {Len(nodes)} \cup {k \in 1 .. Len(nodes) : Stops(k)}
           last == Min(L)
           T == {1} \cup {Common(nodes[j]) : j \in 1 .. last}
           M == {k \in 1 .. last : Common(nodes[k]) = len[last]}
<1>1. Search(nodes) = [m_len |-> len[last],
                       m_pos |-> IF len[last] = 1 THEN 0 ELSE nodes[Min(M)]]
  BY DEF Search
<1>2. look \in Nat  BY Sizes DEF RType
<1>3. last \in 0 .. Len(nodes)
  <2>1. L \in SUBSET Nat /\ L # {}  OBVIOUS
  <2> HIDE DEF L
  <2>2. last \in L  BY <2>1, MinOf
  <2>3. QED BY <2>2 DEF L
<1> HIDE DEF L, Stops, last
<1>4. len[last] = Max(T)  BY <1>3
<1> HIDE DEF len
<1>5. T \in SUBSET (0 .. look) /\ T # {}
  <2>1. \A j \in 1 .. last : Common(nodes[j]) \in 0 .. look  BY CommonFacts
  <2>2. QED BY <1>2, <2>1
<1>6. Max(T) \in 0 .. look
  <2> HIDE DEF T
  <2>1. QED BY <1>2, <1>5, MaxOf
<1> HIDE DEF M
<1>7. Search(nodes).m_len = Max(T)  BY <1>1, <1>4
<1>8. QED BY <1>2, <1>6, <1>7

(* The search goes past a node that has more, only when it was stopped     *)
(* before it, by a node that knows of nothing longer.                      *)
LEMMA SearchStops ==
  ASSUME RType, look >= 3, NEW nodes, Len(nodes) \in Nat,
         nice_length \in Nat, nice_length >= f,
         NEW i \in 1 .. Len(nodes), Common(nodes[i]) > Search(nodes).m_len
  PROVE  \E j \in 1 .. i - 1 : /\ Search(nodes).m_len = Common(nodes[j])
                               /\ Search(nodes).m_len > 1
                               /\ Search(nodes).m_len > best3[nodes[j]]
<1> DEFINE T(k) == {1} \cup {Common(nodes[j]) : j \in 1 .. k}
           len == [k \in 0 .. Len(nodes) |-> Max({1} \cup {Common(nodes[j]) : j \in 1 .. k})]
           Stops(k) == /\ len[k] > len[k - 1]
                       /\ \/ len[k] = look
                          \/ len[k] >= nice_length
                          \/ len[k] > best3[nodes[k]]
           L == {Len(nodes)} \cup {k \in 1 .. Len(nodes) : Stops(k)}
           last == Min(L)
           M == {k \in 1 .. last : Common(nodes[k]) = len[last]}
<1>1. Search(nodes) = [m_len |-> len[last],
                       m_pos |-> IF len[last] = 1 THEN 0 ELSE nodes[Min(M)]]
  BY DEF Search
<1>2. look \in Nat /\ look <= f  BY Sizes DEF RType
<1>3. last \in 0 .. Len(nodes) /\ last \in L
  <2>1. L \in SUBSET Nat /\ L # {}  OBVIOUS
  <2>2. L \subseteq 0 .. Len(nodes)  OBVIOUS
  <2> HIDE DEF L
  <2>3. last \in L  BY <2>1, MinOf
  <2> HIDE DEF last
  <2>4. QED BY <2>2, <2>3
<1>4. last # Len(nodes) => last \in 1 .. Len(nodes) /\ Stops(last)
  <2> HIDE DEF last, Stops
  <2>1. QED BY <1>3
<1> HIDE DEF L, last
<1>5. Search(nodes).m_len = len[last]  BY <1>1
<1> HIDE DEF M
<1>6. ASSUME NEW k \in 0 .. Len(nodes)
      PROVE  /\ len[k] \in Nat /\ len[k] >= 1
             /\ \A j \in 1 .. k : len[k] >= Common(nodes[j])
             /\ len[k] # 1 => \E j \in 1 .. k : Common(nodes[j]) = len[k]
  <2>1. T(k) \in SUBSET (0 .. look) /\ T(k) # {} /\ 1 \in T(k)
    <3>1. \A j \in 1 .. k : Common(nodes[j]) \in 0 .. look  BY CommonFacts
    <3>2. QED BY <1>2, <3>1
  <2>2. len[k] = Max(T(k))  OBVIOUS
  <2>3. Max(T(k)) \in T(k) /\ \A y \in T(k) : Max(T(k)) >= y
    <3> DEFINE S == T(k)
    <3> HIDE DEF T
    <3>1. S \in SUBSET (0 .. look) /\ S # {}  BY <2>1
    <3> HIDE DEF S
    <3>2. Max(S) \in S /\ \A y \in S : Max(S) >= y  BY <1>2, <3>1, MaxOf
    <3>3. QED BY <3>2 DEF S
  <2> HIDE DEF len
  <2>4. \A j \in 1 .. k : len[k] >= Common(nodes[j])  BY <2>2, <2>3
  <2>5. len[k] # 1 => \E j \in 1 .. k : Common(nodes[j]) = len[k]  BY <2>2, <2>3
  <2>6. len[k] \in Nat /\ len[k] >= 1
    <3> HIDE DEF T
    <3>1. len[k] \in 0 .. look /\ len[k] >= 1  BY <2>1, <2>2, <2>3
    <3>2. QED BY <1>2, <3>1
  <2>7. QED BY <2>4, <2>5, <2>6
<1>7. Common(nodes[i]) \in 0 .. look  BY CommonFacts
<1>8. last < i
  <2>1. SUFFICES ASSUME i <= last PROVE FALSE  BY <1>3
  <2> HIDE DEF len
  <2>2. i \in 1 .. last  BY <1>3, <2>1
  <2>3. len[last] >= Common(nodes[i]) /\ len[last] \in Nat  BY <1>3, <1>6, <2>2
  <2>4. QED BY <1>2, <1>5, <1>7, <2>3
<1>9. last \in 1 .. Len(nodes) /\ Stops(last) /\ last \in 1 .. i - 1
  <2> HIDE DEF Stops
  <2>1. last # Len(nodes)  BY <1>3, <1>8
  <2>2. QED BY <1>3, <1>4, <1>8, <2>1
<1>10. len[last] > len[last - 1]  BY <1>9
<1>11. \/ len[last] = look
       \/ len[last] >= nice_length
       \/ len[last] > best3[nodes[last]]
  BY <1>9
<1> HIDE DEF len, Stops
<1>12. /\ len[last] \in Nat /\ len[last - 1] \in Nat /\ len[last - 1] >= 1
       /\ \A j \in 1 .. last - 1 : len[last - 1] >= Common(nodes[j])
  <2>1. last - 1 \in 0 .. Len(nodes) /\ last \in 0 .. Len(nodes)  BY <1>9
  <2>2. QED BY <1>6, <2>1
<1>13. len[last] # 1 /\ len[last] > 1  BY <1>10, <1>12
<1>14. Common(nodes[last]) = len[last]
  <2>1. PICK j \in 1 .. last : Common(nodes[j]) = len[last]  BY <1>3, <1>6, <1>13
  <2>2. j \notin 1 .. last - 1  BY <1>10, <1>12, <2>1
  <2>3. j = last  BY <1>9, <2>2
  <2>4. QED BY <2>1, <2>3
<1>15. len[last] > best3[nodes[last]]
  <2>1. len[last] < look  BY <1>2, <1>5, <1>7, <1>12
  <2>2. len[last] # look /\ ~(len[last] >= nice_length)
    BY <1>2, <1>12, <2>1, Sizes
  <2>3. QED BY <1>11, <2>2
<1>16. QED BY <1>5, <1>9, <1>13, <1>14, <1>15

(* Nothing longer than l is in the window of position p.                   *)
NoneLonger(p, l) ==
  \A r \in Nat, k \in Nat :
    r < p /\ r >= p - n /\ k > l /\ k >= 3 /\ k <= f /\ p + k <= Len(text)
      => ~Agree(p, r, k)

(* What a node knows of the nodes behind it.                               *)
BestKnown ==
  /\ best3 \in [0 .. b_size - 1 -> Nat] /\ nice_length \in Nat
  /\ exact => \A q \in WindowAt(pos) : NoneLonger(q, best3[Slot(q)])

(* A node that stops the search shares with the position as much as it     *)
(* knows of, so that a longer match behind it would be one of its own.     *)
LEMMA FindBestLongest ==
  ASSUME CInv, BestKnown, NEW max_chain \in MaxChains, FindBest(max_chain), exact'
  PROVE  NoneLonger(pos, m_len')
<1> DEFINE key == HEAD3(bp)
           cut == max_chain > 0 /\ llen3[key] > max_chain
           cnt == IF cut THEN max_chain ELSE llen3[key]
           nodes == Chain(key, cnt)
           K == Nodes(b, pos, key)
<1>1. /\ RInv /\ RType /\ pos \in Nat /\ bp = Slot(pos) /\ look \in 0 .. f
      /\ next \in 0 .. Len(text) /\ Len(text) \in Nat
      /\ b \in [0 .. b_size + f - 1 -> Byte]
      /\ look = (IF pos < next THEN next - pos ELSE 0)
      /\ next = (IF Len(text) < pos + f THEN Len(text) ELSE pos + f)
  BY DEF CInv, RInv, RType, ReadAhead
<1>2. ~cut /\ nice_length >= f /\ exact /\ nice_length \in Nat
  BY DEF FindBest, BestKnown
<1>3. SUFFICES ASSUME NEW r \in Nat, NEW l \in Nat, r < pos, r >= pos - n, l > m_len', l >= 3,
                      l <= f, pos + l <= Len(text), Agree(pos, r, l)
               PROVE  FALSE
  BY DEF NoneLonger
<1>4. l <= look /\ look >= 3 /\ look \in Nat /\ next = pos + look
  BY <1>1, <1>3, Sizes
<1>5. m_len' = Search(nodes).m_len  BY <1>4 DEF FindBest
<1>6. key = KeyAt(b, pos) /\ key \in Keys  BY <1>1, KeyOfSlot, KeyType
<1>7. llen3[key] = Cardinality(K) /\ llen3[key] \in Nat
  BY <1>1, <1>6, NodesFinite DEF CInv, Chained
<1>8. cnt = llen3[key] /\ cnt \in Nat  BY <1>2, <1>7
<1>9. Len(nodes) = cnt  BY <1>8, ChainStep
<1> HIDE DEF cut, cnt
<1>10. ASSUME NEW i \in 0 .. l - 1
       PROVE  /\ b[Slot(r) + i] = text[r + i + 1] /\ b[bp + i] = text[pos + i + 1]
              /\ b[Slot(r) + i] = b[bp + i]
  <2>1. i \in 0 .. f - 1 /\ r + i < next /\ pos + i < next /\ pos >= pos - n
        /\ i + 1 \in 1 .. l /\ pos + (i + 1) = pos + i + 1 /\ r + (i + 1) = r + i + 1
    BY <1>1, <1>3, <1>4, Sizes
  <2>2. b[Slot(r) + i] = text[r + i + 1]  BY <1>1, <1>3, <2>1, RingRead
  <2>3. b[bp + i] = text[pos + i + 1]  BY <1>1, <2>1, RingRead
  <2>4. text[pos + (i + 1)] = text[r + (i + 1)]  BY <1>3, <2>1 DEF Agree
  <2>5. QED BY <2>1, <2>2, <2>3, <2>4
<1>11. KeyAt(b, r) = key
  <2>1. Slot(r) + 0 = Slot(r) /\ bp + 0 = bp  BY <1>1, SlotType
  <2>2. 0 \in 0 .. l - 1 /\ 1 \in 0 .. l - 1 /\ 2 \in 0 .. l - 1  BY <1>3
  <2>3. b[Slot(r)] = b[bp] /\ b[Slot(r) + 1] = b[bp + 1] /\ b[Slot(r) + 2] = b[bp + 2]
    BY <1>10, <2>1, <2>2
  <2>4. QED BY <1>1, <1>6, <2>3 DEF KeyAt
<1> HIDE DEF key
<1>12. r \in K  BY <1>1, <1>3, <1>11 DEF Nodes, WindowAt
<1>13. IsFiniteSet(K) /\ K \subseteq 0 .. pos - 1 /\ K \in SUBSET Nat
  <2>1. IsFiniteSet(K) /\ K \subseteq 0 .. pos - 1  BY <1>1, NodesFinite
  <2> HIDE DEF K
  <2>2. QED BY <1>1, <2>1
<1> DEFINE i == Place(r, K)
<1>14. i \in 1 .. cnt /\ nodes[i] = Slot(r)
  <2>1. i \in 1 .. cnt
    <3> HIDE DEF K
    <3>1. QED BY <1>7, <1>8, <1>12, <1>13, PlaceFacts
  <2>2. PICK p \in K : Place(p, K) = i /\ nodes[i] = Slot(p)
    BY <1>6, <1>8, <2>1, ChainFollows
  <2> HIDE DEF K
  <2>3. ~(p < r) /\ ~(r < p)
    <3>1. i \in Nat  BY <2>1
    <3>2. QED BY <1>12, <1>13, <2>2, <3>1, PlaceFacts
  <2>4. p = r  BY <1>13, <2>3
  <2>5. QED BY <2>1, <2>2, <2>4
<1>15. Common(Slot(r)) >= l
  <2> DEFINE S == {x \in 3 .. look : \A y \in 3 .. x - 1 : b[Slot(r) + y] = b[bp + y]}
  <2>1. b[Slot(r)] = b[bp] /\ b[Slot(r) + 1] = b[bp + 1]
    <3>1. Slot(r) + 0 = Slot(r) /\ bp + 0 = bp  BY <1>1, SlotType
    <3>2. 0 \in 0 .. l - 1 /\ 1 \in 0 .. l - 1  BY <1>3
    <3>3. QED BY <1>10, <3>1, <3>2
  <2>2. Common(Slot(r)) = Max(S)  BY <2>1 DEF Common
  <2>3. l \in S
    <3>1. l \in 3 .. look  BY <1>3, <1>4
    <3>2. \A y \in 3 .. l - 1 : y \in 0 .. l - 1  BY <1>3
    <3>3. QED BY <1>10, <3>1, <3>2
  <2>4. S \in SUBSET (0 .. look)  BY <1>4
  <2> HIDE DEF S
  <2>5. Max(S) >= l  BY <1>4, <2>3, <2>4, MaxOf
  <2>6. QED BY <2>2, <2>5
<1> HIDE DEF nodes
<1>16. Common(nodes[i]) > Search(nodes).m_len
  <2>1. Common(Slot(r)) \in 0 .. look  BY <1>1, <1>4, CommonFacts
  <2>2. Common(nodes[i]) \in Nat /\ Common(nodes[i]) >= l  BY <1>4, <1>14, <1>15, <2>1
  <2>3. QED BY <1>3, <1>5, <2>2, SearchLength, <1>1, <1>4, <1>8, <1>9
<1>17. PICK j \in 1 .. i - 1 : /\ Search(nodes).m_len = Common(nodes[j])
                               /\ Search(nodes).m_len > 1
                               /\ Search(nodes).m_len > best3[nodes[j]]
  <2>1. i \in 1 .. Len(nodes) /\ Len(nodes) \in Nat  BY <1>8, <1>9, <1>14
  <2> HIDE DEF i
  <2>2. QED BY <1>1, <1>2, <1>4, <1>16, <2>1, SearchStops
<1>18. PICK q \in K : Place(q, K) = j /\ nodes[j] = Slot(q)
  <2>1. j \in 1 .. cnt  BY <1>8, <1>14, <1>17
  <2>2. QED BY <1>6, <1>8, <2>1, ChainFollows DEF nodes
<1> DEFINE c == Common(Slot(q))
<1>19. /\ c \in Nat /\ c >= 3 /\ c <= next - pos /\ Agree(pos, q, c)
       /\ c = m_len' /\ c > best3[Slot(q)]
  <2>1. c = Search(nodes).m_len  BY <1>17, <1>18
  <2>2. c \in Nat  BY <1>1, <1>4, CommonFacts
  <2>3. q \in Nodes(b, pos, KeyAt(b, pos))  BY <1>6, <1>18
  <2>4. c > 0  BY <1>17, <2>1, <2>2
  <2>5. QED BY <1>4, <1>5, <1>17, <1>18, <2>1, <2>3, <2>4, CommonAgrees
<1> HIDE DEF c
<1>20. r < q
  <2> HIDE DEF K
  <2>1. Place(q, K) < Place(r, K) /\ Place(q, K) \in Nat /\ Place(r, K) \in Nat
    BY <1>14, <1>17, <1>18
  <2>2. q # r  BY <2>1
  <2>3. ~(q < r)  BY <1>12, <1>13, <1>18, <2>1, PlaceFacts
  <2>4. QED BY <1>13, <1>18, <2>2, <2>3
<1>21. q \in WindowAt(pos) /\ q \in Nat /\ q < pos  BY <1>1, <1>18 DEF Nodes, WindowAt
<1>22. NoneLonger(q, best3[Slot(q)])  BY <1>2, <1>21 DEF BestKnown
<1>23. Agree(q, r, c)
  <2>1. \A y \in 1 .. c : text[pos + y] = text[q + y]  BY <1>19 DEF Agree
  <2>2. c < l  BY <1>3, <1>19
  <2>3. \A y \in 1 .. c : y \in 1 .. l  BY <1>3, <1>19, <2>2
  <2>4. \A y \in 1 .. c : text[pos + y] = text[r + y]  BY <1>3, <2>3 DEF Agree
  <2>5. QED BY <2>1, <2>4 DEF Agree
<1>24. r < q /\ r >= q - n /\ c > best3[Slot(q)] /\ c >= 3 /\ c <= f /\ q + c <= Len(text)
  BY <1>1, <1>3, <1>4, <1>19, <1>20, <1>21, Sizes
<1>25. QED BY <1>19, <1>22, <1>23, <1>24 DEF NoneLonger

(* A new position comes to know what its own search found; the others      *)
(* know what they knew.                                                    *)
LEMMA KnownAfter ==
  ASSUME CInv, BestKnown, NEW v \in Nat, exact' => exact,
         text' = text, nice_length' = nice_length, pos' = pos + 1,
         best3' = [best3 EXCEPT ![bp] = v], exact' => NoneLonger(pos, v)
  PROVE  BestKnown'
<1>1. pos \in Nat /\ bp = Slot(pos) /\ bp \in 0 .. b_size - 1
  BY SlotType DEF CInv, RInv, RType
<1>2. best3 \in [0 .. b_size - 1 -> Nat] /\ nice_length \in Nat  BY DEF BestKnown
<1>3. best3' \in [0 .. b_size - 1 -> Nat]  BY <1>1, <1>2
<1>4. ASSUME exact', NEW q \in WindowAt(pos + 1)
      PROVE  NoneLonger(q, best3'[Slot(q)])
  <2>1. q \in Nat /\ q <= pos /\ q >= pos + 1 - n /\ Slot(q) \in 0 .. b_size - 1
    <3>1. q \in Nat /\ q <= pos /\ q >= pos + 1 - n  BY <1>1, Sizes DEF WindowAt
    <3>2. QED BY <3>1, SlotType
  <2>2. CASE q = pos
    <3>1. best3'[Slot(q)] = v  BY <1>1, <1>2, <2>2
    <3>2. QED BY <1>4, <2>2, <3>1
  <2>3. CASE q # pos
    <3>1. q < pos /\ pos - q < b_size /\ q \in WindowAt(pos)
      BY <1>1, <2>1, <2>3, Sizes DEF WindowAt
    <3>2. Slot(q) # bp  BY <1>1, <2>1, <3>1, SlotsDiffer
    <3>3. best3'[Slot(q)] = best3[Slot(q)]  BY <1>2, <2>1, <3>2
    <3>4. QED BY <1>4, <3>1, <3>3 DEF BestKnown
  <2>4. QED BY <2>2, <2>3
<1>5. ASSUME exact', NEW q \in WindowAt(pos')
      PROVE  NoneLonger(q, best3[Slot(q)])'
  <2>1. NoneLonger(q, best3'[Slot(q)])  BY <1>4, <1>5
  <2>2. QED BY <2>1 DEF NoneLonger, Agree, Slot
<1>6. QED BY <1>2, <1>3, <1>5 DEF BestKnown, Slot, NoneLonger, Agree

LEMMA FindBestLength ==
  ASSUME CInv, NEW max_chain \in MaxChains, FindBest(max_chain)
  PROVE  m_len' \in Nat
<1> DEFINE key == HEAD3(bp)
           cut == max_chain > 0 /\ llen3[key] > max_chain
           cnt == IF cut THEN max_chain ELSE llen3[key]
           nodes == Chain(key, cnt)
<1>1. RType /\ pos \in Nat /\ bp = Slot(pos)  BY DEF CInv, RInv, RType
<1>2. key = KeyAt(b, pos) /\ key \in Keys  BY <1>1, KeyOfSlot, KeyType
<1>3. llen3[key] \in Nat  BY <1>1, <1>2, NodesFinite DEF CInv, Chained
<1>4. cnt \in Nat  BY <1>3, SwdAssumption
<1>5. Len(nodes) = cnt  BY <1>4, ChainStep
<1>6. CASE look >= 3
  <2>1. m_len' = Search(nodes).m_len  BY <1>6 DEF FindBest
  <2> HIDE DEF nodes, cnt
  <2>2. QED BY <1>1, <1>4, <1>5, <1>6, <2>1, SearchLength
<1>7. CASE ~(look >= 3)
  <2>1. m_len' = 1  BY <1>7 DEF FindBest
  <2>2. QED BY <2>1
<1>8. QED BY <1>6, <1>7

LEMMA BeyondLongest ==
  ASSUME NEW p
  PROVE  NoneLonger(p, f + 1)
BY Sizes DEF NoneLonger

LEMMA InitBest == Init => BestKnown
<1> SUFFICES ASSUME Init PROVE BestKnown  OBVIOUS
<1>1. best3 \in [0 .. b_size - 1 -> Nat]  BY DEF Init
<1>2. nice_length \in Nat  BY SwdAssumption DEF Init
<1>3. WindowAt(pos) = {}  BY DEF Init, WindowAt
<1>4. QED BY <1>1, <1>2, <1>3 DEF BestKnown

LEMMA NextBest == CInv /\ BestKnown /\ [Next]_vars => BestKnown'
<1> SUFFICES ASSUME CInv, BestKnown, [Next]_vars PROVE BestKnown'  OBVIOUS
<1>1. CASE Find
  BY <1>1 DEF Find, chains, BestKnown, WindowAt, NoneLonger, Agree, Slot
<1>2. CASE Accept
  <2>1. /\ text' = text /\ nice_length' = nice_length /\ pos' = pos + 1 /\ exact' = exact
        /\ best3' = [best3 EXCEPT ![bp] = f + 1]
    BY <1>2 DEF Accept, BestOfAccepted, swd_getbyte
  <2>2. f + 1 \in Nat  BY Sizes
  <2>3. QED BY <2>1, <2>2, BeyondLongest, KnownAfter
<1>3. ASSUME NEW max_chain \in MaxChains, FindBest(max_chain) PROVE BestKnown'
  <2> DEFINE v == IF look <= 1 THEN f + 1 ELSE m_len'
  <2>1. /\ text' = text /\ nice_length' = nice_length /\ pos' = pos + 1
        /\ exact' => exact
    BY <1>3 DEF FindBest, swd_getbyte
  <2>2. best3' = [best3 EXCEPT ![bp] = v]  BY <1>3 DEF FindBest
  <2>3. v \in Nat  BY <1>3, FindBestLength, Sizes
  <2>4. exact' => NoneLonger(pos, v)  BY <1>3, FindBestLongest, BeyondLongest
  <2> HIDE DEF v
  <2>5. QED BY <2>1, <2>2, <2>3, <2>4, KnownAfter
<1>4. CASE UNCHANGED vars
  BY <1>4 DEF vars, chains, BestKnown, WindowAt, NoneLonger, Agree, Slot
<1>5. QED BY <1>1, <1>2, <1>3, <1>4 DEF Next

(* The first length that LongestFound excludes.                            *)
LEMMA NextLength ==
  ASSUME NEW m \in Nat
  PROVE  LET l == IF m < 3 THEN 3 ELSE m + 1 IN l \in Nat /\ l > m /\ l >= 3
OBVIOUS

(* A search that no limit cuts short returns the longest match, although   *)
(* it stops at the first node that shares more with the position than with *)
(* anything behind itself.                                                 *)
THEOREM AlwaysLongest == Spec => []LongestFound
<1> DEFINE Known == CInv /\ BestKnown
<1>1. Init => LongestFound  BY DEF Init, LongestFound
<1>2. Known /\ LongestFound /\ [Next]_vars => LongestFound'
  <2> SUFFICES ASSUME CInv, BestKnown, LongestFound, [Next]_vars PROVE LongestFound'
    OBVIOUS
  <2>1. CASE Find  BY <2>1 DEF Find, LongestFound
  <2>2. CASE Accept  BY <2>2 DEF Accept, LongestFound
  <2>3. ASSUME NEW max_chain \in MaxChains, FindBest(max_chain) PROVE LongestFound'
    <3>1. pos' = pos + 1 /\ text' = text /\ pos \in Nat
      BY <2>3 DEF FindBest, swd_getbyte, CInv, RInv, RType
    <3>2. pos' - 1 = pos /\ m_len' \in Nat  BY <2>3, <3>1, FindBestLength
    <3>3. ASSUME exact', NEW off \in 1 .. Least(n, pos), NEW l \in Nat,
                 l = (IF m_len' < 3 THEN 3 ELSE m_len' + 1),
                 l <= f, pos + l <= Len(text), Agree(pos, pos - off, l)
          PROVE  FALSE
      <4>1. NoneLonger(pos, m_len')  BY <2>3, <3>3, FindBestLongest
      <4>2. /\ pos - off \in Nat /\ pos - off < pos /\ pos - off >= pos - n
            /\ l > m_len' /\ l >= 3
        <5>1. l > m_len' /\ l >= 3  BY <3>2, <3>3, NextLength
        <5>2. off \in Nat /\ off >= 1 /\ off <= n /\ off <= pos
          BY <3>1, <3>3, Sizes DEF Least
        <5>3. QED BY <3>1, <5>1, <5>2, Sizes
      <4>3. QED BY <3>3, <4>1, <4>2 DEF NoneLonger
    <3>4. (IF m_len' < 3 THEN 3 ELSE m_len' + 1) \in Nat
      BY <3>2, NextLength
    <3>5. ASSUME exact', NEW off \in 1 .. Least(n, pos),
                 LET l == IF m_len' < 3 THEN 3 ELSE m_len' + 1
                 IN  l <= f /\ pos + l <= Len(text) /\ Agree(pos, pos - off, l)
          PROVE  FALSE
      BY <3>3, <3>4, <3>5
    <3>6. \A p, q, l : Agree(p, q, l)' <=> Agree(p, q, l)  BY <3>1 DEF Agree
    <3>7. exact' => ~\E off \in 1 .. Least(n, pos' - 1) :
                       LET l == IF m_len' < 3 THEN 3 ELSE m_len' + 1
                       IN  /\ l <= f /\ pos' - 1 + l <= Len(text')
                           /\ Agree(pos' - 1, pos' - 1 - off, l)
      BY <3>1, <3>2, <3>5
    <3>8. QED BY <3>6, <3>7 DEF LongestFound, Least
  <2>4. CASE UNCHANGED vars  BY <2>4 DEF vars, LongestFound, Agree, Least
  <2>5. QED BY <2>1, <2>2, <2>3, <2>4 DEF Next
<1>3. Spec => []Known  BY InitBest, NextBest, ChainInvariant, PTL DEF Spec
<1>4. QED BY <1>1, <1>2, <1>3, PTL DEF Spec

=============================================================================
