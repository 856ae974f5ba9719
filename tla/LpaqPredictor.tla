--------------------------- MODULE LpaqPredictor ---------------------------
(***************************************************************************)
(* The model that predicts the next bit: update() of src/LPAQ1v2/Encoder.c *)
(* with HashTable.c and MatchModel.c, as operators on the state `pd` of    *)
(* one run of the program.                                                 *)
(*                                                                         *)
(* A context's hash is used only for the slot and the check byte that t()  *)
(* makes of it.  The table t0 of the lowest order, addressed without a     *)
(* hash, and the numbers of Mixer.c and StateMap.c are left out: they make *)
(* a prediction of what Seen shows.                                        *)
(***************************************************************************)
EXTENDS Integers, Sequences, FiniteSets, Functions

CONSTANTS
  ByteBits,            \* 8
  Nibble,              \* 4: bits for which a slot has states
  Orders,              \* 1 .. 5: contexts that use the table
  Slots,               \* slots of the table, four or more
  ContextBytes,        \* bytes that the contexts are made of
  SlotOf(_, _, _),     \* of an order, the last bytes and the bits of this one
  CheckOf(_, _, _),
  nex(_, _),           \* State_table
  RingSize,            \* N + 1
  HashSize,            \* HN + 1
  Factor1, Factor2,    \* 3 << 3 and 5 << 5
  MAXLEN               \* 62

ASSUME SizeAssumption ==
  /\ Nibble \in Nat \ {0} /\ ByteBits = 2 * Nibble
  /\ IsFiniteSet(Orders) /\ Orders = 1 .. Cardinality(Orders)
  /\ Slots \in Nat \ {0} /\ Slots % 4 = 0 /\ ContextBytes \in Nat \ {0}
  /\ RingSize \in Nat \ {0} /\ HashSize \in Nat \ {0}
  /\ Factor1 \in Nat /\ Factor2 \in Nat
  /\ MAXLEN \in Nat /\ MAXLEN >= 2

Octets == 2 ^ ByteBits
Octet == 0 .. Octets - 1

(* A context has a slot of the table; check bytes and states are bytes.    *)
ASSUME TableAssumption ==
  /\ \A k \in Orders, c4 \in [1 .. ContextBytes -> Octet], c \in Octet :
       SlotOf(k, c4, c) \in 0 .. Slots - 1 /\ CheckOf(k, c4, c) \in Octet
  /\ \A s \in Octet, y \in {0, 1} : nex(s, y) \in Octet

SlotSize == 2 ^ Nibble                 \* B
Ring(i) == i % RingSize                \* i & N
Unset == [slot |-> 0, at |-> 0]        \* a cp[k] that still points to t0

NewSlot(chk) == [chk |-> chk, state |-> [a \in 1 .. SlotSize - 1 |-> 0]]

(* What the constructor makes. *)
NewPredictor ==
  [ht |-> [s \in 0 .. Slots - 1 |-> NewSlot(0)],
   cp |-> [k \in Orders |-> Unset],
   c0 |-> 1, bcount |-> 0, c4 |-> [k \in 1 .. ContextBytes |-> 0],
   buf |-> [i \in 0 .. RingSize - 1 |-> 0], pos |-> 0, h1 |-> 0, h2 |-> 0,
   heads |-> [i \in 0 .. HashSize - 1 |-> 0], match |-> 0, len |-> 0]

-----------------------------------------------------------------------------
(* HashTable.c.  The slots of a group of four differ in two bits. *)
Flip(s, d) ==
  (s - (s % 4)) + 2 * ((s \div 2 + d \div 2) % 2) + ((s + d) % 2)

Priority(ht, s) == ht[s].state[1]

Probed(s) == {s, Flip(s, 1), Flip(s, 2)}

(* Mutated: the first test looks at one neighbour. *)
VictimOfTwo(ht, s) ==
  LET near == IF Priority(ht, s) > Priority(ht, Flip(s, 1)) THEN Flip(s, 1) ELSE s
  IN  IF Priority(ht, near) > Priority(ht, Flip(near, 3)) THEN Flip(near, 3) ELSE near

(* The slot that is replaced: of the three that were probed or the fourth. *)
Victim(ht, s) ==
  LET near == IF \E d \in {1, 2} : Priority(ht, s) > Priority(ht, Flip(s, d))
                THEN Flip(s, 1) ELSE s
  IN  IF Priority(ht, near) > Priority(ht, Flip(near, 3)) THEN Flip(near, 3) ELSE near

Holds(ht, s, chk) == {v \in Probed(s) : ht[v].chk = chk}

(* Mutated: the slot is cleared after its check byte is stored. *)
GetCleared(ht, s, chk) ==
  LET v == Victim(ht, s)
      d == CHOOSE e \in 0 .. 2 : ht[Flip(s, e)].chk = chk
                        /\ \A f \in 0 .. e - 1 : ht[Flip(s, f)].chk # chk
  IN  IF Holds(ht, s, chk) # {} THEN [ht |-> ht, slot |-> Flip(s, d)]
      ELSE [ht |-> [ht EXCEPT ![v] = NewSlot(0)], slot |-> v]

(* t(): the table afterwards and the slot of the context. *)
Get(ht, s, chk) ==
  LET v == Victim(ht, s)
      d == CHOOSE e \in 0 .. 2 : ht[Flip(s, e)].chk = chk
                        /\ \A f \in 0 .. e - 1 : ht[Flip(s, f)].chk # chk
  IN  IF Holds(ht, s, chk) # {} THEN [ht |-> ht, slot |-> Flip(s, d)]
      ELSE [ht |-> [ht EXCEPT ![v] = NewSlot(chk)], slot |-> v]

-----------------------------------------------------------------------------
(* MatchModel.c *)

(* Mutated: what the hash finds is taken for a match. *)
MatchTrusted(buf, pos, m) == IF m = pos THEN 0 ELSE 2

(* Length of the match of the bytes before m with the last ones. *)
MatchBack(buf, pos, m) ==
  LET Ends(n) == \/ n = MAXLEN
                 \/ Ring(m - n - 1) = pos
                 \/ buf[Ring(m - n - 1)] # buf[Ring(pos - n - 1)]
  IN  IF m = pos THEN 0 ELSE CHOOSE n \in 0 .. MAXLEN : Ends(n) /\ \A l \in 0 .. n - 1 : ~Ends(l)

(* At the end of a byte.  A match that is followed is not compared: its    *)
(* last bit has not been.                                                  *)
FindMatch(pd) ==
  LET first == pd.heads[pd.h1]
      second == pd.heads[pd.h2]
      m == IF pd.len > 0
             THEN [match |-> Ring(pd.match + 1), len |-> IF pd.len < MAXLEN THEN pd.len + 1 ELSE MAXLEN]
             ELSE [match |-> first, len |-> MatchBack(pd.buf, pd.pos, first)]
      n == IF m.len < 2 THEN [match |-> second, len |-> MatchBack(pd.buf, pd.pos, second)] ELSE m
  IN  [pd EXCEPT !.match = n.match, !.len = n.len,
                 !.heads[pd.h1] = pd.pos, !.heads[pd.h2] = pd.pos]

(* The bits of this byte are those of the byte predicted, so far. *)
Follows(pd) == (pd.buf[pd.match] + Octets) \div 2 ^ (ByteBits - pd.bcount) = pd.c0

Expected(pd) == (pd.buf[pd.match] \div 2 ^ (ByteBits - 1 - pd.bcount)) % 2

(* p() *)
MatchP(pd) ==
  LET found == IF pd.bcount = 0 THEN FindMatch(pd) ELSE pd
  IN  IF found.len > 0 /\ Follows(found) THEN found ELSE [found EXCEPT !.len = 0]

-----------------------------------------------------------------------------
(* Encoder.c *)

(* Each pointer's state takes the bit; two may point to the same. *)
Learn(pd, y) ==
  LET times(s, a) == Cardinality({k \in Orders : pd.cp[k] = [slot |-> s, at |-> a]})
      after(v, n) == LET f[j \in 0 .. n] == IF j = 0 THEN v ELSE nex(f[j - 1], y) IN f[n]
      taken(s) == [a \in 1 .. SlotSize - 1 |-> after(pd.ht[s].state[a], times(s, a))]
  IN  [pd EXCEPT !.ht = [s \in DOMAIN pd.ht |-> [pd.ht[s] EXCEPT !.state = taken(s)]]]

(* cp[k] = t(&ht, h[k] + c) + 1, one order after the other. *)
Find(pd, c) ==
  LET Step(p, k) ==
        LET g == Get(p.ht, SlotOf(k, p.c4, c), CheckOf(k, p.c4, c))
        IN  [p EXCEPT !.ht = g.ht, !.cp[k] = [slot |-> g.slot, at |-> 1]]
      found[k \in 0 .. Cardinality(Orders)] ==
        IF k = 0 THEN pd ELSE CHOOSE q \in {Step(p, k) : p \in {found[k - 1]}} : TRUE
  IN  found[Cardinality(Orders)]

(* Mutated: the shift is not reduced by one. *)
AdvanceTwice(pd, y) ==
  LET j == (y + 1) * 2 ^ (pd.bcount % Nibble)
      moved(c) == IF c = Unset THEN Unset ELSE [c EXCEPT !.at = @ + j]
  IN  [pd EXCEPT !.cp = [k \in Orders |-> moved(pd.cp[k])]]

(* cp[k] += j *)
Advance(pd, y) ==
  LET j == (y + 1) * 2 ^ ((pd.bcount % Nibble) - 1)
      moved(c) == IF c = Unset THEN Unset ELSE [c EXCEPT !.at = @ + j]
  IN  [pd EXCEPT !.cp = [k \in Orders |-> moved(pd.cp[k])]]

EndByte(pd) ==
  LET c == pd.c0 - Octets
      moved == [pd EXCEPT
        !.h1 = (@ * Factor1 + pd.c0) % HashSize, !.h2 = (@ * Factor2 + pd.c0) % HashSize,
        !.buf[pd.pos] = c, !.pos = Ring(@ + 1), !.c4 = Append(Tail(@), c),
        !.c0 = 1, !.bcount = 0]
  IN  Find(moved, 0)

(* update(): what was learned of bit y, and the contexts of the next. *)
Update(pd, y) ==
  LET learned == [Learn(pd, y) EXCEPT !.c0 = 2 * @ + y]
      counted == [learned EXCEPT !.bcount = @ + 1]
  IN  MatchP(IF learned.c0 >= Octets THEN EndByte(learned)
             ELSE IF counted.bcount = Nibble THEN Find(counted, counted.c0)
             ELSE Advance(counted, y))

(* What the prediction is made of. *)
StateAt(pd, k) == IF pd.cp[k] = Unset THEN 0 ELSE pd.ht[pd.cp[k].slot].state[pd.cp[k].at]
Seen(pd) ==
  <<pd.c0, pd.len, IF pd.len > 0 THEN Expected(pd) ELSE 2, [k \in Orders |-> StateAt(pd, k)]>>
=============================================================================
