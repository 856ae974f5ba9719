------------------------------- MODULE UclSwd -------------------------------
(***************************************************************************)
(* The sliding window dictionary of src/uclpack/n2b_99.c, which finds the  *)
(* matches of the compressor: a ring of n + f bytes, the first f of them   *)
(* repeated after its end, with f bytes ahead of the current position and  *)
(* n behind it.  Positions ("nodes") with the same hash of three bytes are *)
(* chained; a chain is as long as its count says, so that a node leaves it *)
(* by the count going down.                                                *)
(*                                                                         *)
(* find_match is Find, a turn of Accept for every byte that the last match *)
(* covered, and FindBest.                                                  *)
(***************************************************************************)
EXTENDS Integers, Sequences, FiniteSetsExt

CONSTANTS
  Byte,
  Hash(_, _, _),    \* HEAD3
  Keys,             \* its values
  n, f,             \* the window and the longest match
  NiceLengths,      \* values of nice_length
  MaxChains,        \* values of max_chain; 0 is no limit
  Texts,            \* bound: the texts
  MaxAccept         \* bound: what the parser accepts at a time

ASSUME SwdAssumption ==
  /\ n \in Nat \ {0} /\ f \in Nat /\ f >= 3
  /\ MaxChains \subseteq Nat /\ NiceLengths \subseteq Nat
  /\ \A t \in Texts : t \in Seq(Byte) /\ t # <<>>
  /\ \A x, y, z \in Byte : Hash(x, y, z) \in Keys
  /\ \A x, y, z, t \in Byte : Hash(x, y, z) = Hash(x, y, t) => z = t

VARIABLES
  text, next,                   \* the input, and how much of it was read
  b,                            \* the ring
  ip, bp, rp,                   \* where to read to, search at, remove at
  look,                         \* bytes ahead
  node_count,                   \* removals that have nothing to remove
  head3, succ3, best3, llen3,
  m_len, m_off,
  nice_length,
  pos,                          \* history: the positions that were passed
  exact,                        \* history: no search was cut short
  accept,                       \* positions still to be accepted
  pc

ring   == <<b, ip, bp, rp, look, node_count>>
chains == <<head3, succ3, best3, llen3>>
vars   == <<text, next, ring, chains, m_len, m_off, nice_length, pos, exact, accept, pc>>

b_size == n + f
Least(x, y) == IF x < y THEN x ELSE y

-----------------------------------------------------------------------------
(* Memory that was never written holds some byte. *)
Init ==
  /\ text \in Texts
  /\ look = Least(Len(text), f) /\ next = look
  /\ \E g \in Byte :
       b = [i \in 0 .. b_size + f - 1 |-> IF i < look THEN text[i + 1] ELSE g]
  /\ ip = look % b_size /\ bp = 0
  /\ rp = f /\ node_count = n
  /\ head3 = [k \in Keys |-> 0] /\ llen3 = [k \in Keys |-> 0]
  /\ succ3 = [i \in 0 .. b_size - 1 |-> 0] /\ best3 = succ3
  /\ m_len = 1 /\ m_off = 0 /\ nice_length \in NiceLengths
  /\ pos = 0 /\ exact = TRUE
  /\ accept = 0 /\ pc = "find"

HEAD3(p) == Hash(b[p], b[p + 1], b[p + 2])
Succ(p) == (p + 1) % b_size

(* Mutated: the copy of the first bytes after the end of the ring is left  *)
(* out.                                                                    *)
WrittenOnce(c) == [b EXCEPT ![ip] = c]

Written(c) ==
  [i \in DOMAIN b |-> IF i = ip \/ (ip < f /\ i = ip + b_size) THEN c ELSE b[i]]

swd_getbyte ==
  /\ \/ /\ next = Len(text)
        /\ look' = (IF look > 0 THEN look - 1 ELSE 0) /\ UNCHANGED <<b, next>>
     \/ /\ next < Len(text)
        /\ b' = Written(text[next + 1]) /\ next' = next + 1 /\ UNCHANGED look
  /\ ip' = Succ(ip) /\ bp' = Succ(bp) /\ rp' = Succ(rp)
  /\ pos' = pos + 1

(* Mutated: a node stays in its chain for one position more. *)
ChangeLate ==
  [k \in Keys |-> (IF k = HEAD3(bp) THEN 1 ELSE 0)
                    - (IF node_count = 0 /\ k = HEAD3(Succ(rp)) THEN 1 ELSE 0)]

(* The chains that get longer, by the node at bp, and shorter, by the one  *)
(* at rp (swd_remove_node).                                                *)
Change ==
  [k \in Keys |-> (IF k = HEAD3(bp) THEN 1 ELSE 0)
                    - (IF node_count = 0 /\ k = HEAD3(rp) THEN 1 ELSE 0)]

InsertAndRemove ==
  /\ succ3' = [succ3 EXCEPT ![bp] = head3[HEAD3(bp)]]
  /\ head3' = [head3 EXCEPT ![HEAD3(bp)] = bp]
  /\ llen3' = [k \in Keys |-> llen3[k] + Change[k]]
  /\ node_count' = IF node_count = 0 THEN 0 ELSE node_count - 1

(* find_match: a match of this_len is accepted but for the bytes skipped.  *)
Find ==
  /\ pc = "idle"
  /\ accept' \in 0 .. Least(look, MaxAccept)
  /\ pc' = "find"
  /\ UNCHANGED <<text, next, ring, chains, m_len, m_off, nice_length, pos, exact>>

(* Mutated: an accepted node promises that nothing longer is behind it.    *)
BestOfAccepted0 == 0

(* What is not known of a node that was accepted without a search. *)
BestOfAccepted == f + 1

(* A turn of swd_accept. *)
Accept ==
  /\ pc = "find" /\ accept > 0
  /\ InsertAndRemove
  /\ best3' = [best3 EXCEPT ![bp] = BestOfAccepted]
  /\ swd_getbyte
  /\ accept' = accept - 1
  /\ UNCHANGED <<text, m_len, m_off, nice_length, exact, pc>>

-----------------------------------------------------------------------------
(* The first cnt nodes of the chain at bp, before bp is in it. *)
Chain(key, cnt) ==
  LET node[i \in 1 .. cnt] == IF i = 1 THEN head3[key] ELSE succ3[node[i - 1]]
  IN  [i \in 1 .. cnt |-> node[i]]

(* The bytes that agree with those at bp.  The third is not compared: the  *)
(* hash says that it agrees.                                               *)
Common(node) ==
  IF b[node] # b[bp] \/ b[node + 1] # b[bp + 1] THEN 0
  ELSE Max({l \in 3 .. look : \A i \in 3 .. l - 1 : b[node + i] = b[bp + i]})

(* swd_search: the chain is followed until a match is long enough, or the  *)
(* node knows of nothing longer behind it.                                 *)
Search(nodes) ==
  LET len[i \in 0 .. Len(nodes)] ==
        Max({1} \cup {Common(nodes[j]) : j \in 1 .. i})
      Stops(i) == /\ len[i] > len[i - 1]
                  /\ \/ len[i] = look
                     \/ len[i] >= nice_length
                     \/ len[i] > best3[nodes[i]]
      last == Min({Len(nodes)} \cup {i \in 1 .. Len(nodes) : Stops(i)})
  IN  [m_len |-> len[last],
       m_pos |-> IF len[last] = 1 THEN 0
                 ELSE nodes[Min({i \in 1 .. last : Common(nodes[i]) = len[last]})]]

(* Mutated: the node at the position itself is taken for the one a ring ago. *)
swd_pos2off_wrong(p) == IF bp > p THEN bp - p ELSE n - (p - bp)

swd_pos2off(p) == IF bp > p THEN bp - p ELSE b_size - (p - bp)

FindBest(max_chain) ==
  LET key   == HEAD3(bp)
      cut   == max_chain > 0 /\ llen3[key] > max_chain
      nodes == Chain(key, IF cut THEN max_chain ELSE llen3[key])
      match == IF look >= 3 THEN Search(nodes) ELSE [m_len |-> 1, m_pos |-> 0]
  IN  /\ pc = "find" /\ accept = 0
      /\ InsertAndRemove
      /\ m_len' = match.m_len
      /\ m_off' = IF look <= 1 THEN 0
                  ELSE IF match.m_len > 1 THEN swd_pos2off(match.m_pos) ELSE m_off
      /\ best3' = [best3 EXCEPT ![bp] = IF look <= 1 THEN f + 1 ELSE match.m_len]
      /\ exact' = (exact /\ ~cut /\ nice_length >= f)
      /\ swd_getbyte
      /\ pc' = IF look = 0 THEN "exit" ELSE "idle"
      /\ UNCHANGED <<text, nice_length, accept>>

Next ==
  \/ Find
  \/ Accept
  \/ \E max_chain \in MaxChains : FindBest(max_chain)

Spec == Init /\ [][Next]_vars

-----------------------------------------------------------------------------
Slot(p) == p % b_size
Window == {p \in 0 .. pos - 1 : p >= pos - n}

(* Every position of the window, and every one ahead, is followed by its   *)
(* own text, though the ring is written to n + f bytes behind: the search  *)
(* and the hash read across the end of the ring.                           *)
RingHoldsWindow ==
  \A p \in Window \cup pos .. next - 1 : \A i \in 0 .. f - 1 :
    p + i < next => b[Slot(p) + i] = text[p + i + 1]

(* The place of a position in a chain: the newer ones are before it.       *)
Place(p, K) == Cardinality({q \in K : q >= p})

(* A chain has the positions of the window with its hash, newest first,    *)
(* and no others: a node's hash is computed a second time when it leaves,  *)
(* from a ring that was written to meanwhile.  (The assertions on llen3.)  *)
ChainsExact ==
  \A k \in Keys :
    LET K == {p \in Window : HEAD3(Slot(p)) = k}
    IN  /\ llen3[k] = Cardinality(K)
        /\ \A p \in K : Chain(k, llen3[k])[Place(p, K)] = Slot(p)

Agree(p, q, l) == \A i \in 1 .. l : text[p + i] = text[q + i]

(* A match is in the text, not behind the window, and not past the end.    *)
MatchIsReal ==
  pc = "idle" /\ m_len > 1 =>
    LET p == pos - 1
    IN  /\ m_off \in 1 .. Least(n, p) /\ p + m_len <= Len(text) /\ m_len >= 3
        /\ Agree(p, p - m_off, m_len)

(* A search that no limit cuts short returns the longest match of three or *)
(* more: what best3 leaves out could not have been longer.                 *)
LongestFound ==
  pc = "idle" /\ exact =>
    LET p == pos - 1
    IN  ~\E off \in 1 .. Least(n, p) :
          LET l == IF m_len < 3 THEN 3 ELSE m_len + 1
          IN  l <= f /\ p + l <= Len(text) /\ Agree(p, p - off, l)
=============================================================================
