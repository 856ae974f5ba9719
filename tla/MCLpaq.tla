------------------------------- MODULE MCLpaq -------------------------------
(* The archive has two-bit bytes, so a word has eight bits and four bytes, *)
(* as x has four bytes in the code; the predictions are the two ends and   *)
(* the middle, for the first bits of the short files.  The files have      *)
(* four-bit bytes; the long ones go round the ring of the match model and  *)
(* fill a group of the hash table, where the contexts of two orders meet.  *)
EXTENDS LpaqCoder

Ends == {0, Scale \div 2, Scale - 1}

Short == {<<>>} \cup {<<a, b>> : a \in 0 .. 15, b \in {6, 15}}
Long ==
  {u \o u \o SubSeq(u, 1, 3) : u \in [1 .. 5 -> {0, 6, 7}]}
    \cup {u \o v \o u \o v : u \in [1 .. 3 -> {6, 7}], v \in {<<12>>, <<0, 9>>}}
MCFiles == Short \cup Long
MCFreeBits(f) == IF Len(f) <= 2 THEN 5 ELSE 0

(* The first order sees one byte, the second two. *)
Context(k, c4) == IF k = 1 THEN c4[2] ELSE 5 * c4[1] + c4[2]
MCSlotOf(k, c4, c) == (Context(k, c4) + c) % 4
MCCheckOf(k, c4, c) == (Context(k, c4) + 3 * c + k) % 7

(* The first rows of State_table, and then counts that go up and down. *)
MCnex(s, y) ==
  CASE s = 0 -> 1 + y [] s = 1 -> 3 + 2 * y [] s = 2 -> 4 + 2 * y
    [] OTHER -> IF y = 1 /\ s < 8 THEN s + 1 ELSE IF y = 0 /\ s > 3 THEN s - 1 ELSE s
=============================================================================
