----------------------------- MODULE MCUclPack -----------------------------
(* Bytes of two bits, so that an offset is a prefix and two bits: texts of *)
(* nine bytes have offsets with a short and with a long prefix, and on    *)
(* both sides of M2_MAX_OFFSET.  The longer texts are a run and any three  *)
(* bytes: their blocks are shorter than they are.  A sum of nine bytes and *)
(* no more fits in a word of eight bits.                                   *)
EXTENDS UclPack

Run(b, n) == [i \in 1 .. n |-> b]
MCTexts ==
  UNION {[1 .. n -> {0, 1}] : n \in 1 .. 9}
    \cup {Run(0, 9) \o tail : tail \in [1 .. 3 -> {0, 1}]}

(* Empty; a byte; stored; compressed; stored, then compressed.             *)
MCDamagedFiles ==
  {<<>>, <<2>>, <<3, 0, 2>>, Run(1, 12), <<3, 3, 2, 1, 0, 3, 2, 3, 0, 1, 3, 3>> \o Run(0, 12)}
(* The same block twice; blocks of the largest bytes; a short last block.  *)
MCFiles ==
  MCDamagedFiles \cup [1 .. 3 -> {0, 3}]
    \cup {Run(2, 24), Run(3, 11), Run(3, 30), Run(1, 12) \o <<2, 3>>}
MCMagic == <<0, 2>>
=============================================================================
