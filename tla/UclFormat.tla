----------------------------- MODULE UclFormat -----------------------------
(***************************************************************************)
(* The parameters of the NRV2B format, which n2b_99.c writes and n2b_d.c   *)
(* reads.                                                                  *)
(***************************************************************************)
EXTENDS Integers, Sequences

CONSTANTS
  BitsPerByte,      \* 8
  M2_MAX_OFFSET,    \* 0xd00: a longer offset has no match of two bytes
  EofPrefix         \* 1 << 24; offsets are below EofPrefix * ByteBase

ASSUME FormatAssumption ==
  /\ BitsPerByte \in Nat /\ BitsPerByte >= 2
  /\ M2_MAX_OFFSET \in Nat /\ EofPrefix \in Nat \ {0}

ByteBase == 2 ^ BitsPerByte
Byte == 0 .. ByteBase - 1

(* The highest bit of a word: a prefix code carries the bits below it.     *)
Log2(v) == CHOOSE k \in 0 .. v : 2 ^ k <= v /\ v < 2 ^ (k + 1)
=============================================================================
