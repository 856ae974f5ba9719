------------------------------ MODULE UclSize ------------------------------
(***************************************************************************)
(* The length of the block that ucl_nrv2b_99_compress produces, counted    *)
(* without the text: what each token of UclCompress adds to the block, and *)
(* how far the decompressor's output is ahead of its input after it.       *)
(***************************************************************************)
EXTENDS UclFormat, FiniteSetsExt

CONSTANTS
  Runs, Lengths, Offsets,     \* bounds: the tokens
  Series,                     \* bound: series of matches, [times, len, off]
  MaxIn,                      \* bound: the length of the text
  block_size,
  Slack                       \* 256

VARIABLES
  in_len,           \* bytes of text that are coded
  bits, bytes,      \* what was put
  last_m_off,
  lead              \* history: the most that text was longer than block after a token

vars == <<in_len, bits, bytes, last_m_off, lead>>

Init == in_len = 0 /\ bits = 0 /\ bytes = 0 /\ last_m_off = 1 /\ lead = 0

(* The decompressor has read the byte that the last bit is in. *)
Fetched(b, n) == (b + BitsPerByte - 1) \div BitsPerByte + n

(* Of a literal: a flag and a byte.  It does not make the lead greater.    *)
CodeRun(n) ==
  /\ in_len' = in_len + n
  /\ bits' = bits + n /\ bytes' = bytes + n
  /\ UNCHANGED <<last_m_off, lead>>

(* A prefix code has two bits for each bit of i + 2 below the highest; a    *)
(* positive int has 31 bits.                                               *)
PrefixBits(i) == 2 * Cardinality({k \in 1 .. 30 : 2 ^ k <= i + 2})
LengthBits(length) == 2 + IF length >= 4 THEN PrefixBits(length - 4) ELSE 0
OffsetBits(off) == PrefixBits(1 + (off - 1) \div ByteBase)

(* The flag and the length. *)
FlagLengthBits(len, off) ==
  1 + LengthBits(len - 1 - (IF off > M2_MAX_OFFSET THEN 1 ELSE 0))

CodeMatch(len, off) ==
  /\ off <= in_len
  /\ in_len' = in_len + len
  /\ bits' = bits + FlagLengthBits(len, off)
                + IF off = last_m_off THEN 2 ELSE OffsetBits(off)
  /\ bytes' = bytes + IF off = last_m_off THEN 0 ELSE 1
  /\ last_m_off' = off
  /\ lead' = Max({lead, in_len' - Fetched(bits', bytes')})

(* Some matches from off and off + 1 in turn, so that none is from the     *)
(* last offset.  As many as a byte has bits, taken twice, end at the same  *)
(* bit of a byte: the lead is greatest near the first or near the last.    *)
CodeSeries(times, len, off) ==
  LET Bits(n) == bits + n * FlagLengthBits(len, off + 1)
                   + ((n + 1) \div 2) * OffsetBits(off) + (n \div 2) * OffsetBits(off + 1)
      ends == {n \in 1 .. times : n <= 2 * BitsPerByte \/ n > times - 2 * BitsPerByte}
  IN  /\ off + 1 <= in_len /\ off # last_m_off /\ off > M2_MAX_OFFSET
      /\ in_len' = in_len + times * len
      /\ bits' = Bits(times) /\ bytes' = bytes + times
      /\ last_m_off' = IF times % 2 = 1 THEN off ELSE off + 1
      /\ lead' = Max({lead} \cup {in_len + n * len - Fetched(Bits(n), bytes + n) : n \in ends})

Next ==
  \/ \E n \in Runs : in_len + n <= MaxIn /\ CodeRun(n)
  \/ \E len \in Lengths, off \in Offsets : in_len + len <= MaxIn /\ CodeMatch(len, off)
  \/ \E s \in Series :
       in_len + s.times * s.len <= MaxIn /\ CodeSeries(s.times, s.len, s.off)

Spec == Init /\ [][Next]_vars

(* With the end mark and the rest of the last byte of bits. *)
out_len == Fetched(bits + 1 + PrefixBits(EofPrefix), bytes + 1)

(* The buffer that do_decompress has for a block. *)
buf_len == block_size + block_size \div BitsPerByte + Slack

(* uclpack.c takes a longer block for an internal error, of which it says  *)
(* "this should NEVER happen" (line 214).                                  *)
BlockFits == out_len <= in_len + in_len \div BitsPerByte + Slack

(* The buffer is allocated "for in-place decompression" (line 296): of a   *)
(* block that was kept compressed, at the end of the buffer, the output    *)
(* that grows from the beginning never reaches a byte still to be read.    *)
FitsInPlace == out_len < in_len => lead <= buf_len - out_len
=============================================================================
