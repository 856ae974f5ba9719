--------------------------- MODULE UclDecompress ---------------------------
(***************************************************************************)
(* ucl_nrv2b_decompress_8 of src/uclpack/n2b_d.c.  The stream mixes bits,  *)
(* which are fetched a byte at a time, with whole bytes.  One action for   *)
(* each part of a token: the flag (and the literal), a turn of the offset  *)
(* loop, the offset byte, the length, a turn of the length loop, the copy. *)
(*                                                                         *)
(* The bit reader does not test the end of the input (the token does,      *)
(* later): a byte past the end is arbitrary.  A caller may decompress in   *)
(* place, the block at the end of the buffer that the output fills from    *)
(* its beginning: a byte of the block that the output has reached reads as *)
(* what was written there.                                                 *)
(***************************************************************************)
EXTENDS UclFormat

VARIABLES
  src,              \* the compressed block, as it was given
  place,            \* where src begins in the memory of dst, or Apart
  oend,             \* *dst_len: the room for the output
  dst,              \* the output, olen = Len(dst)
  in,               \* the bit buffer and the input position: [bb, ilen]
  m_off, m_len, last_m_off,
  dpc               \* the part of the token, or the result

dvars == <<src, place, oend, dst, in, m_off, m_len, last_m_off, dpc>>

-----------------------------------------------------------------------------
Apart == -1

(* The byte at position i of the input, as it is now. *)
Input(i) == IF place # Apart /\ place + i < Len(dst) THEN dst[place + i + 1] ELSE src[i + 1]

(* src[ilen], where g lies past the end. *)
At(i, g) == IF i < Len(src) THEN Input(i) ELSE g

(* Mutated: the buffer is taken for empty when the bits left are zeros. *)
getbitNoMark(d, g) ==
  IF d.bb % (ByteBase \div 2) # 0
  THEN [d EXCEPT !.bb = 2 * @]
  ELSE [bb |-> 2 * At(d.ilen, g), ilen |-> d.ilen + 1]

(* getbit_8: the bits left are followed by a one that marks their end. *)
getbit(d, g) ==
  IF d.bb % (ByteBase \div 2) # 0
  THEN [d EXCEPT !.bb = 2 * @]
  ELSE [bb |-> 2 * At(d.ilen, g) + 1, ilen |-> d.ilen + 1]

Bit(d) == (d.bb \div ByteBase) % 2

Fail(r) ==
  /\ dpc' = r
  /\ UNCHANGED <<src, place, oend, dst, m_off, m_len, last_m_off>>

Flag(g) ==
  /\ dpc = "flag"
  /\ LET d == getbit(in, g)
     IN  \/ /\ Bit(d) = 0
            /\ in' = d /\ m_off' = 1 /\ dpc' = "offset"
            /\ UNCHANGED <<src, place, oend, dst, m_len, last_m_off>>
         \/ /\ Bit(d) = 1 /\ d.ilen >= Len(src)
            /\ in' = d /\ Fail("INPUT_OVERRUN")
         \/ /\ Bit(d) = 1 /\ d.ilen < Len(src) /\ Len(dst) >= oend
            /\ in' = d /\ Fail("OUTPUT_OVERRUN")
         \/ /\ Bit(d) = 1 /\ d.ilen < Len(src) /\ Len(dst) < oend
            /\ dst' = Append(dst, Input(d.ilen))
            /\ in' = [d EXCEPT !.ilen = @ + 1]
            /\ UNCHANGED <<src, place, oend, m_off, m_len, last_m_off, dpc>>

OffsetTurn(g) ==
  /\ dpc = "offset"
  /\ LET d1  == getbit(in, g)
         off == 2 * m_off + Bit(d1)
         d2  == getbit(d1, g)
     IN  \/ d1.ilen >= Len(src) /\ in' = d1 /\ Fail("INPUT_OVERRUN")
         \/ /\ d1.ilen < Len(src) /\ off > EofPrefix + 2
            /\ in' = d1 /\ Fail("LOOKBEHIND_OVERRUN")
         \/ /\ d1.ilen < Len(src) /\ off <= EofPrefix + 2
            /\ in' = d2 /\ m_off' = off
            /\ dpc' = IF Bit(d2) = 1 THEN "offset_byte" ELSE "offset"
            /\ UNCHANGED <<src, place, oend, dst, m_len, last_m_off>>

(* The offset of the last match, the end mark, or a new offset. *)
Offset ==
  /\ dpc = "offset_byte"
  /\ UNCHANGED <<src, place, oend, dst, m_len>>
  /\ \/ /\ m_off = 2
        /\ m_off' = last_m_off /\ dpc' = "length" /\ UNCHANGED <<in, last_m_off>>
     \/ /\ m_off # 2 /\ in.ilen >= Len(src)
        /\ dpc' = "INPUT_OVERRUN" /\ UNCHANGED <<in, m_off, last_m_off>>
     \/ /\ m_off # 2 /\ in.ilen < Len(src)
        /\ in' = [in EXCEPT !.ilen = @ + 1]
        /\ m_off' = (m_off - 3) * ByteBase + Input(in.ilen) + 1
        /\ \/ /\ m_off' = EofPrefix * ByteBase
              /\ dpc' = "end" /\ UNCHANGED last_m_off
           \/ /\ m_off' # EofPrefix * ByteBase
              /\ dpc' = "length" /\ last_m_off' = m_off'

Length(g) ==
  /\ dpc = "length"
  /\ LET d1  == getbit(in, g)
         d2  == getbit(d1, g)
         len == 2 * Bit(d1) + Bit(d2)
     IN  /\ in' = d2
         /\ m_len' = IF len = 0 THEN 1 ELSE len
         /\ dpc' = IF len = 0 THEN "long_length" ELSE "copy"
  /\ UNCHANGED <<src, place, oend, dst, m_off, last_m_off>>

(* Mutated: the end of the input is not tested in the loop.                *)
LengthTurnUntested(g) ==
  /\ dpc = "long_length"
  /\ LET d1  == getbit(in, g)
         len == 2 * m_len + Bit(d1)
         d2  == getbit(d1, g)
     IN  \/ len >= oend /\ in' = d1 /\ Fail("OUTPUT_OVERRUN")
         \/ /\ len < oend
            /\ in' = d2
            /\ m_len' = IF Bit(d2) = 1 THEN len + 2 ELSE len
            /\ dpc' = IF Bit(d2) = 1 THEN "copy" ELSE "long_length"
            /\ UNCHANGED <<src, place, oend, dst, m_off, last_m_off>>

LengthTurn(g) ==
  /\ dpc = "long_length"
  /\ LET d1  == getbit(in, g)
         len == 2 * m_len + Bit(d1)
         d2  == getbit(d1, g)
     IN  \/ d1.ilen >= Len(src) /\ in' = d1 /\ Fail("INPUT_OVERRUN")
         \/ d1.ilen < Len(src) /\ len >= oend /\ in' = d1 /\ Fail("OUTPUT_OVERRUN")
         \/ /\ d1.ilen < Len(src) /\ len < oend
            /\ in' = d2
            /\ m_len' = IF Bit(d2) = 1 THEN len + 2 ELSE len
            /\ dpc' = IF Bit(d2) = 1 THEN "copy" ELSE "long_length"
            /\ UNCHANGED <<src, place, oend, dst, m_off, last_m_off>>

(* What the copy loop appends: bytes that the same copy wrote may be read. *)
Copied(t, off, n) ==
  [i \in 1 .. Len(t) + n |->
     IF i <= Len(t) THEN t[i] ELSE t[Len(t) - off + 1 + ((i - Len(t) - 1) % off)]]

(* Mutated: a far match gets its additional byte after the test.           *)
CopyFarUntested ==
  /\ dpc = "copy"
  /\ \/ Len(dst) + m_len > oend /\ Fail("OUTPUT_OVERRUN")
     \/ /\ Len(dst) + m_len <= oend /\ m_off > Len(dst)
        /\ Fail("LOOKBEHIND_OVERRUN")
     \/ /\ Len(dst) + m_len <= oend /\ m_off <= Len(dst)
        /\ dst' = Copied(dst, m_off, m_len + IF m_off > M2_MAX_OFFSET THEN 2 ELSE 1)
        /\ dpc' = "flag"
        /\ UNCHANGED <<src, place, oend, m_off, m_len, last_m_off>>
  /\ UNCHANGED in

(* The test is made with len, and len + 1 bytes are copied. *)
Copy ==
  /\ dpc = "copy"
  /\ LET len == IF m_off > M2_MAX_OFFSET THEN m_len + 1 ELSE m_len
     IN  \/ Len(dst) + len > oend /\ Fail("OUTPUT_OVERRUN")
         \/ /\ Len(dst) + len <= oend /\ m_off > Len(dst)
            /\ Fail("LOOKBEHIND_OVERRUN")
         \/ /\ Len(dst) + len <= oend /\ m_off <= Len(dst)
            /\ dst' = Copied(dst, m_off, len + 1)
            /\ dpc' = "flag"
            /\ UNCHANGED <<src, place, oend, m_off, m_len, last_m_off>>
  /\ UNCHANGED in

Result ==
  /\ dpc = "end"
  /\ dpc' = IF in.ilen = Len(src) THEN "OK"
            ELSE IF in.ilen < Len(src) THEN "INPUT_NOT_CONSUMED"
            ELSE "INPUT_OVERRUN"
  /\ UNCHANGED <<src, place, oend, dst, in, m_off, m_len, last_m_off>>

Start(block, room) ==
  /\ src = block /\ place = Apart /\ oend = room
  /\ dst = <<>> /\ in = [bb |-> 0, ilen |-> 0]
  /\ m_off = 0 /\ m_len = 0 /\ last_m_off = 1
  /\ dpc = "flag"

(* The call. *)
DecompressStart(block, where, room) ==
  /\ src' = block /\ place' = where /\ oend' = room
  /\ dst' = <<>> /\ in' = [bb |-> 0, ilen |-> 0]
  /\ m_off' = 0 /\ m_len' = 0 /\ last_m_off' = 1
  /\ dpc' = "flag"

DecompressIdle ==
  /\ src = <<>> /\ place = Apart /\ oend = 0
  /\ dst = <<>> /\ in = [bb |-> 0, ilen |-> 0]
  /\ m_off = 0 /\ m_len = 0 /\ last_m_off = 1
  /\ dpc = "OK"

Decompress ==
  \/ \E g \in Byte : Flag(g) \/ OffsetTurn(g) \/ Length(g) \/ LengthTurn(g)
  \/ Offset \/ Copy \/ Result

Running == {"flag", "offset", "offset_byte", "length", "long_length", "copy", "end"}

(* No byte that is still to be read was overwritten. *)
Unread == place # Apart => Len(dst) <= place + in.ilen

-----------------------------------------------------------------------------
(* Whatever the block says, the output stays in its room but for the one   *)
(* byte that the test of the copy leaves out (the buffer of the container  *)
(* has the place).  The input is tested once in a token, after bits were   *)
(* fetched: four bits at most are read past the end of a block that was    *)
(* cut short.                                                              *)
StaysInBounds ==
  /\ Len(dst) <= oend + 1
  /\ dpc = "copy" => m_off > 0 /\ m_len > 0
  /\ in.ilen <= Len(src) + (BitsPerByte + 3) \div BitsPerByte
=============================================================================
