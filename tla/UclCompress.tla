---------------------------- MODULE UclCompress ----------------------------
(***************************************************************************)
(* ucl_nrv2b_99_compress of src/uclpack/n2b_99.c without its match finder: *)
(* the parser with lazy matching, the tokens and the bit buffer.  The      *)
(* finder (swd_findbest) is any that returns a true match of three bytes   *)
(* or more, as long as it goes (texts are shorter than SWD_F), or none.    *)
(*                                                                         *)
(* A turn of the main loop is Literal, or a Candidate, some LazySteps that *)
(* may prefer a later match, and CodeMatch.                                *)
(***************************************************************************)
EXTENDS UclFormat

CONSTANTS
  block_size,       \* the most that is compressed at a time
  try_lazy, max_lazy

ASSUME BlockAssumption == block_size \in Nat \ {0}

VARIABLES
  text,                       \* in
  bp,                         \* c->bp - in = c->textsize
  found,                      \* c->m_len and c->m_off: [len, off]
  cand,                       \* m_len and m_off
  ahead, max_ahead, l1,
  lit,
  out,                        \* the items put
  last,                       \* c->last_m_off
  coded,                      \* lit_bytes + match_bytes
  cpc

cvars == <<text, bp, found, cand, ahead, max_ahead, l1, lit, out, last, coded, cpc>>

look == Len(text) - bp
NoMatch == [len |-> 1, off |-> 0]

-----------------------------------------------------------------------------
(* The tokens are put as items, each <<"bit", b>> or <<"byte", b>>.  The   *)
(* bits are written in groups of a byte, and the byte of a group has its   *)
(* place in the block where its first bit is put (bb_p), before any whole  *)
(* byte put later.                                                         *)
bbPutByte(b) == <<<<"byte", b>>>>
bbPutBits(bits) == [i \in 1 .. Len(bits) |-> <<"bit", bits[i]>>]

(* Mutated: the byte of a group gets its place with its last bit. *)
ReservesAtEnd(k) == k % BitsPerByte = 0

(* Whether bit number k of the block reserves a byte. *)
Reserves(k) == k % BitsPerByte = 1

(* bbWriteBits: the group that begins at bit k, filled up with zeros by    *)
(* bbFlushBits if it is the last one.                                      *)
Group(bits, k) ==
  LET group[j \in 0 .. BitsPerByte] ==
        IF j = 0 THEN 0
        ELSE 2 * group[j - 1] + (IF k + j - 1 <= Len(bits) THEN bits[k + j - 1] ELSE 0)
  IN  group[BitsPerByte]

(* The bits among the first items, and the bytes that these items take.    *)
Block(items) ==
  LET bits[i \in 0 .. Len(items)] ==
        IF i = 0 THEN <<>>
        ELSE bits[i - 1] \o (IF items[i][1] = "bit" THEN <<items[i][2]>> ELSE <<>>)
      Takes(i) ==
        CASE items[i][1] = "byte" -> <<items[i][2]>>
          [] items[i][1] = "bit" /\ Reserves(Len(bits[i])) ->
               <<Group(bits[Len(items)], Len(bits[i]))>>
          [] OTHER -> <<>>
      block[i \in 0 .. Len(items)] == IF i = 0 THEN <<>> ELSE block[i - 1] \o Takes(i)
  IN  block[Len(items)]

(* Bit j of v. *)
BitOf(v, j) == (v \div 2 ^ j) % 2

(* code_prefix_ss11: the bits of i + 2 below the highest, each followed by *)
(* a 0 and the last by a 1.                                                *)
Prefix(i) ==
  LET v == i + 2
      k == Log2(v)
  IN  [j \in 1 .. 2 * k |-> IF j % 2 = 1 THEN BitOf(v, k - (j + 1) \div 2)
                            ELSE IF j = 2 * k THEN 1 ELSE 0]

code_match(m) ==
  LET length == m.len - 1 - (IF m.off > M2_MAX_OFFSET THEN 1 ELSE 0)
  IN  (IF m.off = last THEN bbPutBits(<<0, 0, 1>>)
       ELSE bbPutBits(<<0>> \o Prefix(1 + (m.off - 1) \div ByteBase))
              \o bbPutByte((m.off - 1) % ByteBase))
      \o bbPutBits(IF length >= 4 THEN <<0, 0>> \o Prefix(length - 4)
                   ELSE <<IF length > 1 THEN 1 ELSE 0, length % 2>>)

(* The literals of text[from + 1 .. from + n]. *)
code_run(from, n) ==
  [i \in 1 .. 2 * n |-> IF i % 2 = 1 THEN <<"bit", 1>>
                        ELSE <<"byte", text[from + i \div 2]>>]

(* The estimate of a match's bits that the lazy evaluation compares. *)
Halvings(n) == IF n = 0 THEN 0 ELSE Log2(n) + 1
len_of_coded_match(m) ==
  LET far    == IF m.off > M2_MAX_OFFSET THEN 1 ELSE 0
      length == m.len - 2 - far
      offset == IF m.off = last THEN 1 + 2
                ELSE 1 + 2 + BitsPerByte + 2 * Halvings((m.off - 1) \div ByteBase)
  IN  offset + 2 + (IF length < 3 THEN 0
                    ELSE IF length = 3 THEN 2 ELSE 2 * Halvings(length - 3))

-----------------------------------------------------------------------------
(* The bytes that agree at positions p and p - off of the text. *)
Common(p, off) ==
  CHOOSE n \in 0 .. Len(text) - p :
    /\ \A i \in 1 .. n : text[p + i] = text[p + i - off]
    /\ p + n = Len(text) \/ text[p + n + 1] # text[p + n + 1 - off]

(* find_match at position p; past the end there is nothing to find. *)
Matches(p) ==
  {[len |-> Common(p, off), off |-> off] : off \in 1 .. p}
find_match(p) ==
  /\ bp' = p
  /\ found' \in IF p = Len(text) THEN {[len |-> 0, off |-> 0]}
                ELSE {NoMatch} \cup {m \in Matches(p) : m.len >= 3}

IsLiteral(m) == m.len < 2 \/ (m.len = 2 /\ m.off > M2_MAX_OFFSET)

CompressIdle ==
  /\ text = <<>>
  /\ bp = 0 /\ found = NoMatch /\ cand = NoMatch
  /\ ahead = 0 /\ max_ahead = 0 /\ l1 = 0 /\ lit = 0
  /\ out = <<>>
  /\ last = 1 /\ coded = 0
  /\ cpc = "done"

(* The call: nothing is kept from an earlier one. *)
CompressStart(t) ==
  /\ text' = t
  /\ bp' = 0 /\ found' = NoMatch /\ cand' = NoMatch
  /\ ahead' = 0 /\ max_ahead' = 0 /\ l1' = 0 /\ lit' = 0
  /\ out' = <<>>
  /\ last' = 1 /\ coded' = 0
  /\ cpc' = "parse"

Literal ==
  /\ cpc = "parse" /\ look > 0 /\ IsLiteral(found)
  /\ lit' = lit + 1
  /\ find_match(bp + 1)
  /\ UNCHANGED <<text, cand, ahead, max_ahead, l1, out, last, coded, cpc>>

Candidate ==
  /\ cpc = "parse" /\ look > 0 /\ ~IsLiteral(found)
  /\ cand' = found /\ ahead' = 0
  /\ \/ /\ try_lazy = 0 \/ found.len >= max_lazy \/ found.off = last
        /\ l1' = 0 /\ max_ahead' = 0
     \/ /\ ~(try_lazy = 0 \/ found.len >= max_lazy \/ found.off = last)
        /\ l1' = len_of_coded_match(found)
        /\ max_ahead' = IF try_lazy < found.len - 1 THEN try_lazy ELSE found.len - 1
  /\ cpc' = "lazy"
  /\ UNCHANGED <<text, bp, found, lit, out, last, coded>>

(* The match found ahead saves more bits than the literals before it cost. *)
Better(m, n) ==
  /\ m.len >= 2 /\ ~IsLiteral(m)
  /\ l1 + (n + m.len - cand.len) * 5 > len_of_coded_match(m) + n * 9

(* Mutated: the bytes that were passed over are not added to the run. *)
LazyStepLosesRun ==
  /\ cpc = "lazy" /\ ahead < max_ahead /\ look > cand.len
  /\ find_match(bp + 1)
  /\ ahead' = ahead + 1
  /\ cpc' = IF Better(found', ahead') THEN "parse" ELSE "lazy"
  /\ UNCHANGED <<text, cand, max_ahead, l1, lit, out, last, coded>>

LazyStep ==
  /\ cpc = "lazy" /\ ahead < max_ahead /\ look > cand.len
  /\ find_match(bp + 1)
  /\ \/ /\ Better(found', ahead + 1)
        /\ lit' = lit + ahead + 1 /\ ahead' = 0 /\ cpc' = "parse"
     \/ /\ ~Better(found', ahead + 1)
        /\ ahead' = ahead + 1 /\ UNCHANGED <<lit, cpc>>
  /\ UNCHANGED <<text, cand, max_ahead, l1, out, last, coded>>

CodeMatch ==
  /\ cpc = "lazy" /\ ~(ahead < max_ahead /\ look > cand.len)
  /\ out' = out \o code_run(bp - ahead - lit, lit) \o code_match(cand)
  /\ last' = cand.off
  /\ coded' = coded + lit + cand.len
  /\ lit' = 0 /\ ahead' = 0
  /\ find_match(bp + cand.len - ahead)
  /\ cpc' = "parse"
  /\ UNCHANGED <<text, cand, max_ahead, l1>>

(* The last run, the end mark and the rest of the bits. *)
Finish ==
  /\ cpc = "parse" /\ look = 0
  /\ out' = out \o code_run(bp - lit, lit)
               \o bbPutBits(<<0>> \o Prefix(EofPrefix)) \o bbPutByte(ByteBase - 1)
  /\ coded' = coded + lit
  /\ cpc' = "done"
  /\ UNCHANGED <<text, bp, found, cand, ahead, max_ahead, l1, lit, last>>

Compress == Literal \/ Candidate \/ LazyStep \/ CodeMatch \/ Finish
=============================================================================
