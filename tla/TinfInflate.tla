---------------------------- MODULE TinfInflate ----------------------------
(***************************************************************************)
(* tinf_uncompress of src/tinf/tinflate.c, inflating what ZopfliCompress   *)
(* wrote, under tinf_gzip_uncompress and tinf_zlib_uncompress for the      *)
(* containers.  It knows neither the length of its input nor that of its   *)
(* output and trusts both.                                                 *)
(***************************************************************************)
EXTENDS ZopfliPlan

VARIABLES
  pos,              \* bits of the source that were fetched
  dest,
  bfinal,
  hl, hd,           \* hlit, hdist
  lens,             \* the code lengths decoded so far (lengths, num)
  code_tree, lt, dt,
  ipc

ivars == <<pos, dest, bfinal, hl, hd, lens, code_tree, lt, dt, ipc>>
vars == <<wvars, hvars, planvars, ivars>>

(* Beyond the output there is other memory. *)
Bit(p) == IF p < Len(out) THEN out[p + 1] ELSE 0
read_bits(p, num) == LET V(k) == Bit(p + k) * 2 ^ k IN MapThenSumSet(V, 0 .. num - 1)

(* tinf_build_bits_base and the special case of the last length. *)
BitsBase(delta, first, count) ==
  LET bits == [k \in 0 .. count - 1 |-> IF k < delta THEN 0 ELSE (k - delta) \div delta]
      base[k \in 0 .. count - 1] == IF k = 0 THEN first ELSE base[k - 1] + 2 ^ bits[k - 1]
  IN  [k \in 0 .. count - 1 |-> [bits |-> bits[k], base |-> base[k]]]
length_table ==
  [BitsBase(LengthStep, 3, LengthCodes) EXCEPT
     ![LengthCodes - 1] = [bits |-> 0, base |-> MaxMatch]]
dist_table == BitsBase(2, 1, DistCodes)

(* tinf_build_tree: how many codes of each length, and the symbols sorted  *)
(* by length. *)
Tree(lengths) ==
  LET Table(l) == Cardinality({s \in DOMAIN lengths : lengths[s] = l})
      Used_ == {s \in DOMAIN lengths : lengths[s] > 0}
      Rank(s) == Cardinality({t \in Used_ : \/ lengths[t] < lengths[s]
                                           \/ (lengths[t] = lengths[s] /\ t < s)})
  IN  [table |-> [l \in 1 .. 15 |-> Table(l)],
       trans |-> [k \in 0 .. Cardinality(Used_) - 1 |-> CHOOSE s \in Used_ : Rank(s) = k]]

(* tinf_build_fixed_trees. *)
sltree ==
  [table |-> [l \in 1 .. FixedBits + 1 |->
                IF l = FixedBits - 1 THEN FixedHigh - EndSymbol
                ELSE IF l = FixedBits THEN FixedLow + LL - FixedHigh
                ELSE IF l = FixedBits + 1 THEN EndSymbol - FixedLow ELSE 0],
   trans |-> LET short == FixedHigh - EndSymbol
                 rest  == LL - FixedHigh
             IN  [k \in 0 .. LL - 1 |->
                    IF k < short THEN EndSymbol + k
                    ELSE IF k < short + FixedLow THEN k - short
                    ELSE IF k < short + FixedLow + rest THEN FixedHigh + (k - short - FixedLow)
                    ELSE FixedLow + (k - short - FixedLow - rest)]]
sdtree ==
  [table |-> [l \in 1 .. FixedDistBits |-> IF l = FixedDistBits THEN DD ELSE 0],
   trans |-> [k \in 0 .. DD - 1 |-> k]]

(* A turn of the loop of tinf_decode_symbol. *)
NextCur(cur, bit, count) == 2 * cur + bit - count

(* tinf_decode_symbol: the first length at which cur falls below zero. *)
Decoded(t, p) ==
  LET cur[l \in 0 .. Len(t.table)] ==
        IF l = 0 THEN 0 ELSE NextCur(cur[l - 1], Bit(p + l - 1), t.table[l])
      sums[l \in 0 .. Len(t.table)] == IF l = 0 THEN 0 ELSE sums[l - 1] + t.table[l]
      len == Min({l \in DOMAIN t.table : cur[l] < 0})
  IN  [symbol |-> t.trans[sums[len] + cur[len]], pos |-> p + len]

(* Bytes are copied one by one, from bytes copied before. *)
Copied(length, offs) ==
  dest \o [k \in 1 .. length |-> dest[Len(dest) - offs + 1 + ((k - 1) % offs)]]

-----------------------------------------------------------------------------
InflateInit ==
  /\ pos = 0 /\ dest = <<>> /\ bfinal = FALSE
  /\ hl = 0 /\ hd = 0 /\ lens = <<>>
  /\ code_tree = <<>> /\ lt = <<>> /\ dt = <<>>
  /\ ipc = "open"

(* Where the next byte of the source is: the rest of the tag is dropped. *)
NextByte(p) == 8 * ((p + 7) \div 8)

BlockHeader ==
  /\ ipc = "block" /\ ~bfinal
  /\ bfinal' = (Bit(pos) = 1)
  /\ LET type == read_bits(pos + 1, 2)
     IN  /\ ipc' = CASE type = 0 -> "stored" [] type = 1 -> "data" [] type = 2 -> "trees"
                     [] OTHER -> "error"
         /\ lt' = IF type = 1 THEN sltree ELSE lt
         /\ dt' = IF type = 1 THEN sdtree ELSE dt
  /\ pos' = pos + 3
  /\ UNCHANGED <<dest, hl, hd, lens, code_tree>>

(* tinf_inflate_uncompressed_block. *)
StoredData ==
  /\ ipc = "stored"
  /\ LET source == NextByte(pos)
         length == read_bits(source, 16)
         invlength == read_bits(source + 16, 16)
     IN  IF length = 2 ^ 16 - 1 - invlength
         THEN /\ dest' = dest \o [k \in 1 .. length |-> read_bits(source + 24 + 8 * k, 8)]
              /\ pos' = source + 32 + 8 * length /\ ipc' = "block"
         ELSE ipc' = "error" /\ UNCHANGED <<dest, pos>>
  /\ UNCHANGED <<bfinal, hl, hd, lens, code_tree, lt, dt>>

(* tinf_decode_trees, up to its loop. *)
TreesHeader ==
  /\ ipc = "trees"
  /\ hl' = read_bits(pos, 5) + EndSymbol + 1
  /\ hd' = read_bits(pos + 5, 5) + 1
  /\ LET hclen == read_bits(pos + 10, 4) + 4
         clen(s) == LET k == CHOOSE j \in DOMAIN order : order[j] = s
                    IN  IF k <= hclen THEN read_bits(pos + 11 + 3 * k, 3) ELSE 0
     IN  /\ code_tree' = Tree([s \in 0 .. Len(order) - 1 |-> clen(s)])
         /\ pos' = pos + 14 + 3 * hclen
  /\ lens' = <<>> /\ ipc' = "lengths"
  /\ UNCHANGED <<dest, bfinal, lt, dt>>

(* A turn of its loop. *)
CodeLength ==
  /\ ipc = "lengths" /\ Len(lens) < hl + hd
  /\ LET c == Decoded(code_tree, pos)
         More(num, first, value) ==
           /\ lens' = lens \o [k \in 1 .. first + read_bits(c.pos, num) |-> value]
           /\ pos' = c.pos + num
     IN  \/ c.symbol = RepeatLength /\ More(2, 3, lens[Len(lens)])
         \/ c.symbol = Zeros /\ More(3, 3, 0)
         \/ c.symbol = ManyZeros /\ More(LongZeroBits, 11, 0)
         \/ c.symbol < RepeatLength /\ More(0, 1, c.symbol)
  /\ UNCHANGED <<dest, bfinal, hl, hd, code_tree, lt, dt, ipc>>

BuildTrees ==
  /\ ipc = "lengths" /\ Len(lens) >= hl + hd
  /\ lt' = Tree([s \in 0 .. hl - 1 |-> lens[s + 1]])
  /\ dt' = Tree([s \in 0 .. hd - 1 |-> lens[hl + s + 1]])
  /\ ipc' = "data"
  /\ UNCHANGED <<pos, dest, bfinal, hl, hd, lens, code_tree>>

(* A turn of tinf_inflate_block_data. *)
Symbol ==
  /\ ipc = "data"
  /\ LET c == Decoded(lt, pos)
     IN  \/ /\ c.symbol = EndSymbol
            /\ pos' = c.pos /\ ipc' = "block" /\ UNCHANGED dest
         \/ /\ c.symbol < EndSymbol
            /\ pos' = c.pos /\ dest' = Append(dest, c.symbol) /\ UNCHANGED ipc
         \/ /\ c.symbol > EndSymbol
            /\ LET l == length_table[c.symbol - EndSymbol - 1]
                   length == l.base + read_bits(c.pos, l.bits)
                   d == Decoded(dt, c.pos + l.bits)
                   o == dist_table[d.symbol]
                   offs == o.base + read_bits(d.pos, o.bits)
               IN  /\ dest' = Copied(length, offs)
                   /\ pos' = d.pos + o.bits
            /\ UNCHANGED ipc
  /\ UNCHANGED <<bfinal, hl, hd, lens, code_tree, lt, dt>>

-----------------------------------------------------------------------------
(* The containers. *)
SourceLen == Len(out) \div 8
Src(k) == read_bits(8 * k, 8)
UpTo(k) == [j \in 1 .. k |-> Src(j - 1)]

(* tinf_gzip_uncompress finds the start of the compressed data.            *)
GzipFlag(f) == (Src(3) \div f) % 2 = 1
EndOfString(k) == Min({j \in k .. SourceLen - 1 : Src(j) = 0}) + 1
AfterExtra == IF GzipFlag(FEXTRA) THEN 10 + 256 * Src(11) + Src(10) + 2 ELSE 10
AfterName == IF GzipFlag(FNAME) THEN EndOfString(AfterExtra) ELSE AfterExtra
AfterComment == IF GzipFlag(FCOMMENT) THEN EndOfString(AfterName) ELSE AfterName
GzipOk ==
  /\ Src(0) = 31 /\ Src(1) = 139 /\ Src(2) = 8 /\ Src(3) < 32
  /\ GzipFlag(FHCRC) =>
       LET hcrc == tinf_crc32(UpTo(AfterComment))
       IN  Src(AfterComment) = CRCByte(hcrc, 0) /\ Src(AfterComment + 1) = CRCByte(hcrc, 1)

(* tinf_zlib_uncompress. *)
ZlibOk ==
  /\ (256 * Src(0) + Src(1)) % 31 = 0
  /\ Src(0) % 16 = 8 /\ Src(0) \div 16 <= 7
  /\ (Src(1) \div 32) % 2 = 0

Open ==
  /\ ipc = "open"
  /\ \/ options.format = "deflate" /\ ipc' = "block" /\ UNCHANGED pos
     \/ /\ options.format = "gzip"
        /\ ipc' = IF GzipOk THEN "block" ELSE "error"
        /\ pos' = 8 * (AfterComment + IF GzipFlag(FHCRC) THEN 2 ELSE 0)
     \/ /\ options.format = "zlib"
        /\ ipc' = IF ZlibOk THEN "block" ELSE "error"
        /\ pos' = 8 * 2
  /\ UNCHANGED <<dest, bfinal, hl, hd, lens, code_tree, lt, dt>>

(* The length and the checksum of what was inflated are compared with the  *)
(* last bytes of the source.                                               *)
FromEnd(n_) == [k \in 1 .. n_ |-> Src(SourceLen - n_ + k - 1)]
Verified ==
  CASE options.format = "gzip" ->
         /\ \A k \in 1 .. 4 : FromEnd(4)[k] = (Len(dest) \div 256 ^ (k - 1)) % 256
         /\ \A k \in 1 .. 4 : FromEnd(8)[k] = CRCByte(tinf_crc32(dest), k - 1)
    [] options.format = "zlib" -> FromEnd(4) = AdlerBytes(tinf_adler32(dest))
    [] options.format = "deflate" -> TRUE

Verify ==
  /\ ipc = "block" /\ bfinal
  /\ ipc' = IF Verified THEN "OK" ELSE "error"
  /\ UNCHANGED <<pos, dest, bfinal, hl, hd, lens, code_tree, lt, dt>>

Inflate ==
  \/ Open \/ BlockHeader \/ StoredData \/ TreesHeader \/ CodeLength \/ BuildTrees \/ Symbol
  \/ Verify

Init == PlanInit /\ WriterInit /\ InflateInit

(* The file is inflated after it was written. *)
Next ==
  \/ Write /\ UNCHANGED <<planvars, ivars>>
  \/ Plan /\ UNCHANGED ivars
  \/ zpc = "closed" /\ Inflate /\ UNCHANGED <<wvars, hvars, planvars>>

Spec == Init /\ [][Next]_vars

-----------------------------------------------------------------------------
(* The inflater restores the text of every sequence of blocks, symbol by   *)
(* symbol, never reads past the bits that were written, stops after the    *)
(* block that is marked as the last with no byte left but the container's  *)
(* trailer, and that holds the same checksum by the other program's code.  *)
Inflates ==
  /\ ipc # "error" /\ (zpc = "closed" => pos <= Len(out))
  /\ Len(dest) <= Len(in) /\ dest = SubSeq(in, 1, Len(dest))
  /\ ipc = "OK" => dest = in /\ NextByte(pos) = Len(out) - 8 * Len(Trailer)
=============================================================================
