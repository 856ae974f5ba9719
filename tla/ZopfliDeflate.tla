--------------------------- MODULE ZopfliDeflate ---------------------------
(***************************************************************************)
(* The blocks that src/zopfli/deflate.c writes: stored, with fixed trees   *)
(* and with dynamic trees (code lengths from ZopfliHuffman).  They are     *)
(* taken from a plan, with their tokens; a dynamic block for which there   *)
(* are tokens for a fixed one too is written as what seems smaller.        *)
(*                                                                         *)
(* The output is a sequence of bits, the lowest of a byte first.           *)
(***************************************************************************)
EXTENDS ZopfliHuffman

CONSTANTS
  EndSymbol,        \* 256
  LengthStep,       \* 4: lengths of three to ten differ in steps of one
  LengthCodes,      \* 29
  LL, DD,           \* 288 and 32, the sizes of the alphabets
  DistCodes,        \* 30
  MaxMatch,
  MaxBits, CLBits,  \* 15 and 7, the limits on code lengths
  LongZeroBits,     \* 7
  FixedBits, FixedDistBits,      \* 8 and 5
  FixedLow, FixedHigh,           \* 144 and 280
  order             \* of the code length codes

(* The alphabets are never too large for the limit on their code lengths,  *)
(* so that ZopfliLengthLimitedCodeLengths does not refuse them; a code     *)
(* length code is written in three bits.                                   *)
ASSUME DeflateAssumption ==
  /\ EndSymbol + 1 + LengthCodes <= LL /\ LL <= 2 ^ MaxBits
  /\ DistCodes <= DD /\ DD <= 2 ^ MaxBits
  /\ MaxBits + 4 <= 2 ^ CLBits /\ CLBits < 8
  /\ Len(order) = MaxBits + 4 /\ {order[k] : k \in DOMAIN order} = 0 .. MaxBits + 3

VARIABLES
  plan,             \* the blocks so far: [btype, final, tokens, fixedstore]
  in,
  block, instart,   \* the block that is written, and where it begins
  out,
  from, least,      \* history: where it begins in out, the smaller of its sizes
  ll_lengths, d_lengths, rle,
  ll_symbols, d_symbols,
  i,                \* the tokens of the block that are written
  wpc

trees == <<ll_lengths, d_lengths, rle, ll_symbols, d_symbols>>
wvars == <<plan, in, block, instart, out, from, least, trees, i, wpc>>

Join(seqs) == FlattenSeq(seqs)
Digit(v, k) == (v \div 2 ^ k) % 2
AddBits(v, length) == [k \in 1 .. length |-> Digit(v, k - 1)]
AddHuffmanBits(v, length) == [k \in 1 .. length |-> Digit(v, length - k)]
Log2(x) == CHOOSE k \in 0 .. x : 2 ^ k <= x /\ x < 2 ^ (k + 1)

-----------------------------------------------------------------------------
(* A value in one of the ranges that are coded with extra bits: the symbol *)
(* in its alphabet, the number of extra bits and their value.              *)
Coded(x, step) ==
  LET s     == Log2(step)
      extra == IF x < 2 * step THEN 0 ELSE Log2(x) - s
  IN  [symbol |-> extra * step + x \div 2 ^ extra, extra |-> extra, bits |-> x % 2 ^ extra]

(* ZopfliGetLengthSymbol, ...ExtraBits, ...ExtraBitsValue, and for a dist. *)
LengthCode(l) ==
  IF l = MaxMatch THEN [symbol |-> LengthCodes - 1, extra |-> 0, bits |-> 0]
  ELSE Coded(l - 3, LengthStep)
DistCode(d) == Coded(d - 1, 2)
LLSymbol(t) == IF t.dist = 0 THEN t.litlen ELSE EndSymbol + 1 + LengthCode(t.litlen).symbol

(* ZopfliLZ77Counts: the end symbol counts once. *)
LLCounts(ts) ==
  [s \in 0 .. LL - 1 |->
     IF s = EndSymbol THEN 1
     ELSE Cardinality({k \in DOMAIN ts : LLSymbol(ts[k]) = s})]
DCounts(ts) ==
  [s \in 0 .. DD - 1 |->
     Cardinality({k \in DOMAIN ts : ts[k].dist > 0 /\ DistCode(ts[k].dist).symbol = s})]

(* GetFixedTree. *)
FixedLL ==
  [s \in 0 .. LL - 1 |->
     IF s < FixedLow THEN FixedBits ELSE IF s < EndSymbol THEN FixedBits + 1
     ELSE IF s < FixedHigh THEN FixedBits - 1 ELSE FixedBits]
FixedD == [s \in 0 .. DD - 1 |-> FixedDistBits]

(* PatchDistanceCodesForBuggyDecoders: at least two distance codes. *)
Patched(lengths) ==
  LET used == {s \in 0 .. DistCodes - 1 : lengths[s] > 0}
  IN  IF Cardinality(used) >= 2 THEN lengths
      ELSE IF used = {} THEN [lengths EXCEPT ![0] = 1, ![1] = 1]
      ELSE [lengths EXCEPT ![IF lengths[0] > 0 THEN 1 ELSE 0] = 1]

-----------------------------------------------------------------------------
(* AddDynamicTree.  The lengths of both alphabets without the zeros at     *)
(* their ends are one sequence, whose runs are coded by three symbols.     *)
Trimmed(most, used) == Max({0} \cup {k \in 1 .. most : used[k]})
hlit(ll) == Trimmed(LengthCodes, [k \in 1 .. LengthCodes |-> ll[EndSymbol + k] > 0])
hdist(d) == Trimmed(DistCodes - 1, [k \in 1 .. DistCodes - 1 |-> d[k] > 0])
lld(ll, d) ==
  [k \in 1 .. EndSymbol + 1 + hlit(ll) |-> ll[k - 1]]
    \o [k \in 1 .. hdist(d) + 1 |-> d[k - 1]]

RepeatLength == MaxBits + 1
Zeros == MaxBits + 2
ManyZeros == MaxBits + 3
Item(symbol, extra, bits) == [symbol |-> symbol, extra |-> extra, bits |-> bits]
MostZeros == 11 + 2 ^ LongZeroBits - 1

(* The items for a run of count lengths. *)
Repeated(length, count) ==
  LET one    == Item(length, 0, 0)
      sixes  == (count - 1) \div 6
      others == (count - 1) % 6
  IN  IF length = 0 /\ count > 10 THEN <<Item(ManyZeros, LongZeroBits, count - 11)>>
      ELSE IF length = 0 /\ count >= 3 THEN <<Item(Zeros, 3, count - 3)>>
      ELSE IF count >= 4
      THEN <<one>> \o [k \in 1 .. sixes |-> Item(RepeatLength, 2, 3)]
             \o (IF others >= 3 THEN <<Item(RepeatLength, 2, 0)>> ELSE <<>>)
             \o [k \in 1 .. others % 3 |-> one]
      ELSE <<one>>

(* Mutated: a run of zeros may be longer than its extra bits say. *)
TakenAll(length, count) ==
  IF count >= 4 \/ (count >= 3 /\ length = 0) THEN count ELSE 1

(* How much of a run of count is coded at a time. *)
Taken(length, count) ==
  IF length = 0 /\ count > MostZeros THEN MostZeros
  ELSE IF count >= 4 \/ (count >= 3 /\ length = 0) THEN count ELSE 1

Rle(s) ==
  LET Run_(p) == Max({q \in p .. Len(s) : \A k \in p .. q : s[k] = s[p]}) - p + 1
      items[p \in 1 .. Len(s) + 1] ==
        IF p > Len(s) THEN <<>>
        ELSE Repeated(s[p], Taken(s[p], Run_(p))) \o items[p + Taken(s[p], Run_(p))]
  IN  items[1]

CLCounts(items) ==
  [s \in 0 .. ManyZeros |-> Cardinality({k \in DOMAIN items : items[k].symbol = s})]

(* AddDynamicTree, given the codes for the items of rle. *)
AddTree(codes, clcl) ==
  LET most  == Len(order) - 4
      hclen == Trimmed(most, [k \in 1 .. most |-> CLCounts(rle)[order[k + 4]] > 0])
      Add(item) == AddHuffmanBits(codes[item.symbol], clcl[item.symbol])
                     \o AddBits(item.bits, item.extra)
  IN  AddBits(hlit(ll_lengths), 5) \o AddBits(hdist(d_lengths), 5) \o AddBits(hclen, 4)
        \o Join([k \in 1 .. hclen + 4 |-> AddBits(clcl[order[k]], 3)])
        \o Join([k \in DOMAIN rle |-> Add(rle[k])])

LLCode(s) == AddHuffmanBits(ll_symbols[s], ll_lengths[s])
DCode(s) == AddHuffmanBits(d_symbols[s], d_lengths[s])

(* A turn of AddLZ77Data. *)
AddToken(t) ==
  IF t.dist = 0 THEN LLCode(t.litlen)
  ELSE LET l == LengthCode(t.litlen)
           o == DistCode(t.dist)
       IN  LLCode(LLSymbol(t)) \o AddBits(l.bits, l.extra)
             \o DCode(o.symbol) \o AddBits(o.bits, o.extra)

-----------------------------------------------------------------------------
Size(t) == IF t.dist = 0 THEN 1 ELSE t.litlen
SizeOf(ts) == LET Of(k) == Size(ts[k]) IN MapThenSumSet(Of, DOMAIN ts)

(* The text that the tokens stand for. *)
TextOf(ts) ==
  LET Then(text, t) ==
        text \o (IF t.dist = 0 THEN <<t.litlen>>
                 ELSE [k \in 1 .. t.litlen |-> text[Len(text) - t.dist + 1 + ((k - 1) % t.dist)]])
  IN  FoldLeft(Then, <<>>, ts)

WriterInit ==
  /\ block = 1 /\ instart = 0 /\ from = Len(out) /\ least = 0
  /\ ll_lengths = <<>> /\ d_lengths = <<>> /\ rle = <<>>
  /\ ll_symbols = <<>> /\ d_symbols = <<>>
  /\ i = 0 /\ wpc = "block"
  /\ Idle

Writing == block <= Len(plan)
btype == plan[block].btype
tokens == plan[block].tokens
fixedstore == plan[block].fixedstore
inend == instart + SizeOf(tokens)

Header == <<IF plan[block].final THEN 1 ELSE 0>> \o AddBits(btype, 2)
NextBlock ==
  /\ block' = block + 1 /\ instart' = inend /\ i' = 0 /\ wpc' = "block"
  /\ from' = Len(out') /\ least' = 0

(* Mutated: the length follows at once. *)
NotAligned(bits) == bits

(* The rest of the last byte is left as it is. *)
Aligned(bits) == bits \o [k \in 1 .. (8 - (Len(bits) % 8)) % 8 |-> 0]

(* DeflateNonCompressedBlock. *)
Stored ==
  /\ Writing /\ wpc = "block" /\ btype = 0
  /\ out' = Aligned(out \o Header)
              \o AddBits(SizeOf(tokens), 16) \o AddBits(2 ^ 16 - 1 - SizeOf(tokens), 16)
              \o Join([k \in 1 .. SizeOf(tokens) |-> AddBits(in[instart + k], 8)])
  /\ NextBlock
  /\ UNCHANGED <<plan, in, trees, hvars>>

(* AddLZ77Block begins. *)
Fixed ==
  /\ Writing /\ wpc = "block" /\ btype = 1
  /\ out' = out \o Header
  /\ ll_lengths' = FixedLL /\ d_lengths' = FixedD /\ wpc' = "symbols"
  /\ UNCHANGED <<plan, in, block, instart, from, least, rle, ll_symbols, d_symbols, i, hvars>>

(* The lengths are made once, for the size and for the block. *)
Dynamic ==
  /\ Writing /\ wpc = "block" /\ btype = 2
  /\ StartLengths(LLCounts(tokens), MaxBits) /\ wpc' = "ll"
  /\ UNCHANGED <<plan, in, block, instart, out, from, least, trees, i>>

DistanceLengths ==
  /\ wpc = "ll" /\ hpc = "ready"
  /\ ll_lengths' = bitlengths
  /\ StartLengths(DCounts(tokens), MaxBits) /\ wpc' = "d"
  /\ UNCHANGED <<plan, in, block, instart, out, from, least, d_lengths, rle,
                 ll_symbols, d_symbols, i>>

RunLengths ==
  /\ wpc = "d" /\ hpc = "ready"
  /\ d_lengths' = Patched(bitlengths) /\ rle' = Rle(lld(ll_lengths, Patched(bitlengths)))
  /\ wpc' = "rle"
  /\ UNCHANGED <<plan, in, block, instart, out, from, least, ll_lengths,
                 ll_symbols, d_symbols, i, hvars>>

CodeLengthLengths ==
  /\ wpc = "rle"
  /\ StartLengths(CLCounts(rle), CLBits) /\ wpc' = "cl"
  /\ UNCHANGED <<plan, in, block, instart, out, from, least, trees, i>>

(* CalculateBlockSymbolSize. *)
SymbolSize(ll, d, ts) ==
  LET Bits_(k) ==
        ll[LLSymbol(ts[k])]
          + (IF ts[k].dist = 0 THEN 0
             ELSE LengthCode(ts[k].litlen).extra + DistCode(ts[k].dist).extra
                    + d[DistCode(ts[k].dist).symbol])
  IN  MapThenSumSet(Bits_, DOMAIN ts) + ll[EndSymbol]

(* Mutated: the tree is not counted. *)
NoTreeSize(bits) == 0 * bits

(* CalculateTreeSize: the bytes begun, and the bits in the last of them.   *)
CalculateTreeSize(bits) == 8 * ((bits + 7) \div 8) + (bits % 8)

(* ZopfliCalculateBlockSize, for both kinds. *)
dyncost(treesize) == 3 + treesize + SymbolSize(ll_lengths, d_lengths, tokens)
fixedcost == 3 + SymbolSize(FixedLL, FixedD, fixedstore)

AddDynamicTree ==
  /\ wpc = "cl" /\ hpc = "ready"
  /\ \E tree \in {AddTree(Symbols(bitlengths), bitlengths)} :
       \/ /\ fixedstore # <<>> /\ fixedcost < dyncost(CalculateTreeSize(Len(tree)))
          /\ plan' = [plan EXCEPT ![block].btype = 1, ![block].tokens = fixedstore]
          /\ least' = Min({fixedcost, dyncost(Len(tree))})
          /\ wpc' = "block" /\ UNCHANGED out
       \/ /\ fixedstore # <<>> => fixedcost >= dyncost(CalculateTreeSize(Len(tree)))
          /\ out' = out \o Header \o tree
          /\ least' = IF fixedstore = <<>> THEN 0 ELSE Min({fixedcost, dyncost(Len(tree))})
          /\ wpc' = "symbols" /\ UNCHANGED plan
  /\ UNCHANGED <<in, block, instart, from, trees, i, hvars>>

LengthsToSymbols ==
  /\ wpc = "symbols"
  /\ ll_symbols' = Symbols(ll_lengths) /\ d_symbols' = Symbols(d_lengths)
  /\ wpc' = "data"
  /\ UNCHANGED <<plan, in, block, instart, out, from, least, ll_lengths, d_lengths, rle, i, hvars>>

AddLZ77Data ==
  /\ wpc = "data"
  /\ UNCHANGED <<plan, in, trees, hvars>>
  /\ \/ /\ i < Len(tokens)
        /\ out' = out \o AddToken(tokens[i + 1]) /\ i' = i + 1
        /\ UNCHANGED <<block, instart, from, least, wpc>>
     \/ /\ i = Len(tokens)
        /\ out' = out \o LLCode(EndSymbol)
        /\ NextBlock

Write ==
  \/ Stored \/ Fixed \/ Dynamic
  \/ DistanceLengths \/ RunLengths \/ CodeLengthLengths \/ AddDynamicTree
  \/ LengthsToSymbols \/ AddLZ77Data
  \/ CodeLengths /\ UNCHANGED wvars

-----------------------------------------------------------------------------
(* Where fixed and dynamic trees were compared, the block that is written  *)
(* is never larger by more than seven bits than the other would have been: *)
(* what the sizes get wrong (CalculateTreeSize counts up to eight bits     *)
(* twice, the two parses differ) decides between near equals only.         *)
ChoiceNearlyBest ==
  wpc = "data" /\ i = Len(tokens) /\ least > 0 =>
    Len(out) + Len(LLCode(EndSymbol)) - from <= least + 7
=============================================================================
