# A TLA+ model of cdbas

The repository collects small compression programs and libraries written in C.
Each is sequential: there are no threads, no network and nothing that survives
a crash.  What is hard in them is arithmetic at the edge of a word, state that
must move in the same way on two sides that never meet (a compressor and a
decompressor), state suspended in the middle of an operation and resumed by a
later call, rings and caches that are read after something was overwritten, and
what happens when the input ends too early.  The models are about those.

## Inventory

| Component | State | Operations | Interacts with |
|---|---|---|---|
| **LZMA range decoder** `LZMA/LzmaDecode.c:28-160` | `Range`, `Code`, input position, `ExtraBytes`; one adaptive probability for each context | `RangeDecoderInit`, `BitDecode` (also as macros), `DecodeDirectBits`, `ReadByte` | called for every bit by the LZMA decoder |
| **LZMA decoder** `LZMA/LzmaDecode.c:161-663` | `LzmaVarState`: dictionary ring, positions, four distances, state, a match in progress | `LzmaDecoderInit`, `LzmaDecode` (streaming); `LzmaDecode` (one shot) | the caller, one output buffer at a time; the range decoder |
| **LPAQ1v2 coder** `LPAQ1v2/Encoder.c:131-205`, `LPAQ1v2.c` | interval `x1..x2`, window `x`, prediction `pr` | `code`, `compress`, `decompress`, `flush`, `Encoder`, `main` | asks the predictor after every bit; the archive |
| **LPAQ1v2 predictor** `Encoder.c:60-129`, `HashTable.c`, `MatchModel.c`, `Mixer.c`, `StateMap.c` | hashed bit histories and six pointers into them, match ring, mixer weights, state maps | `update`, `t`, `p`, `pp`, `m_add`, `set` | the coder, which needs the same prediction on both sides |
| **CACM-87 model** `cacm-87.shar` (`adaptive_model.c`) | frequencies, cumulative frequencies, two translation tables | `start_model`, `update_model` | encoder and decoder, a copy each |
| **CACM-87 coder** `cacm-87.shar` (the rest) | `low`, `high`, `bits_to_follow`, `value`, bit buffers, `garbage_bits` | `encode_symbol`, `decode_symbol`, `done_encoding`, `input_bit`, `output_bit`, two `main`s | the model; the file between the two programs |
| **other arithmetic coders** `fast-c.shar`, `low.precision.version.shar`, `sun-assem.shar` | as above | as above | variants kept as archives |
| **UCL NRV2B decompressor** `uclpack/n2b_d.c` | bit buffer, input and output positions, last offset | one function | the container |
| **UCL NRV2B compressor** `uclpack/n2b_99.c` | `swd` sliding window: ring, hash heads, chains, best-match table; the lazy parser | insert, remove, search, `getbyte`; `ucl_nrv2b_99_compress` | the container |
| **uclpack** `uclpack/uclpack.c` | block buffers, checksum | `do_compress`, `do_decompress` | files; both of the above |
| **Zopfli LZ77** `zopfli/lz77.c`, `cache.c`, `hash.c` | hash ring with same-byte counts, longest-match cache, symbol store | `UpdateHash`, `FindLongestMatch`, `LZ77Greedy` | squeeze, the block writer |
| **Zopfli squeeze** `squeeze.c` | costs and lengths per position, path, statistics | forward pass, trace back, follow path, iterate | LZ77, the tree module |
| **Zopfli Huffman codes** `katajainen.c`, `tree.c` | lists of chains in a node pool | `LengthLimitedCodeLengths`, `LengthsToSymbols` | the block writer; inverted by the inflater |
| **Zopfli block splitter** `blocksplitter.c` | the split points, the blocks that are not to be split again | `BlockSplitLZ77`, `BlockSplit`, `BlockSplitSimple` | the block writer, which it gives positions in tokens or in bytes |
| **Zopfli block writer** `deflate.c` | output bytes, bit position, parts of the input | `AddBit`, blocks of three kinds, `Deflate(Part)` | everything above in Zopfli |
| **Zopfli containers** `gzip_container.c`, `zlib_container.c`, `zopfli_bin.c` | none between calls | header, deflate, checksum | the block writer |
| **tinf** `tinf/*.c` | bit buffer, two trees, output position | `tinf_uncompress`, two wrappers, two checksums | reads what Zopfli writes |

What makes each correct, in a sentence:

- *range decoder*: each bit leaves `Code < Range`, `Range >= 2^24` and two usable probabilities;
- *LZMA decoder*: dividing the text into calls changes nothing, and a bad or short stream ends in an error;
- *LPAQ1v2*: the bits come back, for whatever number is made of the contexts; the contexts are the same on both
  sides, and a pointer, a slot and a match are what they are taken for;
- *CACM-87*: the characters come back; a truncated archive stops the decoder, a complete one is not refused;
- *UCL*: the window holds exactly the text it should; the decompressor stays in its buffers, also in place; the
  archive gives the file back or is refused;
- *Zopfli*: the cache and the lazy evaluation are invisible in the result; the parse is the cheapest; the code
  lengths are optimal within the limit; however it splits, the file it writes inflates to its input;
- *tinf*: it inverts the canonical code for complete code lengths, and its checksums are those of the writer.

## Modules

| Module | What it is |
|---|---|
| `LzmaRangeDecoder` | the range decoder; one action for a bit decoded with a probability and one for a turn of the direct-bits loop |
| `LzmaRangeDecoder_proofs` | its inductive invariant and five theorems |
| `LzmaRules` | the rules shared by both builds: copies, next states, the order of the distances |
| `LzmaText` | abstract: what a stream of symbols means, which is the one-shot decoder |
| `LzmaStream` | the `_LZMA_OUT_READ` decoder; `TextSpec` is the refinement |
| `LzmaStream_proofs` | its inductive invariant, three theorems about the ring and the calls, and the refinement |
| `LpaqPredictor` | the hash table, the pointers into it and the match model, as operators on a record |
| `LpaqCoder` | the program: compress, flush, and decompress in a second run, each with a predictor |
| `LpaqCoder_proofs` | the inductive invariants of the coder's interval and of the predictor, the trail of the coder's states, and five theorems |
| `CacmModel` | the adaptive model as operators on a record |
| `CacmCoder` | both CACM-87 programs, with a model each, and the archive between them |
| `CacmCoder_proofs` | what a model keeps, the inductive invariant of both coders, the trail of the encoder's states, and three theorems |
| `UclFormat` | the numbers of the NRV2B format and the length of its prefix code |
| `UclDecompress` | `ucl_nrv2b_decompress_8`, an action for each turn of its loops; on its own, on damaged blocks |
| `UclCompress` | the lazy parser, the tokens and the bit buffer of `n2b_99.c`, over a finder that returns any match |
| `UclPack` | their clients: `uclpack`'s two runs with the archive between them, `simple`, and any block at all |
| `UclPack_proofs` | the inductive invariants of parser, decompressor and container, the form of blocks and archives between the two sides, and six theorems |
| `UclSize` | the length of a block and how far its output gets ahead of its input, from its tokens alone, with the program's own numbers |
| `UclSwd` | the match finder of `n2b_99.c`: ring, chains, search |
| `UclSwd_proofs` | its invariants of the ring, of the chains and of the best match, and four theorems |
| `ZopfliMatch` | Zopfli's hash chains, its search and the longest-match cache |
| `ZopfliMatch_proofs` | its invariants of the repetitions, the chains and the cache, what a search along two chains finds, and four theorems |
| `ZopfliParse` | Zopfli's greedy parser and a run of the squeeze, over exact matches |
| `ZopfliHuffman` | Boundary Package-Merge with its node pool, and the codes made of the lengths |
| `ZopfliDeflate` | the blocks that `deflate.c` writes, bit by bit, with the choice of their kind; extends `ZopfliHuffman` |
| `ZopfliChecksums` | CRC-32 and Adler-32, by the code of the writer and by that of the reader |
| `ZopfliPlan` | `ZopfliCompress`: the container, the parts, the splitter, the blocks; extends `ZopfliDeflate` |
| `TinfInflate` | `tinf`, reading what `ZopfliPlan` wrote; extends it |
| `NatLemmas` | lemmas the proofs share: division and powers of two, sums of bits and halves, recursive functions |
| `MC...` | one for each run that has definitions of its own |

`LpaqCoder` extends `LpaqPredictor`.  `UclPack` extends `UclCompress` and `UclDecompress`, and what `UclCompress`
assumes of its finder is what `UclSwd` is checked for (`MatchIsReal`).  In the
same way `ZopfliParse` takes the matches that `ZopfliMatch` is checked to return
(`AnswerExact`).

### LzmaRangeDecoder

The variables are the fields of `CRangeDecoder` and the `CProb` of each context.
`DecodeZero` and `DecodeOne` are the branches of `RangeDecoderBitDecode`,
`Normalize` is the `if` that follows both, `ReadByte` the end-of-input rule.
Every byte is chosen freely, so the behaviours are those on all inputs.
The powers of two are constants.  `WidthAssumption` and `ModelAssumption` hold
for the code (256, 2^24, 2048, 32, 2^13) and for the run (8, 32, 16, 4, 2).

### LzmaStream and LzmaText

A call is cut into actions at the places where its control branches:

| Action | Code |
|---|---|
| `LzmaDecoderInit` | `LzmaDecoderInit`; again only after the end mark or an error |
| `Call(n)` | 391-417: the locals are loaded from the saved state; a finished stream returns at once |
| `PendingCopy`, `PendingDone` | 419-432: the rest of a match, then the previous byte is read back |
| `Truncated`, `Literal`, `ShortRep`, `RepMatch`, `NewMatch` | a turn of the main loop |
| `CopyByte` | a turn of the copy loop |
| `Return` | 648-662: the locals are saved |

`vs` is the saved state and `cur` the locals, so an error that returns without
saving is modelled as such.  `text` and `ctx` are history variables: all bytes
given to the caller, and what the last symbol's probabilities were selected by
(position, state, previous byte, match byte).  The range decoder is reduced to
the symbol it delivers.

`TextSpec` maps the streaming decoder to the one-shot one: the text is what was
delivered plus the rest of an interrupted match, and the contexts are equal.
That is what makes the streaming decoder decode the same file: the same context
selects the same probability for every bit.

### LpaqPredictor and LpaqCoder

`Encode` is `code()` up to its loop and `EncodeShift` a turn of the loop;
`Decode` and `DecodeShift` likewise.  `Flush` ends the first run and constructs the
second one's `Encoder`, with a new predictor.

`pd` is the predictor of the running program, and `Update` its `update()`:
`Learn` is the six stores through `cp`, `Find` and `Advance` what moves the pointers
in the middle of a byte and between, `EndByte` the rest of the branch at the
end of one, `Get` the function `t()` of `HashTable.c`, `MatchP` the `p()` of
`MatchModel.c`.  A hash shows only in the slot and the check byte that `t()` makes
of it, so these two are constant operators, and any two contexts can be made to
collide.

What `Mixer.c` and `StateMap.c` make of the contexts is a number, any member of
`Prediction`.  `pr` records it and `seen` the contexts it was made of (`Seen`); the
decompressor gets the same number when it sees the same contexts, and else any.
So that the same is predicted on both sides is not assumed: it follows from the
bits.  `FreeBits` bounds how many bits of a file have any prediction; after them it
is the bit that the match model expects, or even.

### CacmModel and CacmCoder

`encode_symbol` is `EncodeChar` or `EncodeEOF` (narrow), `EncodeBits` (a turn of
its loop), `EncodeNext` or `EncodeDone` (what `main` does next); the decoder has
the same shape.  `EncodeDone` may lose up to `MaxLost` bytes of the archive.
`TooMuchGarbage` is the test of `input_bit`: the count goes up at each refill of
the byte buffer.

### UclCompress, UclDecompress and UclPack

| Action | Code |
|---|---|
| `Literal`, `Candidate` | the top of the main loop of `ucl_nrv2b_99_compress`, and `find_match` |
| `LazyStep` | a turn of `while (ahead < max_ahead ...)` |
| `CodeMatch` | the run and the candidate are coded |
| `Finish` | the last run, the end mark, `bbFlushBits` |
| `ReadBlock`, `WriteBlock`, `WriteEOF` | a turn of the loop of `do_compress`, and what follows it |
| `Damage` | between the two runs the archive loses its end, or a byte of it changes |
| `ReadHeader`, `EOFMarker`, `BlockRefused`, `StoredBlock`, `CompressedBlock`, `Decompressed` | `do_decompress`: the header, and a turn of its loop |
| `UnknownMethod` | the same turn for a method other than 0x2b, where nothing decompresses the block |
| `Transfer`, `Returned` | `simple.c` |
| `Flag`, `OffsetTurn`, `Offset`, `Length`, `LengthTurn`, `Copy` | the decompressor's loops, with their tests in place |

`out` is the sequence of bits and bytes in the order they were put; `Block`
lays them out as the bit buffer does, where the byte that holds a group of bits
stands where the first of them was put.  The decompressor's `bb` with its mark
bit is the bits not yet consumed; `in` has the position of the next byte.  A read past
the end yields any bit or byte.  `Refuse` is the end of a run with its exit code; a
short read ends the program too.  `place` is where the block lies in the memory
of the output: `CompressedBlock` puts it at the top of a buffer of `buf_len` bytes
that the output fills from the bottom, so a byte of the block that the output has
reached reads as what was written there (`Input`); `simple.c` keeps the two `Apart`.
`NoOvertake` says that this never happens to a byte still to be read.  It is a hypothesis of
theorems, not a property of the program: `UclSize` shows where it fails.

### UclSize

A token is its contribution to the block: `CodeRun` and `CodeMatch` count the `bits`
and whole `bytes` that `code_run` and `code_match` put, so real sizes are in reach of the
model checker.  `CodeSeries` is many equal matches in one step.  `lead` is history: the most that the
decompressor's output was ahead of its input at the end of a token.  `BlockFits` and `FitsInPlace`
compare the length of the block and the lead with the buffers of `uclpack.c`.

### UclSwd

The ring, `head3`, `succ3`, `best3`, `llen3` and the positions `ip`, `bp`, `rp` are
the code's.  `Find` is a search that the parser asked for, `Accept` a byte of a
match that was coded, `FindBest` the search after it.  The hash is a constant
operator of which one thing is assumed, that it tells triples apart that differ
in the third byte only: that holds for `HEAD3` (of two third bytes the
multiples of 0x9f5f differ in more than the five low bits, as enumerating them
shows) and it is needed, because the search never compares that byte.  Memory that was
not initialised holds one arbitrary byte.

### ZopfliMatch and ZopfliParse

`Update` is `ZopfliUpdateHash`, `Find` is `ZopfliFindLongestMatch` at the position
hashed last, from the cache (`FromCache`) or by a search (`BySearch`), and
`Rewind` the next pass over the block with a new hash and the old cache.  `Find`
asks for what the parsers ask for: all distances up to the longest match, or the
distance of one length.  The two hashes are constant operators, so that any two
contexts can be made to collide.

In `ZopfliParse`, `Better`, `Previous`, `PutOff` and `Add` are the branches of the
loop of `ZopfliLZ77Greedy`; `Lengthen`, `TraceBackwards` and `FollowPath` are a turn of
the loops of `GetBestLengths`, `TraceBackwards` and `FollowPath`.  Costs are whole
numbers.  `shortcut` is a history variable: the forward pass skipped a long
repetition.

### ZopfliHuffman, ZopfliDeflate, ZopfliPlan and TinfInflate

| Action | Code |
|---|---|
| `Run`, `Exhausted`, `Leaf`, `Package` | a call of `BoundaryPM` from the loop, and its three ways; `calls` is its pending calls of itself |
| `ExtractBitLengths` | the end of `ZopfliLengthLimitedCodeLengths` |
| `NextPart` | a turn of the loop of `ZopfliDeflate` |
| `Split`, `NoSplit`, `Splitted` | `ZopfliBlockSplitLZ77` with its choice of the next block, and the conversion of its points to bytes |
| `Slice`, `FixedBlock`, `DynamicBlock`, `StoredBlock`, `TooLong`, `SplittingLast` | the loops of `DeflateSplittingLast` and `DeflateSplittingFirst`, and their assertions |
| `Close` | the trailer of the container |
| `Stored`, `Fixed`, `Dynamic` | `DeflateNonCompressedBlock`, and the beginning of `AddLZ77Block` for either tree |
| `DistanceLengths`, `RunLengths`, `CodeLengthLengths`, `AddDynamicTree` | the steps of a dynamic tree, between which code lengths are calculated; the last chooses between the two trees by their calculated sizes |
| `LengthsToSymbols`, `AddLZ77Data` | the rest of `AddLZ77Block`, a token at a time |
| `Open`, `Verify` | the header and the trailer in `tinfgzip.c` and `tinfzlib.c` |
| `BlockHeader` ... `Symbol` | `tinf_uncompress`, a turn of each of its loops at a time |

The pool is `nodes`, `inuse` and `next`, with nodes named by their index, so a node
that is used again while a list still needs it shows.  The blocks come from
`ZopfliCompress` on one of `Texts` with one of `Options`, or from `Plans`:
`ZopfliDeflatePart` may be called for one part after another with any kind.  The
store of a block is any sequence of tokens for its bytes, and the splitter, whose
costs are estimates, may split anywhere.  A gzip header may have the optional
fields that other programs write, each checked by tinf.  `from` and `least` are
history: where a block begins and its least possible size.  `out` is the bits in the order of the bytes, lowest bit
first.  `Coded` is the closed form of the symbol tables of `util.c`; with the
code's numbers it gives every entry of them.  Symbols of equal frequency keep their order,
as glibc's `qsort` does for an array of this size; which of them gets the longer code
changes no property.

## Runs

| Run | What it shows | Bounds |
|---|---|---|
| `lzma_range_decoder` | no run of bits saturates a probability, one byte per bit is enough to normalise, and a bit preserves `code < range` | 3-bit bytes, 8-bit word, probabilities of 16ths; 6 input bytes, so that inputs shorter than the 5 start bytes, exact and longer ones occur, and the state goes on after the end of input |
| `lzma_stream` | the ring is the tail of the text; a short answer means the end; every call returns; the refinement | ring of 3 under texts of 6, so each copy wraps; calls of 0 to 3 bytes against matches of 2 and 3, so a match spans up to three calls; `PosMod` above the longest text |
| `lpaq` | lossless with a one-byte flush and ones read past the end, with the predictions made again from the decoded bits; both bits always fit; each path through a half byte has a state of its own; a slot is replaced that is no better than those probed, and is found again unless it was the fourth; a match agrees with the text up to the last bit of each byte | archive: 2-bit bytes, 8-bit word of four bytes, predictions 0, half and the largest for the first 5 bits of the files of at most two 4-bit bytes, enough to reach intervals of two values: the empty file, and every first byte with one of two second ones; two orders in one group of four slots with seven check bytes, so each slot is fought over and the fourth is taken; a ring of 8 under files of 10 to 13 bytes, matches of up to 4 that outlive what they were found in |
| `cacm_coder` | lossless and never refused when complete, through halving and reordering; the search for a symbol ends at one, also on a damaged archive; the decoder always stops | 5-bit values, total at most 7 (the largest below a quarter), 8 characters: the counts are halved twice; up to 2 lost bytes |
| `cacm_garbage` | a violation: more bits past the end are accepted than the declared limit | as above with 3 characters |
| `ucl_pack` | every byte is in one token; a block is decompressed to its text, in place with its input overwritten by its output; an archive gives the file back; the deferred checksum is the exact one; a damaged archive is refused or still right; on any block the output exceeds its room by at most one byte and at most four bits are read past the end | 2-bit bytes, so an offset is a prefix and two bits; all texts of up to 9 bytes over two values and longer ones that shrink, any finder; files of up to 30 bytes in blocks of 12, stored, compressed and both, with a short last block; every byte of an archive changed to every other, and every cut; checksums reduced after 9 bytes, the most a word holds; every damaged block of up to 6 bytes with every room |
| `ucl_size` | a violation: a block longer than `in_len + in_len / 8 + 256` | the program's numbers; matches of 3 bytes from a million bytes back |
| `ucl_in_place` | a violation: in a block that is kept compressed the output overtakes the input in the buffer meant for in-place decompression | the program's numbers with its default block size; a literal, a long repetition of it, 2^17 literals, and matches of 3 bytes from 131000 bytes back, each of them any number of times in any order |
| `ucl_swd` | the ring is the window, also across its end; a chain is the positions of the window with its hash; matches are real, and the longest when no search is cut short | a window of 5 and matches of 4 in a ring of 9 under texts of 7 to 13, so the ring wraps; two hashes, so most triples collide; up to 2 bytes accepted at a time; a chain limit of one and a nice length of 3 |
| `zopfli_match` | every answer is the longest match and the nearest distances, in every pattern of questions over two passes; the chains are the window; the repetitions are exact | a window of 8 under texts of up to 14, so slots are taken over and the search changes to the other chain (the limit of hits, 8, does not bind); matches of 5 with three distances against a cache of 2 entries; blocks that begin at the first byte or beyond the window; two first hashes |
| `zopfli_parse` | the tokens stand for the text; the squeeze's way is the cheapest and costs what was computed | all texts of 11 bytes that begin with 0, and repetitions of 25, against matches of 3 to 6, so matches are given up for longer ones, twice over, and the shortcut is taken; three cost models, one in which a farther match is cheaper |
| `zopfli_deflate` | a free node is found whenever one is needed; the lengths are the best within the limit; however the input is cut into parts and blocks the file inflates to it, to the last bit and no further, with the checksums of the other program; of a fixed and a dynamic block the one that is written is at most 7 bits longer than the other; split points lie inside and in order | 16 literals, the end, 4 lengths with their special last one, 6 distances; lengths of at most 5 bits, so the limit binds; a pool of 60 that 17 symbols exhaust more than once; runs of code lengths of every way of coding them, and across the border of the two alphabets; blocks of every kind after blocks of every kind, in up to three; parts of 7 bytes and inputs of 10, whose second part is a match into the first; blocks of 3 tokens split up to two times; stored blocks of at most 4 bytes; gzip with every optional field, zlib and none; CRC in full width, Adler-32 with base 13 in a word of 256 reduced after 3 and after 4 bytes |

The coders' constants are small, but every relation between them that the code
relies on is kept: the word has as many bytes as the code's, the total of the
frequencies is the largest that is still below a quarter of the code values,
`(MoveDiv - 1) * ByteBase >= kBitModelTotal`, and so on.

`CHECK_DEADLOCK FALSE` is given where the modelled program ends: the two
arithmetic coders, the UCL token count (bounded by `MaxIn`), the passes over a
text of `UclSwd`, `ZopfliMatch` and `ZopfliParse`, and the inflater.  In
`ucl_pack` only a run that has exited may stop, so there deadlock is checked: on
every archive and every block the programs go on to an answer.

**Fairness.**  `LzmaStream` has weak fairness of `Step`, the steps inside a call:
the decoder runs on its caller's thread and does not wait for anything.  There
is no fairness of `Call`.  `CacmCoder` has weak fairness of `Next`;
encoder and decoder are programs that run to their end.  `DecoderStops` is about
the CACM-87 decoder only, and holds because the ones read after the end either
reach the end symbol or the limit.

**Three disagreements.**

- `bit_input.c` declares `garbage_bits` as the "Number of bits past end-of-file" and
  refuses more than `Code_value_bits-2` of them.  The counter is raised when a
  *byte* is asked for, so 14 bytes, 112 bits, are accepted.  `cacm_coder` shows
  that this larger limit still stops the decoder, and that a complete archive
  stays within it; the trace of `cacm_garbage` loses the end of an archive and
  reads on.
- `uclpack.c` aborts when a block is longer than `in_len + in_len / 8 + 256`, and
  says that "this should NEVER happen".  The parser codes every match of three
  bytes, and from far back it costs 35 bits where three literals cost 27.  Up to
  an offset of 130304 such a match costs 27 bits or less and the bound holds; a
  window that reaches farther, and enough of such matches, take a high level and
  a block size above the default.  (The branch of `do_compress` is in `WriteBlock`, but no block of `ucl_pack`
  reaches it; `ucl_size` has the program's numbers.)
- `do_decompress` "allocate[s] buffer for in-place decompression" (`uclpack.c:296`), an
  eighth of the block size and 256 bytes longer than a block.  The same dear matches, after
  a part that compressed well, defeat it: the block as a whole is
  shorter than its text, so it is kept compressed, but its last part takes more bytes
  than it stands for, and the output that is ahead by what was saved before writes on
  input still to be read.  This happens at the default level and block size.  The trace
  of `ucl_in_place` has a literal, a repetition of it of 39000 bytes, 131072 literals and
  30690 matches of three bytes: a block of 258720 bytes for 262143, with the
  output 38995 bytes ahead and 36448 bytes of room for that.  The intact archive is then
  refused (code 6 or 7).

One thing no run shows: inside a long repetition the squeeze forces the longest
length without comparing costs.  `util.h` says this "should not affect the
compression result"; under a cost model in which a match of 258 is dearer than
two shorter ones it can.  `Optimal` is stated for blocks where it did not happen.

Things the runs show that are stated as they are, not as a promise:

- `CalculateTreeSize` promises the "exact size of the tree, in bits" and returns
  `dummysize * 8 + (bp & 7)`, which is eight too many unless the tree ends at a
  byte.  So the larger of a fixed and a dynamic block may be chosen; by 7 bits at
  most (`ChoiceNearlyBest`), and the runs reach that.
- An archive of a one-byte file whose first size is changed to 0 is taken for
  that of an empty file, since the second size, 1, is the checksum of no bytes
  (the exception in `DamageIsFound`).
- `do_decompress` never decompresses a block of an unknown method and goes on
  with what `malloc` gave it; only the checksum at the end finds that.
- An empty input has no last block: `ZopfliDeflate` writes nothing for it, and
  `zopfli_bin.c` refuses it.
- `DeflateSplittingLast` hands a stored block to `DeflateSplittingFirst`, which
  "supports the special case of noncompressed data", and goes on to an assertion
  that refuses it (`deflate.c:607`): a `return` is missing.  `zopfli_deflate` reaches
  this assertion (`SplittingLast`); by `SplitsInside` the only other one that fails is that
  on the length of a stored block that was not split.
- A slot of LPAQ1v2 that was put at the fourth place of its group is not found
  again by its own context, and the last bit of a followed byte is not compared:
  both cost compression only.

## Proofs

Every theorem holds for all values of the constants that satisfy the named
assumptions; the run of the same component shows the property on a small instance.

| Module | Theorem | Statement |
|---|---|---|
| `LzmaRangeDecoder_proofs` | `TypeCorrect`, `ProbsStayInBand`, `RangeStaysNormalised` | `Spec => []TypeOK`, `[]ProbInBand`, `[]RangeNormalised` |
| | `BitsKeepInterval`, `DirectBitsKeepInterval` | `Spec => BitKeepsInterval`, `DirectBitKeepsInterval` |
| `LzmaStream_proofs` | `TypeCorrect`, `RingHoldsTail`, `ShortAnswerIsEnd` | `Spec => []TypeOK`, `[]RingIsTail`, `[]ShortAnswerMeansEnd` |
| | `StreamImplementsText` | `Spec => TextSpec`, the refinement |
| `LpaqCoder_proofs` | `BothBitsAlwaysFit`, `AlwaysLossless` | `Spec => []BothBitsFit`, `[]Lossless` |
| | `PathsStayApart`, `AlwaysReplacementSound`, `MatchAlwaysAgrees` | `Spec => []StatePerPath`, `[]ReplacementSound`, `[]MatchAgrees` |
| `CacmCoder_proofs` | `AlwaysConsistent`, `AlwaysFits`, `AlwaysLossless` | `Spec => []ModelConsistent`, `[]EverySymbolFits`, `[]Lossless` |
| `UclPack_proofs` | `AlwaysAccounted`, `AlwaysInBounds`, `AlwaysExactChecksum` | `Spec => []Accounted`, `[]StaysInBounds`, `[]ChecksumExact` |
| | `AlwaysLossless`, `AlwaysRestores` | `Spec /\ []NoOvertake => []Lossless`, `[](r # 2 => Restores)` |
| | `SimpleLossless` | `Spec => [](client = "simple" => Lossless)` |
| `UclSwd_proofs` | `AlwaysHolds`, `AlwaysChained`, `AlwaysReal`, `AlwaysLongest` | `Spec => []RingHoldsWindow`, `[]ChainsExact`, `[]MatchIsReal`, `[]LongestFound` |
| `ZopfliMatch_proofs` | `AlwaysSame`, `AlwaysWindow` | `Spec => []SameIsExact`, `[]ChainIsWindow` |
| | `AlwaysMatches`, `AlwaysExact` | `Spec => []AnswerMatches`, `[](Sparse => AnswerExact)` |

`NatLemmas` has what these proofs need of arithmetic and the provers do not know:
division by a number that is not a literal, powers of two (`PowerOfTwo` counts
subsets), and that a function defined by recursion exists (`RecursionExists`).  Induction is on the set of the numbers of which
something holds (`SetInduction`), since the library's induction theorems take an
operator.  Sums, blocks and checksums are recursive functions in the models for
the same reason.

**LZMA range decoder.**  The inductive invariant is the conjunction of the type
invariant, the band of the probabilities and the normalised range.  None of the
three is inductive alone: the share of a bit is at least `(range / 2048) * 31`,
which needs `range >= 2^24` to come back above `2^24` after one byte, and the type
of `code` after a bit needs the share not to exceed the range, which needs the
band.  `AdaptInBand` shows that the rounding of the shifts keeps the band,
`Shares` that both parts of the range are large enough, `NormalizeOK` that one
byte then normalises, and `Distribute` and `ShiftInExact` that shifting a byte
into `code` and `range` preserves their order when no bit leaves the word.

**LZMA decoder.**  That the ring is the tail of the text says nothing of *where* a
call is, so `IInv` adds: the position of the stream and of the call add up to the
length of the text, and a call in progress does not outgrow its buffer
(`Counted`); what is left of a match at each point of a call (`Remains`); a
distance that will still be used does not reach behind the text, which the code
tests only when the distance is chosen and not when a match is resumed
(`Reachable`); and `previousByte`, which is a local variable and is read back from
the ring after a pending match, is the last byte of the text (`Previous`).
`SourceByte` is the step all copies use: the slot from which a byte is copied still holds
the byte that far back.  For the refinement each action has a lemma (`...Seen`)
that it is a step of `LzmaText`, or leaves alone all that is seen of it: `CopySeen`,
a byte moves from what is owed to what was delivered.  The invariant is needed
there for the previous byte and the match byte in the context of a symbol.

**LPAQ1v2.**  `BothBitsFit` is not inductive: that the next bit fits needs the
prediction in force to be in range, and the decompressor takes it from the record
that the compressor made.  `IInv` adds that the ends of the interval stay in the
word and in order, that every recorded prediction is in range, and that one is
recorded for each bit the decompressor asks for.  `ShareOfOne` is the rounding:
the quotient and the remainder scaled apart add up to less than the whole interval,
because a raised prediction is never the whole scale; `MidInside` follows for every
interval of two values, and `DifferentTop` that the while loop leaves such an interval.

`Lossless` relates two runs that are never in the same state, so its invariant
(`LInv`) speaks of the whole history of the first: there *is* a trail, the states
of the compressor one bit and one shift after the other (`Trail`), that ends where it
stands.  While it compresses, any digits that continue the archive inside the
present interval lay, at each earlier step, inside the interval of that step
(`Nested`): a bit only narrows the interval, and a shift takes a digit on which
both ends agree (`ShiftedInside`).  `FlushedInside` shows that the one byte flushed,
followed by ones, is inside the last interval; so the digits that the decompressor
reads are inside at every step of the trail, and it passes the same states: the
window on its side of the middle gives the bit, the bit the same predictor, and
that the same prediction.  Nothing is assumed of the predictor but that it
depends on the bits alone and predicts in `Prediction`.  The trail is quantified
over, so this invariant cannot be evaluated by the model checker; `Lossless` can, and is.

The predictor has an invariant of its own (`Ready`), kept by `update()` for either bit
(`UpdateReady`).  Its fields have their types; `c0` is a 1 and the `bcount` bits read
so far (`BitsSoFar`), which is what makes the end of a byte fall on the eighth bit; the pointers are
where those bits lead (`PathGrows`: the path of one bit more is the old one plus what is
added to `cp`); and a match that is left has followed the byte so far
(`Follows`).  `MatchAgrees` needs that last part, as the byte is never compared: at its end
`c0` tells all of its bits but one, so the match is one longer (`MovedAgrees`), while a new match was
compared (`MatchBackAgrees`).  `RingMoves` is why the byte just stored does not disturb the older
ones.  `TableReplaces` is about any table and any check byte, so the invariant gives
`ReplacementSound` only that `ht` is one.

**CACM-87.**  What a model keeps is a set (`Model`, `Consistent`): the two tables are
inverse, frequencies fall, and each cumulative frequency is the sum of those after
it.  `StartModel`, `HalvedConsistent`, `SwappedConsistent` and `UpdateConsistent` follow
`start_model` and the parts of `update_model`.  For the coder `CInv` adds that an
interval in which a symbol is about to be coded is wider than a quarter (`Wide`) and that
the decoder's value is inside it (`ValueInside`), also on a damaged archive.  `RegionInside` is the
arithmetic: a total below a quarter leaves every symbol a part, since
`Max_frequency < First_qtr`; `SymbolOfValue`, that the part which the search finds
contains the value; `SettledIsWide`, that the loop stops only on an interval
wider than a quarter.

`Lossless` again speaks of the history of the encoder, a `Trail` of its states before
a symbol and at each turn of the loop.  A state counts the turns (`shifts`) and keeps what
they have told (`code`): a shift doubles the code and adds 0, 1 or 2 for the lower, middle
or upper half, so that many halves of the code values lie below the region.  The archive lags
behind the code by the bits that are due, and `Written` says by how much: with any next bit and
the opposite ones that are due after it, the archive is the number `code` or `code + 1`
(`WrittenBit`, `WrittenMiddle`).  `ValueAt` is the value a decoder has after as many shifts.
`InsideBefore` goes back along the trail: a value inside the region after a step was inside
before it.  `DoneInside` shows that the two last bits, followed by anything, are inside
the last region, so the value is inside at every state of the trail, and the decoder passes
the same states: `OnePart` gives the same symbol, the symbol the same model, and the
state settles for both at the same turn.  `NotRefused`: the archive is at least three bits
longer than the trail has shifts, so a decoder on the trail asks for too few bits past the end to be
refused (`FewGarbage`).  This invariant cannot be evaluated by the model checker either.

**UCL.**  `CInv` is about the parser: what was coded, the pending run and the
candidate add up, and the match under evaluation is in the text (`MatchAt`), which the
number of bytes coded for it needs.  `DInv` is about the decompressor on *any*
block.  That it reads no more than so many bytes past its end is not inductive: a flag
may be asked for when the bit buffer is full or empty.  `Placed` counts bits: the
mark bit in `bb` tells how many of the fetched bits are left (`MarkFound`), and
`Past` allows each part of a token its own number of bits past the end.  The proof
attempt showed that the most is four and not the five first stated: a token has no
more than four bits between two tests of the end.  `PInv` is about the
container: that nothing is written while it compresses, and the types of headers and
blocks, which on a damaged file may hold anything.  For the checksum, `Bound1` and `Bound2` bound
the two halves between two reductions by triangular numbers, so no carry is lost
from the word under the condition on `NMAX` that `PackAssumption` states, as
`zlib`'s Adler-32 documents it; `ChecksumJoins` shows that the
checksum of one part, continued with the next, is that of the whole.

`AlwaysLossless` and `AlwaysRestores` need an invariant of a different kind, `WInv`, as
the compressor is gone when its block is read.  It goes by what lies between the two
sides, in three layers, each of them described apart from who writes or reads it:

1. *Bits and bytes in a block.*  `Block` packs items, bits or whole bytes, and reserves
   the byte of eight bits when the first of them is put.  `Layout` says where each item
   ended up, `Stands` where the reader's `bb` and `ilen` are after so many items: `Held`
   is the value of `bb` after `q` bits of a group, its mark bit included.  `FedBit` and
   `FedByte` show that `getbit` and the next byte deliver the next item, whatever
   lies past the end of the block.
2. *Tokens in the items.*  `Trail` is a sequence of marks, where each token begins in the items
   and in the text, with the offset of the last match; `Tokens` adds the end mark.  A match token says that
   the text repeats itself at its offset (`Repeats`), so it does not matter how the match
   was found.  `CompressEncodes`: what the compressor put so far is always tokens of what it has
   passed, for any finder.  `DecompressDecodes`: the decompressor is always at one of the tokens, inside its offset, its
   length or its copy (`Decodes`), its output is the text so far, and no test of the end, of the room or of the
   look-behind fails; `CopyDecodes` has the copy that overlaps its source.
3. *Segments in the archive.*  `Blocks` places each block of the file at its offset, behind two
   sizes, as its bytes or as fewer that encode it (`Carries`).  `do_compress` keeps it (`Begun`), and closes it
   with the end mark and the checksum (`Whole`); `do_decompress` reads it from one place to the next
   (`Reading`, `InBlock`), so none of its refusals applies.  The checksum it has is that of
   what it wrote, by `ChecksumExact`.

There are two ways not to restore, and both happen.  `do_compress` may give up with code 2, on a block longer than
its buffer (`ucl_size`); and in place the output may overtake the input (`ucl_in_place`), with no
code 2 before it.  So `AlwaysRestores` is about runs of neither kind: `NoOvertake` is what makes each byte
that the decompressor still reads the one it was given (`NotOvertaken`, `WritesLossless`).  A caller with
memory of its own for the output, as `simple.c`, needs no such condition (`SimpleLossless`).  `WInv` quantifies over trails and
cannot be evaluated by the model checker; `Lossless` and `Restores` themselves are checked in `ucl_pack`.

**UCL's match finder.**  `RInv` adds to the ring the look-ahead and where `ip`, `bp` and
`rp` stand to each other.  The chains (`CInv`) need no more than heads and links in
terms of *positions*: `HeadOk` is the latest position of the window with a hash,
`LinksOk` leads from each to the next one before it, and `cnt` is how many there
are; what `swd_remove` takes out of a count is what leaves the window, and no link is
ever cleared.  `ChainFollows` turns that into `ChainsExact`.  `AlwaysReal`
needs the assumption on the hash, as the search never compares the third byte
(`CommonAgrees`).  For `LongestFound` the search may stop before the end of
the chain, at a node that knows of nothing longer behind it (`SearchStops`); what
a node knows is `best3`, and that it is right for every position still in the window is
`BestKnown`.

**Zopfli's hash.**  `SInv` says that the slots of `same` have the exact count for every
position that the window still reaches, as `ZopfliUpdateHash` takes its count from the
last one less one.  `KInv` says that `head` is the latest position with a hash, however
old, and that the link of a position in the window leads to the nearest earlier one of equal
hash, or to itself when the window does not reach that; `ChainWalk` follows the links
node by node, to the one at which the search's tests stop.

**Zopfli's search and cache.**  The second hash (`V2`) tells repetitions apart, by the
exact count `Run`, so both chains are windows by the same lemma (`ChainFrom`).  Why the
search may change from one to the other is `SwitchIsSafe`: once a match covers all the
repetitions at `p`, the nearest position of a longer match has as many repetitions as `p`.
With fewer it would not match, with more the position after it would match too.  `VisitedIs` joins the two
chains: their distances rise, and in a sparse text they include the nearest distance of every
length.  A text is `Sparse` if no position has more positions with either of its
hashes in its window than `ZOPFLI_MAX_CHAIN_HITS`; otherwise the chain is cut, and "this gives
worse compression" (`util.h:75`), so `AnswerExact` has this condition and no other.
`SearchIs` is what a search finds, in any text a match (`Right`), and in a sparse one the longest.
The invariant `MInv` adds the cache: every entry is empty or what a search up to
`MaxMatch` found (`EntryOk`), and its distances are all there (`Distances`) when the
last length that `ZopfliSublenToCache` wrote is the length of the match; if not, that last length
is smaller (`StoredIs`), which is the test that keeps such an entry from answering.  The length
of such an entry still ends the search that answers instead (`StopsWell`).
`AlwaysMatches` is the part that needs no condition: no answer is anything but a match.

What the code must respect is in the assumptions.  Beyond the types of the
inputs they say: the word of LPAQ1v2 has one byte more than `Top = ByteBase^3`, a hash gives a slot of the table and its check byte, and a state is a byte; a total is below a quarter of the code
values (CACM-87); the hash separates third bytes (UCL); `NMAX` is no larger than its
comment says, and a block is no longer than the offset
that stands for the end mark, `2^32` (UCL); the largest count of repetitions is no smaller than the longest match
(Zopfli, 65535 and 258); a stream is shorter than `PosMod` and `Length` has no 0 (LZMA).  TLC evaluates
each on every run.

**Model-checked only.**

- `DamageIsFound` holds for the chosen files: a checksum
  finds a change of one byte, but not of the sizes in every file.
- `AnswerExact` of `ZopfliMatch` in texts that are not sparse: there it can be false.
- `ZopfliParse`, `ZopfliHuffman`, `ZopfliDeflate`, `ZopfliPlan` and `TinfInflate`.
- Liveness (`CallReturns`, `DecoderStops`): the proof system does not handle fairness.

## Abstractions, and what is not modelled

- `LzmaStream` takes distances of at most `DictionarySize`, as the format asks;
  the code does not test it.  It stops before the 32-bit position wraps.
  After an error the caller starts a new stream and does not call again.
- The bit trees, the length decoder and the layout of the probabilities
  (`LzmaDecode.c:161-329`) are inside the symbol that `LzmaStream` chooses.
- The input callback build (`_LZMA_IN_CB`) is not modelled.
- LPAQ1v2: the arithmetic of `Mixer.c` and `StateMap.c` is any number in range for
  the contexts; the table of the lowest order has no collisions and is left out.
- UCL: the groups of 16 and 32 bits, the splitting of a match at `max_match`
  (unlimited at the level of this program), the statistics and the callback, the
  preset dictionary (no caller passes one), and `uclpack`'s options, messages and
  errors of opening files and allocating.
- Zopfli: the iteration of the squeeze over new statistics and their
  randomisation, the costs by which the splitter finds its points (any points are
  taken), a build without the cache, the program `zopfli_bin.c`.  Costs are
  floating-point in the code.  A distance that is cheaper than a nearer one is
  never tried by the code, so `Optimal` is about nearest distances.
- `tinf` is modelled on the output of Zopfli.  On other input it writes and reads without
  a bound, so nothing is promised.
- The checksums of the containers take the size of the input as a number; the `int` and
  `unsigned` that it is converted to (`gzip_container.c:70`, `zlib_container.c:54`) matter above 2 GB only.
- `UnknownMethod` fills a block with one byte repeated, where `malloc` may give any bytes.
- File I/O, arguments, messages and memory allocation failures are left out.
- The other archives under `arithmetic.coding` are not modelled.

## Plan

Done: the LZMA decoder, both arithmetic coders with their models, UCL with its
container, Zopfli from its parser to its containers, and tinf.  Next,
in this order; every module keeps its parameters as constants with named
assumptions, and recursion as recursive functions or folds.

1. Proofs: that, in `UclSize`,
   `8 * bytes + bits <= 9 * in_len` while no offset exceeds 130304; `Reproduces` of
   `ZopfliParse`; `PoolSuffices` of `ZopfliHuffman`.
2. The bit trees and the length decoder of `LzmaDecode.c:161-329`, between
   `LzmaRangeDecoder` and `LzmaStream`.
