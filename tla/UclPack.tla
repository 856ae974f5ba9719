------------------------------ MODULE UclPack ------------------------------
(***************************************************************************)
(* The clients of the NRV2B functions.                                     *)
(*                                                                         *)
(*   uclpack   do_compress of src/uclpack/uclpack.c and, in a second run,  *)
(*             do_decompress, with the archive between them, which may be  *)
(*             damaged.  A block is decompressed in place: it was read     *)
(*             into the end of the buffer that its output fills from the   *)
(*             beginning.                                                  *)
(*   simple    the example simple.c: one block there and back.             *)
(*   damaged   any block at all, given to the decompressor.                *)
(*                                                                         *)
(* A number is four bytes, the highest first.                              *)
(***************************************************************************)
EXTENDS UclCompress, UclDecompress, FiniteSetsExt

CONSTANTS
  Texts,                 \* bound: the blocks of simple
  Files,                 \* bound: the files of uclpack
  DamagedFiles,          \* bound: of these, the ones whose archive may be damaged
  MaxDamaged,            \* bound: length of a damaged block
  magic,
  MethodByte,            \* 0x2b
  LevelByte,
  Slack,                 \* 256: what do_decompress adds to its buffer
  MinBlockSize, MaxBlockSize,     \* 1024 and 8 * 1024 * 1024
  BASE,                  \* UCL_BASE: the largest prime below a half word
  NMAX                   \* UCL_NMAX

HalfBase == ByteBase * ByteBase
WordBase == HalfBase * HalfBase

ASSUME PackAssumption ==
  /\ \A t \in Texts : t \in Seq(Byte) /\ Len(t) \in 1 .. block_size
  /\ DamagedFiles \subseteq Files /\ Files \subseteq Seq(Byte)
  /\ magic \in Seq(Byte) /\ MethodByte \in Byte /\ LevelByte \in Byte
  /\ {MinBlockSize, MaxBlockSize, Slack, MaxDamaged} \subseteq Nat
  /\ MinBlockSize <= block_size /\ block_size <= MaxBlockSize /\ MaxBlockSize < WordBase
  /\ block_size <= EofPrefix * ByteBase
  /\ BASE \in Nat /\ ByteBase <= BASE /\ BASE < HalfBase /\ NMAX \in Nat \ {0}
  /\ (ByteBase - 1) * ((NMAX * (NMAX + 1)) \div 2) + (NMAX + 1) * (BASE - 1) < WordBase

VARIABLES
  client,
  file,                  \* what is compressed
  fi,                    \* the bytes read from the open input
  archive,
  hit,                   \* history: the first damaged byte of the archive, or 0
  header_size,           \* block_size, as do_decompress read it
  out_len,               \* of the block that is decompressed
  checksum,
  fo,                    \* what do_decompress has written
  r,                     \* the exit code
  ppc

kept == <<client, file>>
pvars == <<client, file, fi, archive, hit, header_size, out_len, checksum, fo, r, ppc>>
vars == <<cvars, dvars, pvars>>

-----------------------------------------------------------------------------
Word(v) == <<(v \div (HalfBase * ByteBase)) % ByteBase, (v \div HalfBase) % ByteBase,
             (v \div ByteBase) % ByteBase, v % ByteBase>>
Number(p) == ((archive[p + 1] * ByteBase + archive[p + 2]) * ByteBase + archive[p + 3]) * ByteBase
               + archive[p + 4]
Has(n) == fi + n <= Len(archive)

(* Mutated: reduced once in too many bytes. *)
DeferTooLong == NMAX + 1

(* How many bytes are added before the sums are reduced. *)
Defer == NMAX

(* xadler32: two sums, in a word each; the second adds up the first. *)
SumUp(sums, b) ==
  LET s1 == (sums[1] + b) % WordBase
  IN  <<s1, (sums[2] + s1) % WordBase>>
Reduced(sums) == <<sums[1] % BASE, sums[2] % BASE>>
xadler32(adler, s) ==
  LET Add(sums, i) == IF i % Defer = 0 \/ i = Len(s) THEN Reduced(SumUp(sums, s[i]))
                      ELSE SumUp(sums, s[i])
      after[i \in 0 .. Len(s)] ==
        IF i = 0 THEN <<adler % HalfBase, adler \div HalfBase>> ELSE Add(after[i - 1], i)
  IN  after[Len(s)][2] * HalfBase + after[Len(s)][1]
NoChecksum == 1

-----------------------------------------------------------------------------
(* do_compress: the header is written in the first step. *)
Header == magic \o Word(1) \o <<MethodByte, LevelByte>> \o Word(block_size)

PackInit ==
  /\ client = "uclpack" /\ file \in Files
  /\ archive = Header /\ ppc = "read"

(* A block is read and compressed. *)
ReadBlock ==
  /\ ppc = "read" /\ fi < Len(file)
  /\ \E in_ \in {SubSeq(file, fi + 1, Min({fi + block_size, Len(file)}))} :
       /\ fi' = fi + Len(in_)
       /\ checksum' = xadler32(checksum, in_)
       /\ CompressStart(in_)
  /\ ppc' = "compress"
  /\ UNCHANGED <<dvars, kept, archive, hit, header_size, out_len, fo, r>>

CompressBlock ==
  /\ ppc = "compress"
  /\ Compress
  /\ UNCHANGED <<dvars, pvars>>

(* Mutated: the size of the buffer is written as that of the last block.   *)
WriteBlockFull ==
  /\ ppc = "compress" /\ cpc = "done" /\ client = "uclpack"
  /\ \E block \in {Block(out)} :
       archive' = archive \o Word(block_size)
                     \o (IF Len(block) < Len(text) THEN Word(Len(block)) \o block
                         ELSE Word(Len(text)) \o text)
  /\ ppc' = "read" /\ UNCHANGED r
  /\ UNCHANGED <<cvars, dvars, kept, fi, hit, header_size, out_len, checksum, fo>>

(* It is stored if it did not become shorter. *)
WriteBlock ==
  /\ ppc = "compress" /\ cpc = "done" /\ client = "uclpack"
  /\ \E block \in {Block(out)} :
       \/ /\ Len(block) > Len(text) + Len(text) \div BitsPerByte + Slack
          /\ r' = 2 /\ ppc' = "end" /\ UNCHANGED archive
       \/ /\ Len(block) <= Len(text) + Len(text) \div BitsPerByte + Slack
          /\ archive' = archive \o Word(Len(text))
                          \o (IF Len(block) < Len(text) THEN Word(Len(block)) \o block
                              ELSE Word(Len(text)) \o text)
          /\ ppc' = "read" /\ UNCHANGED r
  /\ UNCHANGED <<cvars, dvars, kept, fi, hit, header_size, out_len, checksum, fo>>

(* The end mark and the checksum. *)
WriteEOF ==
  /\ ppc = "read" /\ fi = Len(file)
  /\ archive' = archive \o Word(0) \o Word(checksum)
  /\ fi' = 0 /\ ppc' = "header"
  /\ UNCHANGED <<cvars, dvars, kept, hit, header_size, out_len, checksum, fo, r>>

(* Between the two runs a byte is changed, or the end is lost. *)
Damage ==
  /\ ppc = "header" /\ hit = 0 /\ file \in DamagedFiles
  /\ \E p \in DOMAIN archive :
       /\ hit' = p
       /\ \/ archive' = SubSeq(archive, 1, p - 1)
          \/ \E b \in Byte \ {archive[p]} : archive' = [archive EXCEPT ![p] = b]
  /\ UNCHANGED <<cvars, dvars, kept, fi, header_size, out_len, checksum, fo, r, ppc>>

-----------------------------------------------------------------------------
(* do_decompress.  A read past the end of the file ends the program        *)
(* (xread), as an error that it finds does.                                *)
Refuse(code) ==
  /\ r' = code /\ ppc' = "end"
  /\ UNCHANGED <<cvars, dvars, kept, fi, archive, hit, header_size, out_len, checksum, fo>>

MethodAt == Len(magic) + 4
HeaderThere == Has(Len(Header)) /\ SubSeq(archive, 1, Len(magic)) = magic
ReadHeader ==
  /\ ppc = "header"
  /\ LET size == Number(MethodAt + 2)
     IN  \/ ~HeaderThere /\ Refuse(1)
         \/ /\ HeaderThere
            /\ \/ ~(size \in MinBlockSize .. MaxBlockSize) /\ Refuse(3)
               \/ /\ size \in MinBlockSize .. MaxBlockSize
                  /\ header_size' = size
                  /\ fi' = Len(Header) /\ checksum' = NoChecksum /\ ppc' = "sizes"
                  /\ UNCHANGED <<cvars, dvars, kept, archive, hit, out_len, fo, r>>

(* Mutated: the buffer is as long as the block. *)
buf_len_tight == header_size

(* The buffer of do_decompress. *)
buf_len == header_size + header_size \div BitsPerByte + Slack

(* Mutated: the checksum is not tested. *)
EOFMarkerTrusting ==
  /\ ppc = "sizes" /\ Has(4) /\ Number(fi) = 0
  /\ \/ ~Has(8) /\ Refuse(1)
     \/ Has(8) /\ Refuse(0)

(* The end mark, and the checksum after it. *)
EOFMarker ==
  /\ ppc = "sizes" /\ Has(4) /\ Number(fi) = 0
  /\ \/ ~Has(8) /\ Refuse(1)
     \/ Has(8) /\ Number(fi + 4) # checksum /\ Refuse(7)
     \/ Has(8) /\ Number(fi + 4) = checksum /\ Refuse(0)

(* The sizes of a block, its bytes, and what is done with them. *)
Sane(in_len, olen) ==
  /\ in_len <= header_size /\ olen <= header_size
  /\ in_len # 0 /\ in_len <= olen
Payload(in_len) == SubSeq(archive, fi + 9, fi + 8 + in_len)

BlockRefused ==
  /\ ppc = "sizes"
  /\ \/ ~Has(4) /\ Refuse(1)
     \/ Has(4) /\ Number(fi) # 0 /\ ~Has(8) /\ Refuse(1)
     \/ /\ Has(8) /\ Number(fi) # 0
        /\ \/ ~Sane(Number(fi + 4), Number(fi)) /\ Refuse(5)
           \/ Sane(Number(fi + 4), Number(fi)) /\ ~Has(8 + Number(fi + 4)) /\ Refuse(1)

BlockRead ==
  ppc = "sizes" /\ Has(8) /\ Number(fi) # 0
    /\ Sane(Number(fi + 4), Number(fi)) /\ Has(8 + Number(fi + 4))

WriteOut(s) == fo' = fo \o s /\ checksum' = xadler32(checksum, s)

StoredBlock ==
  /\ BlockRead /\ Number(fi) = Number(fi + 4)
  /\ WriteOut(Payload(Number(fi)))
  /\ fi' = fi + 8 + Number(fi)
  /\ UNCHANGED <<cvars, dvars, kept, archive, hit, header_size, out_len, r, ppc>>

CompressedBlock ==
  /\ BlockRead /\ Number(fi) # Number(fi + 4) /\ archive[MethodAt + 1] = MethodByte
  /\ DecompressStart(Payload(Number(fi + 4)), buf_len - Number(fi + 4), Number(fi))
  /\ out_len' = Number(fi) /\ fi' = fi + 8 + Number(fi + 4) /\ ppc' = "decompress"
  /\ UNCHANGED <<cvars, kept, archive, hit, header_size, checksum, fo, r>>

(* With another method no block is ever decompressed, r is still UCL_E_OK  *)
(* and new_len is still out_len: what malloc gave is written, any byte,    *)
(* here the same in every place.                                           *)
UnknownMethod ==
  /\ BlockRead /\ Number(fi) # Number(fi + 4) /\ archive[MethodAt + 1] # MethodByte
  /\ \E g \in Byte : WriteOut([k \in 1 .. Number(fi) |-> g])
  /\ fi' = fi + 8 + Number(fi + 4)
  /\ UNCHANGED <<cvars, dvars, kept, archive, hit, header_size, out_len, r, ppc>>

DecompressBlock ==
  /\ ppc = "decompress"
  /\ Decompress
  /\ UNCHANGED <<cvars, pvars>>

Decompressed ==
  /\ ppc = "decompress" /\ dpc \notin Running /\ client = "uclpack"
  /\ \/ (dpc # "OK" \/ Len(dst) # out_len) /\ Refuse(6)
     \/ /\ dpc = "OK" /\ Len(dst) = out_len
        /\ WriteOut(dst) /\ ppc' = "sizes"
        /\ UNCHANGED <<cvars, dvars, kept, fi, archive, hit, header_size, out_len, r>>

-----------------------------------------------------------------------------
(* simple.c decompresses what it compressed; a block that is not shorter   *)
(* than its text is given to the decompressor here too.                    *)
SimpleInit ==
  /\ client = "simple" /\ file \in Texts
  /\ archive = <<>> /\ ppc = "read"

Transfer ==
  /\ ppc = "compress" /\ cpc = "done" /\ client = "simple"
  /\ DecompressStart(Block(out), Apart, Len(text))
  /\ out_len' = Len(text) /\ ppc' = "decompress"
  /\ UNCHANGED <<cvars, kept, fi, archive, hit, header_size, checksum, fo, r>>

Returned ==
  /\ ppc = "decompress" /\ dpc \notin Running /\ client # "uclpack"
  /\ Refuse(IF dpc = "OK" /\ Len(dst) = out_len THEN 0 ELSE 5)

(* Nothing else may stop. *)
Exited == ppc = "end" /\ UNCHANGED vars

DamagedInit ==
  /\ client = "damaged" /\ file = <<>>
  /\ archive = <<>> /\ ppc = "decompress"
  /\ \E n, room \in 0 .. MaxDamaged : \E block \in [1 .. n -> Byte] : Start(block, room)

Init ==
  /\ CompressIdle
  /\ \/ PackInit /\ DecompressIdle
     \/ SimpleInit /\ DecompressIdle
     \/ DamagedInit
  /\ fi = 0 /\ hit = 0 /\ header_size = block_size /\ out_len = 0
  /\ checksum = NoChecksum /\ fo = <<>> /\ r = -1

Next ==
  \/ ReadBlock \/ CompressBlock \/ WriteBlock \/ WriteEOF \/ Damage
  \/ ReadHeader \/ EOFMarker \/ BlockRefused
  \/ StoredBlock \/ CompressedBlock \/ UnknownMethod \/ DecompressBlock \/ Decompressed
  \/ Transfer \/ Returned \/ Exited

Spec == Init /\ [][Next]_vars

-----------------------------------------------------------------------------
Intact == hit = 0 /\ client # "damaged"

(* What do_decompress relies on (uclpack.c:296): in a block that it        *)
(* decompresses in place, the output stays behind the bytes that are still *)
(* to be read.  Module UclSize has a block where it does not.              *)
NoOvertake == Intact /\ ppc = "decompress" => Unread

(* Every byte the parser has passed is in a token, in the pending run or   *)
(* under the candidate; a match never covers more than the text has.  (The *)
(* assertions at lines 857, 910, 916, 941 and 947, and of swd_accept.)     *)
Accounted ==
  /\ coded + lit * (IF cpc = "done" THEN 0 ELSE 1) + ahead = bp
  /\ cpc = "lazy" => cand.len - ahead <= look
  /\ cpc = "done" => coded = Len(text)

(* The decompressor restores the block: the two sides fetch and reserve    *)
(* the bytes of bits at the same places of the stream, and agree on what   *)
(* the last offset was, whatever the finder returned.                      *)
Lossless ==
  Intact /\ ppc = "decompress" =>
    LET expected == SubSeq(file, Len(fo) + 1, Len(fo) + out_len)
    IN  /\ \A i \in 1 .. Len(dst) : i <= out_len /\ dst[i] = expected[i]
        /\ dpc \notin Running => dpc = "OK" /\ dst = expected

(* An archive that was not damaged gives the file back, however it was cut *)
(* into blocks, stored or compressed.                                      *)
Restores ==
  ppc = "end" /\ client = "uclpack" /\ hit = 0 => r = 0 /\ fo = file

(* The checksum is the one that is reduced after every byte: putting the   *)
(* reduction off never loses a carry from a word.                          *)
EachByte(s) ==
  LET Add(sums, b) == <<(sums[1] + b) % BASE, (sums[2] + sums[1] + b) % BASE>>
      sums[i \in 0 .. Len(s)] == IF i = 0 THEN <<1, 0>> ELSE Add(sums[i - 1], s[i])
  IN  sums[Len(s)][2] * HalfBase + sums[Len(s)][1]
ChecksumExact ==
  /\ client = "uclpack" /\ ppc \in {"read", "compress"}
       => checksum = EachByte(SubSeq(file, 1, fi))
  /\ client = "uclpack" /\ ppc \in {"sizes", "decompress"} => checksum = EachByte(fo)

(* An archive that lost its end is refused, and so is one with a changed   *)
(* byte, or the file is right all the same.  The one exception is the      *)
(* archive of a single byte: with its first size made 0 it is taken for    *)
(* that of an empty file, since the second size is 1, as is the checksum   *)
(* of no bytes.  (That a wrong text of a compressed block is found is a    *)
(* matter of the checksum's strength, and so of the files chosen.)         *)
DamageIsFound ==
  ppc = "end" /\ r = 0 /\ hit # 0 => fo = file \/ (Len(file) = 1 /\ fo = <<>>)

=============================================================================
