----------------------------- MODULE ZopfliPlan -----------------------------
(***************************************************************************)
(* ZopfliCompress: the container, and in it the blocks that ZopfliDeflate  *)
(* and ZopfliDeflatePart (src/zopfli/deflate.c) plan with the splitter of  *)
(* src/zopfli/blocksplitter.c, before ZopfliDeflate.tla writes each.       *)
(*                                                                         *)
(* The stores of ZopfliLZ77Greedy, ...Optimal and ...OptimalFixed are any  *)
(* tokens for the bytes (ZopfliParse is about them), and the costs that    *)
(* the splitter estimates are any: it may split a store anywhere, or not.  *)
(***************************************************************************)
EXTENDS ZopfliDeflate, ZopfliChecksums

CONSTANTS
  Texts,            \* bound: the inputs
  Options,          \* bound: the options and the container of a call
  Plans,            \* bound: blocks planned by the caller
  MasterBlockSize,  \* 20000000
  MaxStored,        \* 65535
  FewTokens,        \* 1000: smaller blocks are tried with fixed trees
  FewestToSplit     \* 10

VARIABLES
  options,          \* [format, flags, btype, splitting, last, maxblocks]
  part,             \* the part of the input: [start, end, final]
  store,
  splitpoints,      \* in tokens, then (splitting first) in bytes
  done,             \* starts of blocks that are not to be split
  lstart, lend,
  b,                \* the i of the loops over blocks
  zpc

planvars == <<options, part, store, splitpoints, done, lstart, lend, b, zpc>>

-----------------------------------------------------------------------------
(* The containers.  Bytes are appended to what the blocks began. *)
Bytes(s) == Join([k \in DOMAIN s |-> AddBits(s[k], 8)])

GzipHeader == <<31, 139, 8, 0, 0, 0, 0, 0, 2, 3>>
ZlibHeader ==
  LET cmfflg == 256 * 120
      fcheck == 31 - (cmfflg % 31)
  IN  <<(cmfflg + fcheck) \div 256, (cmfflg + fcheck) % 256>>

(* Other programs write optional fields: extra data, a name, a comment and *)
(* a checksum of the header.                                               *)
FTEXT == 1
FHCRC == 2
FEXTRA == 4
FNAME == 8
FCOMMENT == 16
ForeignHeader(flags) ==
  LET Field(f, s) == IF f \in flags THEN s ELSE <<>>
      h == <<31, 139, 8, SumSet(flags), 1, 1, 1, 1, 0, 3>>
             \o Field(FEXTRA, <<3, 0, 0, 7, 0>>) \o Field(FNAME, <<5, 6, 0>>)
             \o Field(FCOMMENT, <<0>>)
  IN  h \o Field(FHCRC, <<CRCByte(CRC(h), 0), CRCByte(CRC(h), 1)>>)

ContainerHeader(o) ==
  CASE o.format = "gzip" -> IF o.flags = {} THEN GzipHeader ELSE ForeignHeader(o.flags)
    [] o.format = "zlib" -> ZlibHeader
    [] o.format = "deflate" -> <<>>

ISize == [k \in 1 .. 4 |-> (Len(in) \div 256 ^ (k - 1)) % 256]
Trailer ==
  CASE options.format = "gzip" -> [k \in 1 .. 4 |-> CRCByte(CRC(in), k - 1)] \o ISize
    [] options.format = "zlib" -> AdlerBytes(adler32(in))
    [] options.format = "deflate" -> <<>>

-----------------------------------------------------------------------------
(* All tokens for the bytes from start to end: a match may reach back into *)
(* what is before them.  (The texts are shorter than the window.)          *)
Lit(c) == [litlen |-> c, dist |-> 0]
TokensAt(p, end) ==
  {Lit(in[p + 1])} \cup
    {[litlen |-> m[1], dist |-> m[2]] :
       m \in {m \in (3 .. Min({MaxMatch, end - p})) \X (1 .. p) :
                \A k \in 1 .. m[1] : in[p + k] = in[p + k - m[2]]}}
Stores(start, end) ==
  LET from_[p \in start .. end] ==
        IF p = end THEN {<<>>}
        ELSE UNION {{<<t>> \o ts : ts \in from_[p + Size(t)]} : t \in TokensAt(p, end)}
  IN  from_[start]

(* The next turn of the loop of ZopfliDeflate; a part is planned when all  *)
(* blocks before it are written.                                           *)
SplitSimple(start, end) ==
  [k \in 1 .. (end - start + MaxStored - 1) \div MaxStored |-> start + (k - 1) * MaxStored]

Ready(pc) == zpc = pc /\ ~Writing
Finished == part.end = Len(in)

NextPart ==
  /\ Ready("part") /\ ~Finished
  /\ LET start == part.end
         final_ == start + MasterBlockSize >= Len(in)
         end == IF final_ THEN Len(in) ELSE start + MasterBlockSize
     IN  /\ part' = [start |-> start, end |-> end, final |-> final_]
         /\ IF options.splitting /\ (options.btype = 2 \/ (options.last /\ options.btype = 1))
            THEN store' \in Stores(start, end) ELSE store' = <<>>
         /\ splitpoints' = IF options.splitting /\ options.btype = 0
                           THEN SplitSimple(start, end) ELSE <<>>
  /\ zpc' = IF options.splitting /\ options.btype = 2 THEN "split" ELSE "blocks"
  /\ done' = {} /\ lstart' = 0 /\ lend' = Len(store') /\ b' = 0
  /\ UNCHANGED <<options, wvars, hvars>>

(* FindLargestSplittableBlock.  (The last block ends before its last       *)
(* token.)                                                                 *)
npoints == Len(splitpoints)
Largest(points, off) ==
  LET StartOf(k) == IF k = 0 THEN 0 ELSE points[k]
      EndOf(k)   == IF k = Len(points) THEN Len(store) - 1 ELSE points[k + 1]
      open    == {k \in 0 .. Len(points) : StartOf(k) \notin off /\ EndOf(k) > StartOf(k)}
      longest == {k \in open : \A j \in open : EndOf(j) - StartOf(j) <= EndOf(k) - StartOf(k)}
  IN  IF open = {} THEN <<>> ELSE <<StartOf(Min(longest)), EndOf(Min(longest))>>

(* Mutated: a point is added at the end. *)
AddLast(value, points) == Append(points, value)

AddSorted(value, points) ==
  LET Less(p) == p < value
      Greater(p) == p > value
  IN  SelectSeq(points, Less) \o <<value>> \o SelectSeq(points, Greater)

(* A turn of the loop of ZopfliBlockSplitLZ77. *)
Split ==
  /\ zpc = "split"
  /\ Len(store) >= FewestToSplit
  /\ ~(options.maxblocks > 0 /\ npoints + 1 >= options.maxblocks)
  /\ \E llpos \in lstart + 1 .. lend - 1 :
       /\ \/ done' = done \cup {lstart} /\ UNCHANGED splitpoints
          \/ /\ llpos # lstart + 1
             /\ splitpoints' = AddSorted(llpos, splitpoints) /\ UNCHANGED done
       /\ \E next_ \in {Largest(splitpoints', done')} :
            IF next_ = <<>> \/ next_[2] - next_[1] < FewestToSplit
            THEN zpc' = "splitted" /\ UNCHANGED <<lstart, lend>>
            ELSE lstart' = next_[1] /\ lend' = next_[2] /\ UNCHANGED zpc
  /\ UNCHANGED <<options, part, store, b, wvars, hvars>>

NoSplit ==
  /\ zpc = "split"
  /\ \/ Len(store) < FewestToSplit
     \/ options.maxblocks > 0 /\ npoints + 1 >= options.maxblocks
  /\ zpc' = "splitted"
  /\ UNCHANGED <<options, part, store, splitpoints, done, lstart, lend, b, wvars, hvars>>

(* ZopfliBlockSplit: the points in bytes, found in one pass over the       *)
(* tokens; an assertion that all are found.                                *)
Converted ==
  LET upto[k \in 0 .. Len(store)] ==
        IF k = 0 THEN [pos |-> part.start, points |-> <<>>]
        ELSE LET p == upto[k - 1]
                 found == Len(p.points) < npoints /\ splitpoints[Len(p.points) + 1] = k - 1
             IN  [pos |-> p.pos + Size(store[k]),
                  points |-> IF found THEN Append(p.points, p.pos) ELSE p.points]
  IN  upto[Len(store)].points

Splitted ==
  /\ zpc = "splitted"
  /\ \/ options.last /\ zpc' = "blocks" /\ UNCHANGED splitpoints
     \/ /\ ~options.last
        /\ splitpoints' = Converted
        /\ zpc' = IF Len(splitpoints') = npoints THEN "blocks" ELSE "abort"
  /\ UNCHANGED <<options, part, store, done, lstart, lend, b, wvars, hvars>>

-----------------------------------------------------------------------------
(* The loops over the blocks of a part: of DeflateSplittingLast on slices  *)
(* of the store, of DeflateSplittingFirst on bytes.                        *)
FromStore == options.splitting /\ options.last /\ options.btype # 0
start_ == IF b > 0 THEN splitpoints[b] ELSE IF FromStore THEN 0 ELSE part.start
end_ == IF b < npoints THEN splitpoints[b + 1]
        ELSE IF FromStore THEN Len(store) ELSE part.end

(* Mutated: the last block of every part is marked as the last. *)
final_part == b = npoints

final_b == b = npoints /\ part.final

PlanBlock(kind, ts, fs) ==
  /\ plan' = Append(plan, [btype |-> kind, final |-> final_b, tokens |-> ts, fixedstore |-> fs])
  /\ b' = b + 1
  /\ zpc' = IF b < npoints THEN "blocks"
            ELSE IF options.splitting /\ options.last THEN "assert" ELSE "part"
  /\ UNCHANGED <<options, part, store, splitpoints, done, lstart, lend, hvars,
                 in, block, instart, out, from, least, trees, i, wpc>>

Slice == Ready("blocks") /\ FromStore /\ PlanBlock(options.btype, SubSeq(store, start_ + 1, end_), <<>>)

StoredBlock ==
  /\ Ready("blocks") /\ options.btype = 0 /\ end_ - start_ <= MaxStored
  /\ PlanBlock(0, [k \in 1 .. end_ - start_ |-> Lit(in[start_ + k])], <<>>)

FixedBlock ==
  /\ Ready("blocks") /\ options.btype = 1 /\ ~FromStore
  /\ \E ts \in Stores(start_, end_) : PlanBlock(1, ts, <<>>)

DynamicBlock ==
  /\ Ready("blocks") /\ options.btype = 2 /\ ~FromStore
  /\ \E ts \in Stores(start_, end_) :
       \/ Len(ts) >= FewTokens /\ PlanBlock(2, ts, <<>>)
       \/ Len(ts) < FewTokens /\ \E fs \in Stores(start_, end_) : PlanBlock(2, ts, fs)

(* The assertions on the size of a stored block, and of                    *)
(* DeflateSplittingLast, which comes first in the code and does not        *)
(* depend on what was written, but refuses stored blocks only when         *)
(* DeflateSplittingFirst has written them.                                 *)
TooLong ==
  /\ Ready("blocks") /\ options.btype = 0 /\ end_ - start_ > MaxStored
  /\ zpc' = "abort"
  /\ UNCHANGED <<options, part, store, splitpoints, done, lstart, lend, b, wvars, hvars>>

SplittingLast ==
  /\ Ready("assert")
  /\ zpc' = IF options.btype \in {1, 2} THEN "part" ELSE "abort"
  /\ UNCHANGED <<options, part, store, splitpoints, done, lstart, lend, b, wvars, hvars>>

(* The container ends. *)
Close ==
  /\ Ready("part") /\ Finished
  /\ out' = Aligned(out) \o Bytes(Trailer)
  /\ zpc' = "closed"
  /\ UNCHANGED <<options, part, store, splitpoints, done, lstart, lend, b, hvars,
                 plan, in, block, instart, from, least, trees, i, wpc>>

-----------------------------------------------------------------------------
(* ZopfliCompress is called, or ZopfliDeflatePart for a part at a time,    *)
(* with another kind of block for each.                                    *)
PlanInit ==
  /\ \/ /\ in \in Texts /\ options \in Options
        /\ plan = <<>> /\ part = [start |-> 0, end |-> 0, final |-> FALSE]
     \/ /\ \E p \in Plans :
             plan = [k \in DOMAIN p |->
                       [btype |-> p[k].btype, final |-> k = Len(p),
                        tokens |-> p[k].tokens, fixedstore |-> p[k].fixedstore]]
        /\ in = TextOf(Join([k \in DOMAIN plan |-> plan[k].tokens]))
        /\ options = [format |-> "deflate"]
        /\ part = [start |-> 0, end |-> Len(in), final |-> TRUE]
  /\ out = Bytes(ContainerHeader(options))
  /\ store = <<>> /\ splitpoints = <<>> /\ done = {} /\ lstart = 0 /\ lend = 0
  /\ b = 0 /\ zpc = "part"

Plan ==
  \/ NextPart \/ Split \/ NoSplit \/ Splitted
  \/ Slice \/ StoredBlock \/ FixedBlock \/ DynamicBlock \/ TooLong \/ SplittingLast
  \/ Close

(* The blocks of a split store are not empty, at most as many as asked,    *)
(* and every byte position was found.  The only assertions that fail are   *)
(* met by stored blocks: by one that is not split and too long, and by all *)
(* of them with splitting last, after they were written ("Punt it to that  *)
(* one", deflate.c:601, lacks a return).                                   *)
SplitsInside ==
  /\ zpc \in {"split", "splitted"} =>
       /\ \A k \in 1 .. npoints - 1 : splitpoints[k] < splitpoints[k + 1]
       /\ \A k \in 1 .. npoints : splitpoints[k] \in 1 .. Len(store) - 1
       /\ options.maxblocks > 0 => npoints < options.maxblocks
       /\ lstart < lend \/ store = <<>>
  /\ zpc = "abort" => options.btype = 0 /\ (options.splitting => options.last)
=============================================================================
