-------------------------- MODULE MCZopfliDeflate --------------------------
(***************************************************************************)
(* Alphabets scaled down, with the proportions of deflate: literals 0-15,  *)
(* 16 the end, four lengths of which the last is a special case, six       *)
(* distances and codes of at most five bits.                               *)
(***************************************************************************)
EXTENDS TinfInflate

Copy(l, d) == [litlen |-> l, dist |-> d]
MCOrder == <<6, 7, 8, 0, 3, 4, 2, 5, 1>>

Repeat(c, times) == [k \in 1 .. times |-> Lit(c)]

(* A run of code lengths over the border of the alphabets; one distance;   *)
(* two zero runs and the special length; eight equal lengths, run of more  *)
(* than six.                                                               *)
Short == {<<Lit(15)>>, <<Lit(0), Copy(3, 1)>>,
          <<Lit(0), Lit(1), Lit(15), Copy(6, 3), Copy(5, 8), Copy(4, 2)>>,
          [k \in 1 .. 7 |-> Lit(8 + k)]}
(* Frequencies that want codes longer than the limit, and more distances.  *)
Long == {Repeat(0, 5) \o Repeat(3, 3) \o Repeat(9, 2) \o Repeat(12, 8) \o <<Lit(1)>>,
         <<Lit(3), Lit(3), Lit(9), Lit(9), Lit(9), Lit(9), Lit(1),
           Copy(4, 7), Copy(5, 1), Copy(6, 1), Copy(3, 8), Copy(6, 5)>>}
(* Enough symbols for the pool to be collected. *)
Huge == {[k \in 1 .. 8 |-> Lit(k)] \o Repeat(12, 6),
         [k \in 1 .. 6 |-> Lit(k)] \o Repeat(7, 2) \o Repeat(8, 3) \o Repeat(9, 4),
         Join([c \in 1 .. 15 |-> Repeat(c, 1 + (c \div 4))])}

(* A fixed block grows faster with its tokens than a dynamic one: at some  *)
(* number of them the sizes are nearly equal.                              *)
Near == {Repeat(12, k) : k \in 8 .. 24} \cup {Repeat(1, 2) \o Repeat(12, k) : k \in 8 .. 24}

(* With the same tokens, or literals, for fixed trees. *)
Literals(ts) == LET s == TextOf(ts) IN [k \in DOMAIN s |-> Lit(s[k])]
Blocks(stores) ==
  [btype : 0 .. 2, tokens : stores, fixedstore : {<<>>}]
    \cup {[btype |-> 2, tokens |-> ts, fixedstore |-> Literals(ts)] : ts \in stores}
    \cup {[btype |-> 2, tokens |-> ts, fixedstore |-> ts] : ts \in stores}
(* The third block begins anywhere in a byte. *)
MCPlans ==
  {<<x>> : x \in Blocks(Short \cup Long \cup Huge \cup Near)}
    \cup {<<x, y>> : x \in Blocks(Short), y \in Blocks(Short)}
    \cup {<<x, y, z>> : x \in Blocks({<<Lit(15)>>}), y \in Blocks({<<Lit(0), Copy(3, 1)>>}),
                        z \in Blocks(Long)}

(* Two parts, the second with a match into the first; a text of many       *)
(* parses; one that can be split twice.                                    *)
MCTexts == {<<1>>, <<1, 2, 3, 4, 5, 1, 2, 3, 4, 5>>, <<7, 7, 7, 7, 7>>, <<1, 2, 3, 4, 5, 6, 7>>}
Formats ==
  {[format |-> f, flags |-> {}] : f \in {"gzip", "zlib", "deflate"}}
Kinds ==
  [btype : 0 .. 2, splitting : BOOLEAN, last : BOOLEAN, maxblocks : {0, 2}]
With(f, k) ==
  [format |-> f.format, flags |-> f.flags, btype |-> k.btype,
   splitting |-> k.splitting, last |-> k.last, maxblocks |-> k.maxblocks]
(* A container only has dynamic blocks. *)
MCOptions ==
  {With([format |-> "deflate", flags |-> {}], k) : k \in Kinds}
    \cup {With(f, k) : f \in Formats, k \in {k \in Kinds : k.btype = 2 /\ k.maxblocks = 0}}
    \cup {With([format |-> "gzip", flags |-> s],
               [btype |-> 2, splitting |-> FALSE, last |-> FALSE, maxblocks |-> 0]) :
            s \in SUBSET {FTEXT, FHCRC, FEXTRA, FNAME, FCOMMENT}}
=============================================================================
