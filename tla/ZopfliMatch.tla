---------------------------- MODULE ZopfliMatch ----------------------------
(***************************************************************************)
(* How Zopfli finds matches: the hash chains of src/zopfli/hash.c, the     *)
(* search of ZopfliFindLongestMatch (lz77.c) and the cache of cache.c.     *)
(*                                                                         *)
(* Every slot of the window is linked to the last one with the same hash   *)
(* of three bytes, and to the last one with the same second hash, of the   *)
(* first hash and the number of repetitions of the byte.  A slot that a    *)
(* later position has taken over ends a chain.                             *)
(*                                                                         *)
(* A pass hashes the positions of a block one after the other and asks for *)
(* matches at some of them: the greedy parser and the two passes of the    *)
(* squeeze do.  The cache stays from pass to pass.                         *)
(***************************************************************************)
EXTENDS Integers, FiniteSetsExt, SequencesExt

CONSTANTS
  Byte,
  Texts,                  \* bound: the texts
  Starts,                 \* bound: instart, where the block begins
  Passes,                 \* bound: passes over the block
  Hash(_, _, _),          \* of three bytes
  SameHash(_, _),         \* of a hash and a number of repetitions
  Keys,                   \* their values
  WindowSize,             \* ZOPFLI_WINDOW_SIZE
  MaxMatch,               \* ZOPFLI_MAX_MATCH
  MaxSame,                \* the largest unsigned short
  ChainHits,              \* ZOPFLI_MAX_CHAIN_HITS
  CacheLength             \* ZOPFLI_CACHE_LENGTH

ASSUME MatchAssumption ==
  /\ WindowSize \in Nat \ {0} /\ CacheLength \in Nat \ {0}
  /\ ChainHits \in Nat \ {0} /\ MaxMatch \in Nat /\ MaxMatch >= 3
  /\ MaxSame \in Nat /\ MaxSame >= MaxMatch
  /\ Starts \subseteq Nat /\ Texts \subseteq Seq(Byte) /\ 0 \in Byte
  /\ \A x, y, z \in Byte : Hash(x, y, z) \in Keys
  /\ \A k \in Keys, n \in 0 .. MaxSame : SameHash(k, n) \in Keys

MinMatch == 3
Slot == 0 .. WindowSize - 1

VARIABLES
  text, instart,
  i,                      \* the next position to be hashed
  pass,
  head, prev, hashval,    \* of the hash
  head2, prev2, hashval2, \* of the second hash
  same,
  lmc,                    \* the cache: [length, dist, sublen]
  answer                  \* [pos, limit, sub, length, dist, sublen], or <<>>

hash == <<head, prev, hashval, head2, prev2, hashval2, same>>
vars == <<text, instart, i, pass, hash, lmc, answer>>

Least(x, y) == IF x < y THEN x ELSE y
(* The place of d in D, and the elements of S, in ascending order. *)
Nearer(d, D) == Cardinality({e \in D : e <= d})
Ascending(S) == [j \in 1 .. Cardinality(S) |-> CHOOSE l \in S : Nearer(l, S) = j]
SlotOf(p) == p % WindowSize
Size == Len(text)
At(p) == IF p < Size THEN text[p + 1] ELSE 0

windowstart == IF instart > WindowSize THEN instart - WindowSize ELSE 0

-----------------------------------------------------------------------------
(* ZopfliInitHash and ZopfliInitCache.  A length of one without a distance *)
(* stands for an entry that was not filled.                                *)
NoHead == [k \in Keys |-> -1]
NoValue == [s \in Slot |-> -1]
NoLink == [s \in Slot |-> s]
NoRepetitions == [s \in Slot |-> 0]

EmptyEntry ==
  [length |-> 1, dist |-> 0,
   sublen |-> [j \in 1 .. CacheLength |-> [length |-> MinMatch, dist |-> 0]]]

Init ==
  /\ text \in Texts /\ instart \in {s \in Starts : s < Len(text)}
  /\ i = windowstart /\ pass = 1
  /\ head = NoHead /\ hashval = NoValue /\ prev = NoLink
  /\ head2 = NoHead /\ hashval2 = NoValue /\ prev2 = NoLink
  /\ same = NoRepetitions
  /\ lmc = [p \in instart .. Len(text) - 1 |-> EmptyEntry]
  /\ answer = <<>>

val(p) == Hash(At(p), At(p + 1), At(p + 2))

(* Mutated: the last slot with this hash is linked although another        *)
(* position has taken it over.                                             *)
LinkedStale(h, hv, k, s) == IF h[k] # -1 THEN h[k] ELSE s

(* The slot that slot s is linked to: itself at the end of a chain. *)
Linked(h, hv, k, s) ==
  IF h[k] # -1 /\ hv[h[k]] = k THEN h[k] ELSE s

(* Mutated: the count of the last position is taken over as it is. *)
RepetitionsKept(p) ==
  LET before == same[SlotOf(p - 1)]
      known  == IF before > 1 THEN before ELSE 0
      Ends(n) == p + n + 1 >= Size \/ At(p + n + 1) # At(p) \/ n >= MaxSame
  IN  Min({n \in known .. Size : Ends(n)})

(* The repetitions of the byte at p: those known from the position before  *)
(* are not counted again.                                                  *)
Repetitions(p) ==
  LET before == same[SlotOf(p - 1)]
      known  == IF before > 1 THEN before - 1 ELSE 0
      Ends(n) == p + n + 1 >= Size \/ At(p + n + 1) # At(p) \/ n >= MaxSame
  IN  Min({n \in known .. Size : Ends(n)})

(* ZopfliUpdateHash. *)
Update ==
  /\ i < Size
  /\ same' = [same EXCEPT ![SlotOf(i)] = Repetitions(i)]
  /\ LET s  == SlotOf(i)
         k  == val(i)
         k2 == SameHash(k, Repetitions(i))
     IN  /\ hashval' = [hashval EXCEPT ![s] = k]
         /\ prev' = [prev EXCEPT ![s] = Linked(head, hashval', k, s)]
         /\ head' = [head EXCEPT ![k] = s]
         /\ hashval2' = [hashval2 EXCEPT ![s] = k2]
         /\ prev2' = [prev2 EXCEPT ![s] = Linked(head2, hashval2', k2, s)]
         /\ head2' = [head2 EXCEPT ![k2] = s]
  /\ i' = i + 1 /\ answer' = <<>>
  /\ UNCHANGED <<text, instart, pass, lmc>>

(* The next pass begins with an empty hash. *)
Rewind ==
  /\ i = Size /\ pass < Passes
  /\ pass' = pass + 1 /\ i' = windowstart /\ answer' = <<>>
  /\ head' = NoHead /\ hashval' = NoValue /\ prev' = NoLink
  /\ head2' = NoHead /\ hashval2' = NoValue /\ prev2' = NoLink
  /\ same' = NoRepetitions
  /\ UNCHANGED <<text, instart, lmc>>

-----------------------------------------------------------------------------
(* The chain that link makes from a slot at distance d0, as far as the     *)
(* window reaches.                                                         *)
Chain(first, d0, link) ==
  LET Back(s, t) == IF s < t THEN t - s ELSE WindowSize - s + t
      After(v) == [slot |-> link[v.slot], dist |-> v.dist + Back(link[v.slot], v.slot)]
      node[k \in 0 .. WindowSize] ==
        IF k = 0 THEN [slot |-> first, dist |-> d0] ELSE After(node[k - 1])
      last == Min({k \in 1 .. WindowSize :
                     node[k].slot = node[k - 1].slot \/ node[k].dist >= WindowSize})
  IN  [k \in 1 .. last - 1 |-> node[k]]

(* The bytes that agree with those dist before, up to limit.  Repetitions  *)
(* that both positions have are not compared.                              *)
Common(pos, dist, limit) ==
  LET same0 == same[SlotOf(pos)]
      same1 == same[SlotOf(pos - dist)]
      skip  == IF same0 > 2 /\ At(pos) = At(pos - dist)
               THEN Least(Least(same0, same1), limit) ELSE 0
  IN  Max({l \in skip .. limit : \A m \in skip .. l - 1 : At(pos + m) = At(pos + m - dist)})

(* Mutated: the second hash is taken as soon as it agrees. *)
SwitchAtOnce(pos, best, s) == SameHash(val(pos), same[SlotOf(pos)]) = hashval2[s]

(* The second hash is taken once the repetitions are matched. *)
Switch(pos, best, s) ==
  /\ best >= same[SlotOf(pos)]
  /\ SameHash(val(pos), same[SlotOf(pos)]) = hashval2[s]

(* What the search visits: the chain of the first hash up to a slot where  *)
(* it goes on with the second, at most ChainHits in all.                   *)
Visited(pos, limit) ==
  LET first == Chain(SlotOf(pos), 0, prev)
      Best(k) == Max({1} \cup {Common(pos, first[j].dist, limit) : j \in 1 .. k})
      turns == {k \in 1 .. Len(first) : Switch(pos, Best(k), first[k].slot)}
      all   == IF turns = {} THEN first
               ELSE LET k == Min(turns)
                    IN  SubSeq(first, 1, k) \o Chain(first[k].slot, first[k].dist, prev2)
  IN  SubSeq(all, 1, Least(Len(all), ChainHits))

(* The search among what it visits: for every length the first distance    *)
(* that reaches it.                                                        *)
Search(pos, nodes, limit) ==
  LET Reach(k) == Common(pos, nodes[k].dist, limit)
      best     == Max({1} \cup {Reach(k) : k \in DOMAIN nodes})
      First(l) == nodes[Min({k \in DOMAIN nodes : Reach(k) >= l})].dist
  IN  [length |-> best,
       dist   |-> IF best > 1 THEN First(best) ELSE 0,
       sublen |-> [l \in MinMatch .. best |-> First(l)]]

NotFound == [length |-> 0, dist |-> 0, sublen |-> <<>>]

-----------------------------------------------------------------------------
(* ZopfliSublenToCache: the lengths where the distance changes, as many as *)
(* there is room for; the last entry has the largest length in any case.   *)
Stored(entry, found) ==
  LET sub  == found.sublen
      ends == Ascending({l \in DOMAIN sub : l = found.length \/ sub[l] # sub[l + 1]})
      n    == Least(Len(ends), CacheLength)
  IN  [j \in 1 .. CacheLength |->
         IF j <= n THEN [length |-> ends[j], dist |-> sub[ends[j]]]
         ELSE IF j = CacheLength THEN [entry.sublen[j] EXCEPT !.length = found.length]
         ELSE entry.sublen[j]]

MaxCachedSublen(entry) ==
  IF entry.sublen[1].dist = 0 THEN 0 ELSE entry.sublen[CacheLength].length

(* ZopfliCacheToSublen: what is beyond the entries is left as it was. *)
Unset == 0
Restored(entry, length) ==
  [l \in MinMatch .. length |->
     LET reach == {j \in 1 .. CacheLength : entry.sublen[j].length >= l}
     IN  IF reach = {} THEN Unset ELSE entry.sublen[Min(reach)].dist]

Available(entry) == entry.length = 0 \/ entry.dist # 0

LimitOk(entry, limit, sub) ==
  /\ Available(entry)
  /\ \/ limit = MaxMatch \/ entry.length <= limit
     \/ sub /\ MaxCachedSublen(entry) >= limit

(* Mutated: the entry is used whether or not all its distances were kept. *)
AnyEntry(entry, sub) == TRUE

(* All that is asked for is in the entry. *)
Complete(entry, sub) == ~sub \/ entry.length <= MaxCachedSublen(entry)

FromCache(pos, limit, sub) ==
  LET entry  == lmc[pos]
      length == Least(entry.length, limit)
      found  == Restored(entry, IF sub THEN length ELSE 0)
  IN  /\ LimitOk(entry, limit, sub) /\ Complete(entry, sub)
      /\ answer' = [pos |-> pos, limit |-> limit, sub |-> sub, length |-> length,
                    dist |-> IF sub /\ length >= MinMatch THEN found[length] ELSE entry.dist,
                    sublen |-> found]
      /\ UNCHANGED lmc

(* An entry that is not enough still tells the length to stop at. *)
BySearch(pos, limit, sub) ==
  LET entry == lmc[pos]
      known == IF LimitOk(entry, limit, sub) THEN entry.length ELSE limit
      stop  == Least(known, Size - pos)
  IN  /\ ~(LimitOk(entry, limit, sub) /\ Complete(entry, sub))
      /\ \E nodes \in {Visited(pos, stop)} :
         \E found \in {IF Size - pos < MinMatch THEN NotFound ELSE Search(pos, nodes, stop)} :
           LET short == found.length < MinMatch
           IN  /\ answer' = [pos |-> pos, limit |-> limit, sub |-> sub,
                             length |-> found.length, dist |-> found.dist,
                             sublen |-> IF sub THEN found.sublen ELSE <<>>]
               /\ lmc' = IF stop = MaxMatch /\ sub /\ ~Available(entry)
                         THEN [lmc EXCEPT ![pos] =
                                 [length |-> IF short THEN 0 ELSE found.length,
                                  dist   |-> IF short THEN 0 ELSE found.dist,
                                  sublen |-> IF short THEN entry.sublen
                                             ELSE Stored(entry, found)]]
                         ELSE lmc

(* ZopfliFindLongestMatch at the position hashed last: the parsers ask for *)
(* all distances up to MaxMatch, or for a length on the path and only its  *)
(* distance.                                                               *)
Find ==
  /\ i > instart /\ answer = <<>>
  /\ \E limit \in MinMatch .. MaxMatch, sub \in BOOLEAN :
       /\ sub => limit = MaxMatch
       /\ FromCache(i - 1, limit, sub) \/ BySearch(i - 1, limit, sub)
  /\ UNCHANGED <<text, instart, i, pass, hash>>

Next == Update \/ Rewind \/ Find

Spec == Init /\ [][Next]_vars

-----------------------------------------------------------------------------
(* What a search is for: lengths and distances by comparing the text. *)
Agree(p, q, l) == \A m \in 0 .. l - 1 : At(p + m) = At(q + m)
Reaches(p, l) ==
  {d \in 1 .. Least(p - windowstart, WindowSize - 1) : p + l <= Size /\ Agree(p, p - d, l)}

(* "No effect on the compression result" (util.h, of the cache and of both *)
(* refinements of the hash): the answer is the longest match within the    *)
(* limit, and each length has its nearest distance, whatever the cache     *)
(* kept of an earlier answer, whichever slots of the chains were taken     *)
(* over, and wherever the search changed to the other chain.               *)
AnswerExact ==
  answer # <<>> =>
    LET p    == answer.pos
        best == {l \in MinMatch .. answer.limit : Reaches(p, l) # {}}
    IN  /\ answer.length >= MinMatch <=> best # {}
        /\ best # {} => /\ answer.length = Max(best)
                        /\ answer.dist = Min(Reaches(p, Max(best)))
                        /\ answer.sub => \A l \in best : answer.sublen[l] = Min(Reaches(p, l))

(* The chain of the last position is the positions of the window with its  *)
(* hash, nearest first: none is lost when slots are taken over.            *)
ChainIsWindow ==
  i > windowstart =>
    LET p     == i - 1
        chain == Chain(SlotOf(p), 0, prev)
        equal == {d \in 1 .. Least(p - windowstart, WindowSize - 1) : val(p - d) = val(p)}
    IN  /\ Len(chain) = Cardinality(equal)
        /\ \A d \in equal : chain[Nearer(d, equal)].dist = d

(* The repetitions of every position of the window, though most of them    *)
(* are carried over from the position before.                              *)
SameIsExact ==
  \A p \in windowstart .. i - 1 :
    i - p < WindowSize =>
      LET n == same[SlotOf(p)]
      IN  /\ n <= MaxSame /\ p + n < Size /\ \A m \in 1 .. n : At(p + m) = At(p)
          /\ n = MaxSame \/ p + n + 1 = Size \/ At(p + n + 1) # At(p)
=============================================================================
