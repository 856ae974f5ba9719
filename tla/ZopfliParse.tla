---------------------------- MODULE ZopfliParse ----------------------------
(***************************************************************************)
(* Zopfli's two parsers over exact matches (ZopfliMatch): ZopfliLZ77Greedy *)
(* of src/zopfli/lz77.c with its lazy matching, and a run of the squeeze   *)
(* (squeeze.c), which takes the cheapest way through the block by a cost   *)
(* model: a forward pass over the positions, the way back from the end,    *)
(* and the pass that follows it and looks the distances up again.          *)
(***************************************************************************)
EXTENDS Integers, FiniteSetsExt, SequencesExt

CONSTANTS
  Texts,             \* bound: the texts
  CostModels,        \* bound: [lit, len, dist], functions to costs
  MaxMatch,          \* ZOPFLI_MAX_MATCH
  LongDistance,      \* 1024
  LargeCost          \* ZOPFLI_LARGE_FLOAT

ASSUME ParseAssumption ==
  /\ MaxMatch \in Nat /\ MaxMatch >= 3 /\ LongDistance \in Nat /\ LargeCost \in Nat
  /\ \A t \in Texts : t \in Seq(Nat) /\ t # <<>>

MinMatch == 3

VARIABLES
  text,
  model,               \* the cost model
  i,                   \* the position
  store,               \* the tokens: [litlen, dist]
  prev,                \* prev_length and prev_match
  match_available,
  costs, length_array,
  shortcut,            \* history: a long repetition was skipped
  path,
  pc

greedy  == <<prev, match_available>>
squeeze == <<costs, length_array, shortcut, path>>
vars    == <<text, model, i, store, greedy, squeeze, pc>>

Size == Len(text)
At(p) == text[p + 1]
Agree(p, q, l) == \A m \in 0 .. l - 1 : At(p + m) = At(q + m)
Reaches(p, l) == {d \in 1 .. p : p + l <= Size /\ Agree(p, p - d, l)}

-----------------------------------------------------------------------------
(* ZopfliFindLongestMatch: sublen, its longest length, and its distance. *)
sublen(p, l) == Min(Reaches(p, l))
Lengths(p) == {l \in MinMatch .. MaxMatch : Reaches(p, l) # {}}
NoMatch == [length |-> 0, dist |-> 0]
Longest(p) ==
  IF Lengths(p) = {} THEN NoMatch
  ELSE [length |-> Max(Lengths(p)), dist |-> sublen(p, Max(Lengths(p)))]

Literal(p) == [litlen |-> At(p), dist |-> 0]
Match(m) == [litlen |-> m.length, dist |-> m.dist]

(* GetLengthScore. *)
Score(m) == IF m.dist > LongDistance THEN m.length - 1 ELSE m.length

Init ==
  /\ text \in Texts /\ model \in CostModels
  /\ i = 0 /\ store = <<>>
  /\ prev = NoMatch /\ match_available = FALSE
  /\ costs = <<>> /\ length_array = <<>> /\ shortcut = FALSE /\ path = <<>>
  /\ pc = "greedy"

(* Mutated: the byte before the better match is left out. *)
BetterDropsByte ==
  /\ pc = "greedy" /\ i < Size /\ match_available
  /\ Score(Longest(i)) > Score(prev) + 1
  /\ \/ /\ Longest(i).length < MaxMatch
        /\ store' = store
        /\ prev' = Longest(i) /\ i' = i + 1 /\ UNCHANGED match_available
     \/ /\ Longest(i).length = MaxMatch
        /\ store' = store \o <<Match(Longest(i))>>
        /\ match_available' = FALSE /\ i' = i + MaxMatch /\ UNCHANGED prev
  /\ UNCHANGED <<text, model, squeeze, pc>>

(* The match that was put off is given up for a better one. *)
Better ==
  /\ pc = "greedy" /\ i < Size /\ match_available
  /\ Score(Longest(i)) > Score(prev) + 1
  /\ \/ /\ Longest(i).length < MaxMatch
        /\ store' = Append(store, Literal(i - 1))
        /\ prev' = Longest(i) /\ i' = i + 1 /\ UNCHANGED match_available
     \/ /\ Longest(i).length = MaxMatch
        /\ store' = store \o <<Literal(i - 1), Match(Longest(i))>>
        /\ match_available' = FALSE /\ i' = i + MaxMatch /\ UNCHANGED prev
  /\ UNCHANGED <<text, model, squeeze, pc>>

(* It is taken: its first byte and this one have been passed. *)
Previous ==
  /\ pc = "greedy" /\ i < Size /\ match_available
  /\ Score(Longest(i)) <= Score(prev) + 1
  /\ store' = Append(store, Match(prev))
  /\ match_available' = FALSE /\ i' = i - 1 + prev.length
  /\ UNCHANGED <<text, model, prev, squeeze, pc>>

PutOff ==
  /\ pc = "greedy" /\ i < Size /\ ~match_available
  /\ Score(Longest(i)) >= MinMatch /\ Longest(i).length < MaxMatch
  /\ match_available' = TRUE /\ prev' = Longest(i) /\ i' = i + 1
  /\ UNCHANGED <<text, model, store, squeeze, pc>>

Add ==
  /\ pc = "greedy" /\ i < Size /\ ~match_available
  /\ UNCHANGED <<text, model, greedy, squeeze, pc>>
  /\ \/ /\ Score(Longest(i)) >= MinMatch /\ Longest(i).length = MaxMatch
        /\ store' = Append(store, Match(Longest(i))) /\ i' = i + MaxMatch
     \/ /\ Score(Longest(i)) < MinMatch
        /\ store' = Append(store, Literal(i)) /\ i' = i + 1

-----------------------------------------------------------------------------
LitCost(p) == model.lit[At(p)]
MatchCost(l, d) == model.len[l] + model.dist[d]

(* Mutated: the cheapest length with the dearest distance. *)
MinCostTooHigh ==
  Min({model.len[l] : l \in MinMatch .. MaxMatch}) + Max({model.dist[d] : d \in DOMAIN model.dist})

(* GetCostModelMinCost. *)
MinCost ==
  Min({model.len[l] : l \in MinMatch .. MaxMatch}) + Min({model.dist[d] : d \in DOMAIN model.dist})

(* LZ77OptimalRun after the greedy run: GetBestLengths begins. *)
Squeeze ==
  /\ pc = "greedy" /\ i = Size
  /\ i' = 0 /\ store' = <<>>
  /\ costs' = [p \in 0 .. Size |-> IF p = 0 THEN 0 ELSE LargeCost]
  /\ length_array' = [p \in 0 .. Size |-> 0]
  /\ pc' = "best"
  /\ UNCHANGED <<text, model, greedy, shortcut, path>>

(* The repetitions of the byte at p (h->same). *)
Same(p) == Max({n \in 0 .. Size - p - 1 : \A m \in 0 .. n : At(p + m) = At(p)})

(* In the middle of a long repetition. *)
LongRepetition(p) ==
  /\ Same(p) > 2 * MaxMatch /\ p > MaxMatch + 1 /\ p + 2 * MaxMatch + 1 < Size
  /\ Same(p - MaxMatch) > MaxMatch

(* The next MaxMatch positions get the longest length without a search. *)
Skipped(p) == IF LongRepetition(p) THEN p + MaxMatch ELSE p
Leap(p, q) == LongRepetition(p) /\ q \in p + MaxMatch .. p + 2 * MaxMatch - 1

(* A turn of GetBestLengths: what a literal or a match at p makes cheaper. *)
Lengthen ==
  /\ pc = "best" /\ i < Size
  /\ LET p == Skipped(i)
         c == [q \in 0 .. Size |->
                 IF Leap(i, q) THEN costs[q - MaxMatch] + MatchCost(MaxMatch, 1) ELSE costs[q]]
         Lit(q) == q = p + 1 /\ c[p] + LitCost(p) < c[q]
         Cheaper(q) == /\ q - p \in Lengths(p)
                       /\ c[q] - c[p] > MinCost
                       /\ c[p] + MatchCost(q - p, sublen(p, q - p)) < c[q]
     IN  /\ costs' = [q \in 0 .. Size |->
                        IF Lit(q) THEN c[p] + LitCost(p)
                        ELSE IF Cheaper(q) THEN c[p] + MatchCost(q - p, sublen(p, q - p))
                        ELSE c[q]]
         /\ length_array' = [q \in 0 .. Size |->
                        IF Lit(q) THEN 1 ELSE IF Cheaper(q) THEN q - p
                        ELSE IF Leap(i, q) THEN MaxMatch ELSE length_array[q]]
         /\ i' = p + 1
  /\ shortcut' = (shortcut \/ LongRepetition(i))
  /\ UNCHANGED <<text, model, store, greedy, path, pc>>

StartTrace ==
  /\ pc = "best" /\ i = Size
  /\ pc' = "trace"
  /\ UNCHANGED <<text, model, i, store, greedy, squeeze>>

(* A turn of TraceBackwards. *)
TraceBackwards ==
  /\ pc = "trace"
  /\ path' = <<length_array[i]>> \o path
  /\ i' = i - length_array[i]
  /\ pc' = IF i' = 0 THEN "follow" ELSE "trace"
  /\ UNCHANGED <<text, model, store, greedy, costs, length_array, shortcut>>

(* A turn of FollowPath: the distance is that of a search up to length. *)
FollowPath ==
  /\ pc = "follow" /\ path # <<>>
  /\ LET length == Head(path)
     IN  store' = Append(store, IF length >= MinMatch
                                THEN Match([length |-> length, dist |-> sublen(i, length)])
                                ELSE Literal(i))
  /\ path' = Tail(path) /\ i' = i + Head(path)
  /\ UNCHANGED <<text, model, greedy, costs, length_array, shortcut, pc>>

Next ==
  \/ Better \/ Previous \/ PutOff \/ Add
  \/ Squeeze \/ Lengthen \/ StartTrace \/ TraceBackwards \/ FollowPath

Spec == Init /\ [][Next]_vars

-----------------------------------------------------------------------------
TokenLength(t) == IF t.dist = 0 THEN 1 ELSE t.litlen
TokenCost(t) == IF t.dist = 0 THEN model.lit[t.litlen] ELSE MatchCost(t.litlen, t.dist)
SumOf(op(_), s) == FoldLeft(LAMBDA n, t : n + op(t), 0, s)

(* The tokens stand for the bytes that were passed, each in its place: the *)
(* lazy evaluation and the way back through length_array lose none.  (The  *)
(* assertions of ZopfliVerifyLenDist, at every token.)                     *)
Reproduces ==
  pc \in {"greedy", "follow"} =>
    /\ pc = "greedy" /\ i = Size => ~match_available
    /\ SumOf(TokenLength, store) = i - (IF match_available /\ pc = "greedy" THEN 1 ELSE 0)
    /\ \A k \in 1 .. Len(store) :
         LET t == store[k]
             p == SumOf(TokenLength, SubSeq(store, 1, k - 1))
         IN  IF t.dist = 0 THEN t.litlen = At(p)
             ELSE t.dist <= p /\ p + t.litlen <= Size /\ Agree(p, p - t.dist, t.litlen)

(* "This one should give the shortest possible result" (squeeze.c, of the  *)
(* fixed tree): no way through the block by literals and matches at their  *)
(* nearest distances is cheaper than the one taken, whose tokens cost what *)
(* the forward pass said, though it did not try the lengths that could not *)
(* be cheaper.  (A long repetition that was skipped may cost more.)        *)
Optimal ==
  /\ pc \in {"trace", "follow"} /\ ~shortcut =>
       \A p \in 0 .. Size - 1 :
         /\ costs[p + 1] <= costs[p] + LitCost(p)
         /\ \A l \in Lengths(p) : costs[p + l] <= costs[p] + MatchCost(l, sublen(p, l))
  /\ pc = "follow" /\ path = <<>> => SumOf(TokenCost, store) = costs[Size]
=============================================================================
