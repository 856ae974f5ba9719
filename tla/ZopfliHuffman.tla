--------------------------- MODULE ZopfliHuffman ---------------------------
(***************************************************************************)
(* Code lengths by the Boundary Package-Merge algorithm: src/zopfli/       *)
(* katajainen.c, with its pool of nodes that are collected and used again, *)
(* and the codes that src/zopfli/tree.c makes of the lengths.              *)
(*                                                                         *)
(* BoundaryPM ends with its two calls of itself, so what is left to do is  *)
(* a sequence of calls.                                                    *)
(***************************************************************************)
EXTENDS Integers, FiniteSetsExt, SequencesExt

VARIABLES
  freq,                \* frequencies of the symbols 0 ..
  maxbits,
  leaves,              \* the symbols that occur, lightest first
  nodes, inuse, next,  \* the pool
  lists,               \* two chains for each list
  calls,               \* calls of BoundaryPM to be made: [index, final]
  runs,                \* numBoundaryPMRuns still to be made
  bitlengths,
  hpc

hvars == <<freq, maxbits, leaves, nodes, inuse, next, lists, calls, runs, bitlengths, hpc>>

Used(f) == {s \in DOMAIN f : f[s] > 0}
weight(k) == freq[leaves[k]]
n == Len(leaves)

(* Equal weights stay in the order of their symbols. *)
Sorted(f) ==
  LET Before(s, t) == f[s] < f[t] \/ (f[s] = f[t] /\ s < t)
      Rank(t) == Cardinality({s \in Used(f) : Before(s, t)})
  IN  [k \in 1 .. Cardinality(Used(f)) |-> CHOOSE s \in Used(f) : Rank(s) = k - 1]

(* Mutated: room for one chain of a list only. *)
TightPoolSize(bits) == (bits * (bits + 1)) \div 2

PoolSize(bits) == 2 * bits * (bits + 1)

(* Before the first call. *)
Idle ==
  /\ freq = <<>> /\ maxbits = 0 /\ leaves = <<>>
  /\ nodes = <<>> /\ inuse = {} /\ next = 1
  /\ lists = <<>> /\ calls = <<>> /\ runs = 0
  /\ bitlengths = <<>> /\ hpc = "idle"

Node(w, count, tail) == [weight |-> w, count |-> count, tail |-> tail]

(* ZopfliLengthLimitedCodeLengths is called: one symbol gets a length of   *)
(* one, two or more are sorted and the lists begin with the two lightest.  *)
StartLengths(f, bits) ==
  LET light == Sorted(f)
  IN  /\ freq' = f /\ maxbits' = bits /\ leaves' = light
      /\ bitlengths' = [s \in DOMAIN f |-> IF light = <<s>> THEN 1 ELSE 0]
      /\ nodes' = [k \in 1 .. PoolSize(bits) |->
                     IF k <= 2 /\ k <= Len(light) THEN Node(f[light[k]], k, 0)
                     ELSE Node(0, 0, 0)]
      /\ inuse' = {1, 2} /\ next' = 3
      /\ lists' = [i \in 0 .. bits - 1 |-> <<1, 2>>]
      /\ calls' = <<>> /\ runs' = 2 * Len(light) - 4
      /\ hpc' = IF Len(light) < 2 THEN "ready" ELSE "merge"

-----------------------------------------------------------------------------
(* The nodes of a chain. *)
Chain(last) ==
  LET node[k \in 0 .. maxbits] ==
        IF k = 0 THEN last ELSE IF node[k - 1] = 0 THEN 0 ELSE nodes[node[k - 1]].tail
  IN  {node[k] : k \in 0 .. maxbits} \ {0}

(* Mutated: the tails of the chains are not marked. *)
ReachableHeads == {lists[i][c] : i \in DOMAIN lists, c \in 1 .. 2}

Reachable == UNION {Chain(lists[i][c]) : i \in DOMAIN lists, c \in 1 .. 2}

(* GetFreeNode: a node that is not in use, after the place of the last one *)
(* or, when there is none, anywhere after a collection.                    *)
Ahead == {k \in next .. Len(nodes) : k \notin inuse}
Collect == Ahead = {}
Kept == IF Collect THEN Reachable ELSE inuse
Free == IF Collect THEN DOMAIN nodes \ Reachable ELSE Ahead

index == Head(calls).index
final == Head(calls).final
old == lists[index][2]
lastcount == nodes[old].count
sum == nodes[lists[index - 1][1]].weight + nodes[lists[index - 1][2]].weight

Put(node) ==
  LET new == Min(Free)
  IN  /\ nodes' = [nodes EXCEPT ![new] = node]
      /\ inuse' = Kept \cup {new} /\ next' = new + 1
      /\ lists' = [lists EXCEPT ![index] = <<old, new>>]

Run ==
  /\ hpc = "merge" /\ calls = <<>> /\ runs > 0
  /\ calls' = <<[index |-> maxbits - 1, final |-> runs = 1]>> /\ runs' = runs - 1
  /\ UNCHANGED <<freq, maxbits, leaves, nodes, inuse, next, lists, bitlengths, hpc>>

(* All leaves are in the first list already. *)
Exhausted ==
  /\ hpc = "merge" /\ calls # <<>>
  /\ index = 0 /\ lastcount >= n
  /\ calls' = Tail(calls)
  /\ UNCHANGED <<freq, maxbits, leaves, nodes, inuse, next, lists, runs, bitlengths, hpc>>

Leaf ==
  /\ hpc = "merge" /\ calls # <<>> /\ Free # {}
  /\ lastcount < n /\ (index > 0 => sum > weight(lastcount + 1))
  /\ Put(Node(weight(lastcount + 1), lastcount + 1,
              IF index = 0 THEN 0 ELSE nodes[old].tail))
  /\ calls' = Tail(calls)
  /\ UNCHANGED <<freq, maxbits, leaves, runs, bitlengths, hpc>>

(* Two chains of the list below become one: it needs two new ones. *)
Package ==
  /\ hpc = "merge" /\ calls # <<>> /\ Free # {}
  /\ index > 0 /\ (lastcount < n => sum <= weight(lastcount + 1))
  /\ Put(Node(sum, lastcount, lists[index - 1][2]))
  /\ LET below == [index |-> index - 1, final |-> FALSE]
     IN  calls' = (IF final THEN <<>> ELSE <<below, below>>) \o Tail(calls)
  /\ UNCHANGED <<freq, maxbits, leaves, runs, bitlengths, hpc>>

(* A leaf is as long as there are nodes in the last chain that count it. *)
ExtractBitLengths ==
  /\ hpc = "merge" /\ calls = <<>> /\ runs = 0
  /\ LET chain == Chain(lists[maxbits - 1][2])
     IN  bitlengths' = [s \in DOMAIN freq |->
           Cardinality({c \in chain : \E k \in 1 .. nodes[c].count : leaves[k] = s})]
  /\ hpc' = "ready"
  /\ UNCHANGED <<freq, maxbits, leaves, nodes, inuse, next, lists, calls, runs>>

CodeLengths == Run \/ Exhausted \/ Leaf \/ Package \/ ExtractBitLengths

-----------------------------------------------------------------------------
(* ZopfliLengthsToSymbols: consecutive values for the symbols of a length, *)
(* from twice the value after the last one of the length before.           *)
Symbols(lengths) ==
  LET OfLength(l) == {s \in DOMAIN lengths : lengths[s] = l}
      longest == Max({0} \cup {lengths[s] : s \in DOMAIN lengths})
      first[l \in 0 .. longest] ==
        IF l = 0 THEN 0
        ELSE 2 * (first[l - 1] + IF l = 1 THEN 0 ELSE Cardinality(OfLength(l - 1)))
  IN  [s \in DOMAIN lengths |->
         IF lengths[s] = 0 THEN 0
         ELSE first[lengths[s]] + Cardinality({t \in OfLength(lengths[s]) : t < s})]

-----------------------------------------------------------------------------
(* The pool always has a free node when one is needed, or GetFreeNode      *)
(* would search for ever.                                                  *)
PoolSuffices ==
  hpc = "merge" /\ calls # <<>> /\ ~(index = 0 /\ lastcount >= n) => Free # {}

(* The lengths make a complete code, within the limit, for the symbols     *)
(* that occur, and no such code is shorter: whatever was collected and     *)
(* used again meanwhile.  (A single symbol has length one.)                *)
LengthsOptimal ==
  hpc = "ready" =>
    LET Total(cost(_), S) == MapThenSumSet(cost, S)
        Bits(s) == freq[s] * bitlengths[s]
        Share(s) == 2 ^ (maxbits - bitlengths[s])
        load[k \in 0 .. n] == IF k = 0 THEN 0 ELSE load[k - 1] + weight(k)
        (* The complete codes, a length at a time: the leaves that are left  *)
        (* for longer codes, lightest, the nodes above them, the bits so far *)
        codes[l \in 0 .. maxbits] ==
          IF l = 0 THEN {[left |-> n, above |-> 1, bits |-> 0]}
          ELSE {c \in {[left |-> p.left - k, above |-> 2 * p.above - k,
                        bits |-> p.bits + load[p.left]] :
                         p \in codes[l - 1], k \in 0 .. n} :
                  c.left >= c.above /\ (c.above > 0 \/ c.left = 0) /\ c.above >= 0}
    IN  /\ \A s \in DOMAIN freq : bitlengths[s] \in IF freq[s] > 0 THEN 1 .. maxbits ELSE {0}
        /\ n >= 2 => /\ Total(Share, Used(freq)) = 2 ^ maxbits
                     /\ \A c \in codes[maxbits] :
                          c.left = 0 => Total(Bits, Used(freq)) <= c.bits
=============================================================================
