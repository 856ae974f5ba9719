------------------------- MODULE ZopfliMatch_proofs -------------------------
(***************************************************************************)
(* Zopfli's match finder, for every window, every text and every hash      *)
(* function.  What the hash carries over from position to position is what *)
(* a look at the text would say; its chains are the positions of the       *)
(* window; the search along them, with its change to the second hash,      *)
(* finds the longest match and the nearest distances unless the limit of   *)
(* the chains cuts it; and the cache gives what a search would.            *)
(***************************************************************************)
EXTENDS ZopfliMatch, NatLemmas

LEMMA Sizes ==
  WindowSize \in Nat \ {0} /\ MaxSame \in Nat
BY MatchAssumption

LEMMA SlotType ==
  ASSUME NEW p \in Int
  PROVE  SlotOf(p) \in Slot
BY Sizes DEF SlotOf, Slot

(* Two positions of one window have different slots. *)
LEMMA SlotsDiffer ==
  ASSUME NEW p \in Nat, NEW q \in Nat, p < q, q - p < WindowSize
  PROVE  SlotOf(p) # SlotOf(q)
BY Sizes, ModDiffer DEF SlotOf

LEMMA MinOf ==
  ASSUME NEW S \in SUBSET Nat, S # {}
  PROVE  Min(S) \in S /\ \A y \in S : Min(S) <= y
BY LeastOf DEF Min

-----------------------------------------------------------------------------
(* The repetitions. *)
Exact(p, n) ==
  /\ n \in Nat /\ n <= MaxSame /\ p + n < Size
  /\ \A m \in 1 .. n : At(p + m) = At(p)
  /\ n = MaxSame \/ p + n + 1 = Size \/ At(p + n + 1) # At(p)

(* Where the hash stands. *)
Place ==
  /\ text \in Seq(Byte) /\ instart \in Nat /\ instart < Size
  /\ i \in Nat /\ windowstart <= i /\ i <= Size

SInv ==
  /\ Place /\ same \in [Slot -> Nat]
  /\ i = windowstart => same = NoRepetitions
  /\ \A p \in windowstart .. i - 1 : p >= i - WindowSize => Exact(p, same[SlotOf(p)])

LEMMA WindowStart ==
  ASSUME instart \in Nat
  PROVE  windowstart \in Nat /\ windowstart <= instart
BY Sizes DEF windowstart

LEMMA InitPlace == Init => Place
BY MatchAssumption, WindowStart DEF Init, Place, Size

LEMMA InitSame == Init => SInv
<1> SUFFICES ASSUME Init PROVE SInv  OBVIOUS
<1>1. Place  BY InitPlace
<1>2. same = NoRepetitions /\ i = windowstart /\ windowstart \in Nat
  BY <1>1, WindowStart DEF Init, Place
<1>3. same \in [Slot -> Nat]  BY <1>2 DEF NoRepetitions
<1>4. windowstart .. i - 1 = {}  BY <1>2
<1>5. QED BY <1>1, <1>2, <1>3, <1>4 DEF SInv

(* The count that is carried over is of positions that agree; counting on  *)
(* from there is counting from the start.                                  *)
LEMMA RepetitionsExact ==
  ASSUME SInv, i < Size
  PROVE  Exact(i, Repetitions(i))
<1> DEFINE before == same[SlotOf(i - 1)]
           known  == IF before > 1 THEN before - 1 ELSE 0
           Ends(n) == i + n + 1 >= Size \/ At(i + n + 1) # At(i) \/ n >= MaxSame
           S == {n \in known .. Size : Ends(n)}
<1>1. /\ i \in Nat /\ Size \in Nat /\ windowstart \in Nat /\ windowstart <= i
      /\ same \in [Slot -> Nat]
  BY WindowStart DEF SInv, Place, Size
<1>2. before \in Nat
  <2>1. SlotOf(i - 1) \in Slot  BY <1>1, SlotType
  <2>2. QED BY <1>1, <2>1
<1>3. /\ known \in Nat /\ known <= MaxSame /\ i + known < Size
      /\ \A m \in 1 .. known : At(i + m) = At(i)
  <2>1. CASE ~(before > 1)
    <3>1. known = 0  BY <2>1
    <3>2. QED BY <1>1, <3>1, Sizes
  <2>2. CASE before > 1
    <3>0. known = before - 1  BY <2>2
    <3>1. i # windowstart
      <4>1. SlotOf(i - 1) \in Slot  BY <1>1, SlotType
      <4>2. i = windowstart => before = 0  BY <4>1 DEF SInv, NoRepetitions
      <4>3. QED BY <2>2, <4>2
    <3>2. i - 1 \in windowstart .. i - 1 /\ i - 1 >= i - WindowSize
      BY <1>1, <3>1, Sizes
    <3>3. Exact(i - 1, before)  BY <3>2 DEF SInv
    <3> HIDE DEF before, known
    <3>4. before <= MaxSame /\ i - 1 + before < Size
          /\ \A m \in 1 .. before : At(i - 1 + m) = At(i - 1)
      BY <3>3 DEF Exact
    <3>5. ASSUME NEW m \in 1 .. known PROVE At(i + m) = At(i)
      <4>1. m + 1 \in 1 .. before /\ 1 \in 1 .. before
            /\ i - 1 + (m + 1) = i + m /\ i - 1 + 1 = i
        BY <1>1, <1>2, <2>2, <3>0
      <4>2. At(i - 1 + (m + 1)) = At(i - 1) /\ At(i - 1 + 1) = At(i - 1)
        BY <3>4, <4>1
      <4>3. QED BY <4>1, <4>2
    <3>6. QED BY <1>1, <1>2, <2>2, <3>0, <3>4, <3>5, Sizes
  <2>3. QED BY <2>1, <2>2
<1> HIDE DEF known
<1>4. Repetitions(i) = Min(S)  BY DEF Repetitions, known
<1>5. Size \in S /\ S \in SUBSET Nat
  <2>1. Size \in known .. Size /\ i + Size + 1 >= Size  BY <1>1, <1>3
  <2>2. QED BY <1>3, <2>1
<1> DEFINE n == Min(S)
<1>6. n \in S /\ \A y \in S : n <= y
  <2> HIDE DEF S
  <2>1. QED BY <1>5, MinOf
<1> HIDE DEF n
<1>7. n \in Nat /\ n >= known /\ n <= Size /\ Ends(n)  BY <1>3, <1>6
<1>8. ASSUME NEW k \in known .. n - 1 PROVE ~Ends(k)
  <2>1. k \in known .. Size /\ ~(n <= k)  BY <1>1, <1>3, <1>7
  <2>2. QED BY <1>6, <2>1
<1>9. n # known => /\ n - 1 < MaxSame /\ i + n < Size
  <2>1. n # known => n - 1 \in known .. n - 1 /\ i + (n - 1) + 1 = i + n
    BY <1>1, <1>3, <1>7
  <2>2. n # known => ~(i + (n - 1) + 1 >= Size) /\ ~(n - 1 >= MaxSame)  BY <1>8, <2>1
  <2>3. QED BY <1>1, <1>7, <2>1, <2>2, Sizes
<1>10. n <= MaxSame /\ i + n < Size  BY <1>1, <1>3, <1>7, <1>9, Sizes
<1>11. ASSUME NEW m \in 1 .. n PROVE At(i + m) = At(i)
  <2>1. CASE m <= known
    <3>1. m \in 1 .. known  BY <1>3, <1>7, <2>1
    <3>2. QED BY <1>3, <3>1
  <2>2. CASE ~(m <= known)
    <3>1. m - 1 \in known .. n - 1 /\ i + (m - 1) + 1 = i + m  BY <1>1, <1>3, <1>7, <2>2
    <3>2. ~(At(i + (m - 1) + 1) # At(i))  BY <1>8, <3>1
    <3>3. QED BY <3>1, <3>2
  <2>3. QED BY <2>1, <2>2
<1>12. n = MaxSame \/ i + n + 1 = Size \/ At(i + n + 1) # At(i)
  BY <1>1, <1>7, <1>10, Sizes
<1>13. QED BY <1>4, <1>7, <1>10, <1>11, <1>12 DEF Exact, n

LEMMA NextPlace == Place /\ [Next]_vars => Place'
<1> SUFFICES ASSUME Place, [Next]_vars PROVE Place'  OBVIOUS
<1>1. windowstart \in Nat /\ windowstart <= instart /\ Size \in Nat
  BY WindowStart DEF Place, Size
<1>2. CASE Update  BY <1>1, <1>2 DEF Update, Place, windowstart, Size
<1>3. CASE Rewind  BY <1>1, <1>3 DEF Rewind, Place, windowstart, Size
<1>4. CASE Find  BY <1>4 DEF Find, Place, windowstart, Size
<1>5. CASE UNCHANGED vars  BY <1>5 DEF vars, Place, windowstart, Size
<1>6. QED BY <1>2, <1>3, <1>4, <1>5 DEF Next

LEMMA NextSame == SInv /\ [Next]_vars => SInv'
<1> SUFFICES ASSUME SInv, [Next]_vars PROVE SInv'  OBVIOUS
<1>0. /\ Place /\ Place' /\ windowstart \in Nat /\ i \in Nat /\ windowstart <= i
      /\ same \in [Slot -> Nat]
  BY NextPlace, WindowStart DEF SInv, Place
<1>1. CASE Update
  <2>1. /\ i < Size /\ i' = i + 1 /\ windowstart' = windowstart /\ text' = text
        /\ same' = [same EXCEPT ![SlotOf(i)] = Repetitions(i)]
    BY <1>1 DEF Update, windowstart
  <2>2. Exact(i, Repetitions(i))  BY <2>1, RepetitionsExact
  <2>3. SlotOf(i) \in Slot  BY <1>0, SlotType
  <2>4. same' \in [Slot -> Nat]  BY <1>0, <2>1, <2>2, <2>3 DEF Exact
  <2>5. ASSUME NEW p \in windowstart .. i, p >= i + 1 - WindowSize
        PROVE  Exact(p, same'[SlotOf(p)])
    <3>1. p \in Nat /\ p <= i  BY <1>0, <2>1
    <3>2. CASE p = i  BY <1>0, <2>1, <2>2, <2>3, <3>2
    <3>3. CASE p # i
      <4>1. p \in windowstart .. i - 1 /\ p >= i - WindowSize /\ p < i /\ i - p < WindowSize
        BY <1>0, <2>5, <3>1, <3>3, Sizes
      <4>2. SlotOf(p) # SlotOf(i)  BY <1>0, <3>1, <4>1, SlotsDiffer
      <4>3. SlotOf(p) \in Slot  BY <3>1, SlotType
      <4>4. same'[SlotOf(p)] = same[SlotOf(p)]  BY <1>0, <2>1, <4>2, <4>3
      <4>5. QED BY <4>1, <4>4 DEF SInv
    <3>4. QED BY <3>2, <3>3
  <2>a. windowstart' .. i' - 1 = windowstart .. i
    <3>1. i' - 1 = i  BY <1>0, <2>1
    <3>2. QED BY <2>1, <3>1
  <2>6. ASSUME NEW p \in windowstart' .. i' - 1, p >= i' - WindowSize
        PROVE  Exact(p, same[SlotOf(p)])'
    <3>0. p \in windowstart .. i  BY <2>a
    <3>1. p >= i + 1 - WindowSize  BY <1>0, <2>1, <2>6, <3>0, Sizes
    <3>2. Exact(p, same'[SlotOf(p)])  BY <2>5, <3>0, <3>1
    <3>3. QED BY <2>1, <3>2 DEF Exact, Size, At, SlotOf
  <2>7. i' # windowstart'  BY <1>0, <2>1
  <2>8. QED BY <1>0, <2>4, <2>6, <2>7 DEF SInv, SlotOf
<1>2. CASE Rewind
  <2>1. i' = windowstart' /\ same' = NoRepetitions  BY <1>2 DEF Rewind, windowstart
  <2>2. windowstart' \in Nat  BY <1>0, <1>2 DEF Rewind, windowstart
  <2>3. same' \in [Slot -> Nat]  BY <2>1 DEF NoRepetitions
  <2>4. windowstart' .. i' - 1 = {}
    <3>1. \A w \in Nat : w .. w - 1 = {}  OBVIOUS
    <3>2. QED BY <2>1, <2>2, <3>1
  <2>5. QED BY <1>0, <2>1, <2>3, <2>4 DEF SInv, NoRepetitions
<1>3. CASE Find
  BY <1>0, <1>3 DEF Find, hash, SInv, Exact, windowstart, Size, At, SlotOf, NoRepetitions
<1>4. CASE UNCHANGED vars
  BY <1>0, <1>4 DEF vars, hash, SInv, Exact, windowstart, Size, At, SlotOf, NoRepetitions
<1>5. QED BY <1>1, <1>2, <1>3, <1>4 DEF Next

(* The repetitions of every position of the window are those in the text,  *)
(* though only the last of a run are counted.                              *)
THEOREM AlwaysSame == Spec => []SameIsExact
<1>1. SInv => SameIsExact
  <2> SUFFICES ASSUME SInv, NEW p \in windowstart .. i - 1, i - p < WindowSize
               PROVE  Exact(p, same[SlotOf(p)])
    BY DEF SameIsExact, Exact
  <2>1. i \in Nat /\ windowstart \in Nat  BY WindowStart DEF SInv, Place
  <2>2. p >= i - WindowSize  BY <2>1, Sizes
  <2>3. QED BY <2>2 DEF SInv
<1>2. Spec => []SInv  BY InitSame, NextSame, PTL DEF Spec
<1>3. QED BY <1>1, <1>2, PTL

-----------------------------------------------------------------------------
(* The chains, of a hash f of positions.  A position is linked to the last *)
(* one before it that has the same hash, if the window reaches it.  Those  *)
(* from lo to n - 1 were hashed.                                           *)
Near(f, lo, p) == {q \in lo .. p - 1 : f[q] = f[p] /\ q > p - WindowSize}

LinkIs(f, lo, p, l) ==
  /\ Near(f, lo, p) = {} => l = SlotOf(p)
  /\ \A q \in Near(f, lo, p) : (\A r \in Near(f, lo, p) : r <= q) => l = SlotOf(q)

WithHash(f, lo, n, k) == {q \in lo .. n - 1 : f[q] = k}

HeadOk(f, lo, n, h) ==
  \A k \in Keys :
    LET Q == WithHash(f, lo, n, k)
    IN  /\ Q = {} => h[k] = -1
        /\ \A q \in Q : (\A r \in Q : r <= q) => h[k] = SlotOf(q)

WindowOk(f, lo, n, hv, link) ==
  \A p \in lo .. n - 1 :
    p >= n - WindowSize => hv[SlotOf(p)] = f[p] /\ LinkIs(f, lo, p, link[SlotOf(p)])

ChainOk(f, lo, n, h, hv, link) ==
  /\ HeadOk(f, lo, n, h) /\ WindowOk(f, lo, n, hv, link)
  /\ h \in [Keys -> Int] /\ hv \in [Slot -> Int \cup Keys] /\ link \in [Slot -> Slot]

LEMMA ChainEmpty ==
  ASSUME NEW f, NEW lo \in Nat
  PROVE  ChainOk(f, lo, lo, NoHead, NoValue, NoLink)
<1>1. lo .. lo - 1 = {}  OBVIOUS
<1>2. NoHead \in [Keys -> Int] /\ NoValue \in [Slot -> Int \cup Keys] /\ NoLink \in [Slot -> Slot]
  BY DEF NoHead, NoValue, NoLink
<1>3. HeadOk(f, lo, lo, NoHead)  BY <1>1 DEF HeadOk, WithHash, NoHead
<1>4. WindowOk(f, lo, lo, NoValue, NoLink)  BY <1>1 DEF WindowOk
<1>5. QED BY <1>2, <1>3, <1>4 DEF ChainOk

(* The last of a set of positions. *)
LEMMA LastOf ==
  ASSUME NEW S \in SUBSET Nat, NEW p \in Nat, S # {}, \A q \in S : q < p
  PROVE  \E q \in S : \A r \in S : r <= q
<1>1. \E q \in S : q < p  OBVIOUS
<1>2. PICK q \in S : q < p /\ \A r \in S : ~(q < r /\ r < p)  BY <1>1, GreatestBelow
<1>3. \A r \in S : r <= q  BY <1>2
<1>4. QED BY <1>3

(* A head whose slot was taken over is recognised by the hash in the slot: *)
(* the position that took it is a later one, and has another hash.         *)
LEMMA NewLink ==
  ASSUME NEW f, NEW lo \in Nat, NEW n \in Nat, lo <= n, f[n] \in Keys,
         NEW h, NEW old, NEW link, ChainOk(f, lo, n, h, old, link),
         NEW hv, hv = [old EXCEPT ![SlotOf(n)] = f[n]]
  PROVE  LinkIs(f, lo, n, Linked(h, hv, f[n], SlotOf(n)))
<1> DEFINE k == f[n]
           s == SlotOf(n)
           l == Linked(h, hv, k, s)
           Q == WithHash(f, lo, n, k)
           N == Near(f, lo, n)
<1>2. k \in Keys  OBVIOUS
<1>3. s \in Slot  BY SlotType
<1>4. /\ Q = {} => h[k] = -1
      /\ \A q \in Q : (\A r \in Q : r <= q) => h[k] = SlotOf(q)
  BY <1>2 DEF ChainOk, HeadOk
<1>5. N = {q \in Q : q > n - WindowSize}  BY DEF Near, WithHash
<1>6. \A q \in Q : q \in Nat /\ q < n /\ q >= lo /\ f[q] = k  BY DEF WithHash
<1>7. \A q \in lo .. n - 1 : q \in Q <=> f[q] = k  BY DEF WithHash
<1>8. \A t \in Slot : hv[t] = IF t = s THEN k ELSE old[t]
  BY <1>3 DEF ChainOk
<1>9. l = IF h[k] # -1 /\ hv[h[k]] = k THEN h[k] ELSE s  BY DEF Linked
<1>a. ASSUME NEW r \in lo .. n - 1, r >= n - WindowSize PROVE old[SlotOf(r)] = f[r]
  BY <1>a DEF ChainOk, WindowOk
<1>b. (/\ N = {} => l = s
       /\ \A q \in N : (\A r \in N : r <= q) => l = SlotOf(q)) => LinkIs(f, lo, n, l)
  BY DEF LinkIs
<1> HIDE DEF k, s, l, Q, N
<1>10. CASE Q = {}
  <2>1. l = s /\ N = {}  BY <1>4, <1>5, <1>9, <1>10
  <2>2. QED BY <1>b, <2>1 DEF l, k, s
<1>11. CASE Q # {}
  <2>0. Q \in SUBSET Nat /\ \A q \in Q : q < n  BY <1>6
  <2>1. PICK q \in Q : \A r \in Q : r <= q  BY <1>11, <2>0, LastOf
  <2>2. q \in Nat /\ q < n /\ q >= lo /\ f[q] = k  BY <1>6
  <2>3. h[k] = SlotOf(q)  BY <1>4, <2>1
  <2>4. SlotOf(q) \in Slot /\ SlotOf(q) # -1
    <3>1. SlotOf(q) \in Slot  BY <2>2, SlotType
    <3>2. QED BY <3>1, Sizes DEF Slot
  <2>5. l = IF hv[SlotOf(q)] = k THEN SlotOf(q) ELSE s  BY <1>9, <2>3, <2>4
  <2>6. CASE q > n - WindowSize
    <3>1. n - q < WindowSize /\ q \in lo .. n - 1 /\ q >= n - WindowSize
      BY <2>2, <2>6, Sizes
    <3>2. SlotOf(q) # s  BY <2>2, <3>1, SlotsDiffer DEF s
    <3>3. old[SlotOf(q)] = k  BY <1>a, <2>2, <3>1
    <3>4. l = SlotOf(q)  BY <1>8, <2>4, <2>5, <3>2, <3>3
    <3>5. q \in N  BY <1>5, <2>6
    <3>6. ASSUME NEW x \in N, \A r \in N : r <= x PROVE x = q
      <4>1. x \in Q  BY <1>5
      <4>2. q <= x /\ x <= q /\ x \in Nat  BY <1>6, <2>1, <3>5, <3>6, <4>1
      <4>3. QED BY <2>2, <4>2
    <3>7. QED BY <1>b, <3>4, <3>5, <3>6 DEF l, k, s
  <2>7. CASE ~(q > n - WindowSize)
    <3>1. N = {}
      <4>1. SUFFICES ASSUME NEW x \in N PROVE FALSE  OBVIOUS
      <4>2. x \in Q /\ x > n - WindowSize  BY <1>5
      <4>3. x <= q /\ x \in Nat  BY <1>6, <2>1, <4>2
      <4>4. QED BY <2>2, <2>7, <4>2, <4>3, Sizes
    <3>2. l = s
      <4>1. q <= n  BY <2>2
      <4>2. PICK r \in q .. n : r > n - WindowSize /\ r % WindowSize = q % WindowSize
        BY <2>2, <4>1, Sizes, ModBelow
      <4>3. SlotOf(r) = SlotOf(q)  BY <4>2 DEF SlotOf
      <4>4. CASE r = n  BY <2>5, <4>3, <4>4 DEF s
      <4>5. CASE r # n
        <5>1. /\ r \in Nat /\ r < n /\ r > q /\ n - r < WindowSize
              /\ r \in lo .. n - 1 /\ r >= n - WindowSize
          BY <2>2, <2>7, <4>2, <4>5, Sizes
        <5>2. SlotOf(r) # s  BY <5>1, SlotsDiffer DEF s
        <5>3. old[SlotOf(r)] = f[r]  BY <1>a, <5>1
        <5>4. f[r] # k
          <6>1. ~(r <= q)  BY <2>2, <5>1
          <6>2. QED BY <1>7, <2>1, <5>1, <6>1
        <5>5. hv[SlotOf(q)] # k  BY <1>8, <2>4, <4>3, <5>2, <5>3, <5>4
        <5>6. QED BY <2>5, <5>5
      <4>6. QED BY <4>4, <4>5
    <3>3. QED BY <1>b, <3>1, <3>2 DEF l, k, s
  <2>8. QED BY <2>6, <2>7
<1>12. QED BY <1>10, <1>11

LEMMA WindowOkWhen ==
  ASSUME NEW f, NEW lo, NEW m, NEW hv, NEW link,
         \A p \in lo .. m - 1 :
           p >= m - WindowSize => hv[SlotOf(p)] = f[p] /\ LinkIs(f, lo, p, link[SlotOf(p)])
  PROVE  WindowOk(f, lo, m, hv, link)
BY DEF WindowOk

(* A position is hashed. *)
LEMMA ChainGrows ==
  ASSUME NEW f, NEW lo \in Nat, NEW n \in Nat, lo <= n, f[n] \in Keys,
         NEW h, NEW hv, NEW link, ChainOk(f, lo, n, h, hv, link),
         NEW h1, NEW hv1, NEW link1,
         hv1 = [hv EXCEPT ![SlotOf(n)] = f[n]],
         link1 = [link EXCEPT ![SlotOf(n)] = Linked(h, hv1, f[n], SlotOf(n))],
         h1 = [h EXCEPT ![f[n]] = SlotOf(n)]
  PROVE  ChainOk(f, lo, n + 1, h1, hv1, link1)
<1> DEFINE s == SlotOf(n)
           k == f[n]
           l == Linked(h, hv1, k, s)
<1>1. h \in [Keys -> Int] /\ hv \in [Slot -> Int \cup Keys] /\ link \in [Slot -> Slot]
  BY DEF ChainOk
<1>2. s \in Slot /\ k \in Keys  BY SlotType
<1>3. LinkIs(f, lo, n, l)  BY NewLink
<1>a. hv1 = [hv EXCEPT ![s] = k] /\ link1 = [link EXCEPT ![s] = l] /\ h1 = [h EXCEPT ![k] = s]
  OBVIOUS
<1> HIDE DEF l
<1>4. l \in Slot
  <2>1. CASE Near(f, lo, n) = {}  BY <1>2, <1>3, <2>1 DEF LinkIs
  <2>2. CASE Near(f, lo, n) # {}
    <3>1. Near(f, lo, n) \in SUBSET Nat /\ \A q \in Near(f, lo, n) : q < n  BY DEF Near
    <3>2. PICK q \in Near(f, lo, n) : \A r \in Near(f, lo, n) : r <= q
      BY <2>2, <3>1, LastOf
    <3>3. l = SlotOf(q) /\ q \in Nat  BY <1>3, <3>1, <3>2 DEF LinkIs
    <3>4. QED BY <3>3, SlotType
  <2>3. QED BY <2>1, <2>2
<1>5. s \in Int /\ k \in Int \cup Keys  BY <1>2, Sizes DEF Slot
<1>6. /\ h1 \in [Keys -> Int] /\ hv1 \in [Slot -> Int \cup Keys]
      /\ link1 \in [Slot -> Slot]
  BY <1>1, <1>2, <1>4, <1>5, <1>a
<1>8. (n + 1) - 1 = n  OBVIOUS
<1>9. HeadOk(f, lo, n + 1, h1)
  <2> SUFFICES ASSUME NEW x \in Keys
               PROVE  LET Q == WithHash(f, lo, n + 1, x)
                      IN  /\ Q = {} => h1[x] = -1
                          /\ \A q \in Q : (\A r \in Q : r <= q) => h1[x] = SlotOf(q)
    BY DEF HeadOk
  <2> DEFINE Q == WithHash(f, lo, n + 1, x)
             P == WithHash(f, lo, n, x)
  <2>1. /\ P = {} => h[x] = -1
        /\ \A q \in P : (\A r \in P : r <= q) => h[x] = SlotOf(q)
    BY DEF ChainOk, HeadOk
  <2>2. CASE x = k
    <3>1. h1[x] = s /\ n \in Q  BY <1>1, <1>2, <1>8, <1>a, <2>2 DEF WithHash
    <3>2. ASSUME NEW q \in Q, \A r \in Q : r <= q PROVE q = n
      <4>1. q \in Nat /\ q <= n  BY <1>8 DEF WithHash
      <4>2. n <= q  BY <3>1, <3>2
      <4>3. QED BY <4>1, <4>2
    <3>3. QED BY <3>1, <3>2
  <2>3. CASE x # k
    <3>1. h1[x] = h[x]  BY <1>1, <1>2, <1>a, <2>3
    <3>2. Q = P
      <4>1. \A q \in lo .. n : q # n => q \in lo .. n - 1  OBVIOUS
      <4>2. \A q \in lo .. n - 1 : q \in lo .. n  OBVIOUS
      <4>3. \A q \in Q : q # n  BY <2>3 DEF WithHash
      <4>4. QED BY <1>8, <4>1, <4>2, <4>3 DEF WithHash
    <3>3. QED BY <2>1, <3>1, <3>2
  <2>4. QED BY <2>2, <2>3
<1>10. ASSUME NEW p \in lo .. n, p >= n + 1 - WindowSize
       PROVE  hv1[SlotOf(p)] = f[p] /\ LinkIs(f, lo, p, link1[SlotOf(p)])
  <2>1. p \in Nat /\ p <= n  OBVIOUS
  <2>2. CASE p = n  BY <1>1, <1>2, <1>3, <1>4, <1>a, <2>2
  <2>3. CASE p # n
    <3>1. p \in lo .. n - 1 /\ p >= n - WindowSize /\ p < n /\ n - p < WindowSize
      BY <1>10, <2>1, <2>3, Sizes
    <3>2. SlotOf(p) # SlotOf(n)  BY <2>1, <3>1, SlotsDiffer
    <3>3. SlotOf(p) \in Slot  BY <2>1, SlotType
    <3>4. hv1[SlotOf(p)] = hv[SlotOf(p)] /\ link1[SlotOf(p)] = link[SlotOf(p)]
      BY <1>1, <1>a, <3>2, <3>3
    <3>5. QED BY <3>1, <3>4 DEF ChainOk, WindowOk
  <2>4. QED BY <2>2, <2>3
<1>11. WindowOk(f, lo, n + 1, hv1, link1)
  <2>1. ASSUME NEW p \in lo .. (n + 1) - 1, p >= (n + 1) - WindowSize
        PROVE  hv1[SlotOf(p)] = f[p] /\ LinkIs(f, lo, p, link1[SlotOf(p)])
    <3>1. p \in lo .. n /\ p >= n + 1 - WindowSize  BY <1>8, <2>1, Sizes
    <3>2. QED BY <1>10, <3>1
  <2>2. QED BY <2>1, WindowOkWhen
<1>12. QED BY <1>6, <1>9, <1>11 DEF ChainOk

-----------------------------------------------------------------------------
(* Following a chain. *)
Back(s, t) == IF s < t THEN t - s ELSE WindowSize - s + t
After(link, v) == [slot |-> link[v.slot], dist |-> v.dist + Back(link[v.slot], v.slot)]
Stops(node) ==
  {k \in 1 .. WindowSize : node[k].slot = node[k - 1].slot \/ node[k].dist >= WindowSize}

LEMMA ChainIs ==
  ASSUME NEW first \in Slot, NEW d0 \in Int, NEW link \in [Slot -> Slot]
  PROVE  \E node : /\ node[0] = [slot |-> first, dist |-> d0]
                   /\ \A k \in 1 .. WindowSize : node[k] = After(link, node[k - 1])
                   /\ Chain(first, d0, link) = [k \in 1 .. Min(Stops(node)) - 1 |-> node[k]]
<1> DEFINE D == [slot : Slot, dist : Int]
           x == [slot |-> first, dist |-> d0]
           F == [y \in (1 .. WindowSize) \X D |-> After(link, y[2])]
           G(g) == [k \in 0 .. WindowSize |-> IF k = 0 THEN x ELSE After(link, g[k - 1])]
           node == CHOOSE g : g = G(g)
<1>1. WindowSize \in Nat /\ x \in D  BY Sizes
<1>2. \A v \in D : After(link, v) \in D
  <2>1. SUFFICES ASSUME NEW v \in D PROVE After(link, v) \in D  OBVIOUS
  <2>2. v.slot \in Slot /\ v.dist \in Int /\ link[v.slot] \in Slot  OBVIOUS
  <2>3. Back(link[v.slot], v.slot) \in Int  BY <2>2, Sizes DEF Back, Slot
  <2>4. QED BY <2>2, <2>3 DEF After
<1>3. IsStep(WindowSize, D, F)  BY <1>2 DEF IsStep
<1>4. \E g : g = G(g)
  <2> HIDE DEF x, D, F, G, node
  <2>1. PICK g : IsRecursion(WindowSize, D, x, F, g)  BY <1>1, <1>3, RecursionExists
  <2>2. /\ g \in [0 .. WindowSize -> D] /\ g[0] = x
        /\ \A k \in 1 .. WindowSize : g[k] = F[<<k, g[k - 1]>>]
    BY <2>1 DEF IsRecursion
  <2>3. ASSUME NEW k \in 0 .. WindowSize
        PROVE  g[k] = IF k = 0 THEN x ELSE After(link, g[k - 1])
    <3>1. CASE k = 0  BY <2>2, <3>1
    <3>2. CASE k # 0
      <4>1. k \in 1 .. WindowSize /\ k - 1 \in 0 .. WindowSize  BY <1>1, <3>2
      <4>2. g[k - 1] \in D  BY <2>2, <4>1
      <4>3. <<k, g[k - 1]>> \in (1 .. WindowSize) \X D  BY <4>1, <4>2
      <4>4. F[<<k, g[k - 1]>>] = After(link, g[k - 1])  BY <4>3 DEF F
      <4>5. QED BY <2>2, <3>2, <4>1, <4>4
    <3>3. QED BY <3>1, <3>2
  <2>4. g = G(g)  BY <2>2, <2>3 DEF G
  <2>5. QED BY <2>4
<1>5. node = G(node)
  <2> HIDE DEF G
  <2>1. QED BY <1>4
<1>6. Chain(first, d0, link) = [k \in 1 .. Min(Stops(node)) - 1 |-> node[k]]
  BY DEF Chain, Back, After, Stops
<1> HIDE DEF node
<1>7. node[0] = x  BY <1>1, <1>5
<1>8. ASSUME NEW k \in 1 .. WindowSize PROVE node[k] = After(link, node[k - 1])
  <2>1. k \in 0 .. WindowSize /\ k # 0  BY <1>1
  <2>2. QED BY <1>5, <2>1
<1>9. QED BY <1>6, <1>7, <1>8

(* The distance between two slots is that between their positions. *)
LEMMA BackIs ==
  ASSUME NEW q \in Nat, NEW r \in Nat, r < q, q - r < WindowSize
  PROVE  Back(SlotOf(r), SlotOf(q)) = q - r
<1> DEFINE d == q - r
           t == SlotOf(r)
<1>1. d \in 0 .. WindowSize - 1 /\ d >= 1 /\ q = r + d  BY Sizes
<1>2. SlotOf(q) = IF t + d < WindowSize THEN t + d ELSE t + d - WindowSize
  <2> HIDE DEF d
  <2>1. QED BY <1>1, Sizes, ModPlus DEF SlotOf, t
<1>3. t \in 0 .. WindowSize - 1  BY SlotType DEF Slot
<1> HIDE DEF d, t
<1>4. CASE t + d < WindowSize
  <2>1. SlotOf(q) = t + d /\ t < t + d /\ t + d - t = d  BY <1>1, <1>2, <1>3, <1>4, Sizes
  <2>2. Back(t, SlotOf(q)) = d  BY <1>1, <1>3, <2>1, Sizes DEF Back
  <2>3. QED BY <2>2 DEF d, t
<1>5. CASE ~(t + d < WindowSize)
  <2>1. /\ SlotOf(q) = t + d - WindowSize /\ ~(t < t + d - WindowSize)
        /\ WindowSize - t + (t + d - WindowSize) = d
    BY <1>1, <1>2, <1>3, <1>5, Sizes
  <2>2. Back(t, SlotOf(q)) = d  BY <1>1, <1>3, <2>1, Sizes DEF Back
  <2>3. QED BY <2>2 DEF d, t
<1>6. QED BY <1>4, <1>5

(* The distances beyond d0 at which the hash is that of p - d0, for a      *)
(* position p that is hashed last.                                         *)
Beyond(f, lo, p, d0) ==
  {d \in 1 .. Least(p - lo, WindowSize - 1) : d > d0 /\ f[p - d] = f[p - d0]}

LEMMA InBeyond ==
  ASSUME NEW f, NEW lo \in Nat, NEW p \in Nat, lo <= p, NEW d0 \in Nat, NEW e
  PROVE  e \in Beyond(f, lo, p, d0) <=>
           /\ e \in Nat /\ e >= 1 /\ e < WindowSize /\ p - e >= lo
           /\ e > d0 /\ f[p - e] = f[p - d0]
<1>1. e \in 1 .. Least(p - lo, WindowSize - 1)
        <=> e \in Nat /\ e >= 1 /\ e < WindowSize /\ p - e >= lo
  BY Sizes DEF Least
<1>2. QED BY <1>1 DEF Beyond

LEMMA BeyondFinite ==
  ASSUME NEW f, NEW lo \in Nat, NEW p \in Nat, lo <= p, NEW d0 \in Nat,
         NEW E, E = Beyond(f, lo, p, d0)
  PROVE  /\ IsFiniteSet(E) /\ E \in SUBSET Nat
         /\ Cardinality(E) \in Nat /\ Cardinality(E) < WindowSize
<1> DEFINE m == Least(p - lo, WindowSize - 1)
<1>1. m \in Nat /\ m < WindowSize /\ m <= p  BY Sizes DEF Least
<1>3. E \in SUBSET (1 .. m)  BY DEF Beyond
<1> HIDE DEF m
<1>4. IsFiniteSet(1 .. m) /\ Cardinality(1 .. m) = m  BY <1>1, FS_Interval
<1>5. IsFiniteSet(E) /\ Cardinality(E) <= m  BY <1>3, <1>4, FS_Subset
<1>6. Cardinality(E) \in Nat  BY <1>5, FS_CardinalityType
<1>7. QED BY <1>1, <1>3, <1>5, <1>6, Sizes

(* Where the walk along a chain is: at one of these distances.             *)
At0(p, lo, d) == d \in Nat /\ d < WindowSize /\ p - d >= lo

(* What a position q at one of them is linked to: the last of those before *)
(* it that the window reaches.                                             *)
LinkedAt(f, lo, p, d0, link, d, v, q, N) ==
  /\ q \in Nat /\ q >= lo /\ q <= p /\ d < WindowSize /\ d \in Nat /\ d >= d0
  /\ v.slot = SlotOf(q) /\ v.dist = d
  /\ N \in SUBSET Nat
  /\ \A r \in N : r >= lo /\ r < q /\ f[r] = f[p - d0]
  /\ \A r \in Nat : r >= lo /\ r < q /\ r > q - WindowSize /\ f[r] = f[p - d0] => r \in N
  /\ N = {} => link[SlotOf(q)] = SlotOf(q)
  /\ \A r \in N : (\A x \in N : x <= r)
                    => After(link, v) = [slot |-> SlotOf(r), dist |-> p - r]

LEMMA LinkAt ==
  ASSUME NEW f, NEW lo \in Nat, NEW p \in Nat, lo <= p, NEW h, NEW hv, NEW link,
         ChainOk(f, lo, p + 1, h, hv, link),
         NEW d0 \in Nat, At0(p, lo, d0), NEW E, E = Beyond(f, lo, p, d0),
         NEW d, d = d0 \/ d \in E, NEW v,
         v = [slot |-> SlotOf(p - d), dist |-> d],
         NEW q, q = p - d, NEW N, N = Near(f, lo, q)
  PROVE  LinkedAt(f, lo, p, d0, link, d, v, q, N)
<1> DEFINE key == f[p - d0]
<1>3. \A e : e \in E <=> /\ e \in Nat /\ e >= 1 /\ e < WindowSize /\ p - e >= lo
                         /\ e > d0 /\ f[p - e] = key
  <2>1. \A e : e \in Beyond(f, lo, p, d0)
                <=> /\ e \in Nat /\ e >= 1 /\ e < WindowSize /\ p - e >= lo
                    /\ e > d0 /\ f[p - e] = f[p - d0]
    BY InBeyond
  <2>2. QED BY <2>1
<1>5. q \in Nat /\ q >= lo /\ q <= p /\ d < WindowSize /\ f[q] = key /\ d \in Nat /\ d >= d0
  <2>1. CASE d = d0  BY <2>1 DEF At0
  <2>2. CASE d \in E  BY <1>3, <2>2
  <2>3. QED BY <2>1, <2>2
<1>6. q = p - d  OBVIOUS
<1>a. N = Near(f, lo, q)  OBVIOUS
<1>8. v.slot = SlotOf(q) /\ v.dist = d  OBVIOUS
<1> HIDE DEF key
<1>7. LinkIs(f, lo, q, link[SlotOf(q)])
  <2>1. PICK n : n = p + 1  OBVIOUS
  <2>2. q \in lo .. n - 1 /\ q >= n - WindowSize
    BY <1>5, <1>6, <2>1, Sizes
  <2>3. WindowOk(f, lo, n, hv, link)  BY <2>1 DEF ChainOk
  <2>4. QED BY <2>2, <2>3 DEF WindowOk
<1>9. \A r : r \in N <=> /\ r \in Nat /\ r >= lo /\ r < q
                         /\ r > q - WindowSize /\ f[r] = key
  <2>1. \A r : r \in lo .. q - 1 <=> r \in Nat /\ r >= lo /\ r < q
    BY <1>5
  <2>2. QED BY <1>5, <1>a, <2>1 DEF Near
<1>10. ASSUME NEW r \in N, \A x \in N : x <= r
       PROVE  After(link, v) = [slot |-> SlotOf(r), dist |-> p - r]
  <2>1. link[SlotOf(q)] = SlotOf(r)  BY <1>7, <1>10, <1>a DEF LinkIs
  <2>2. r \in Nat /\ r < q /\ q - r < WindowSize  BY <1>5, <1>9, Sizes
  <2>3. Back(SlotOf(r), SlotOf(q)) = q - r  BY <1>5, <2>2, BackIs
  <2>4. d + (q - r) = p - r  BY <1>5, <1>6, <2>2
  <2>5. QED BY <1>8, <2>1, <2>3, <2>4 DEF After
<1>11. N = {} => link[SlotOf(q)] = SlotOf(q)  BY <1>7, <1>a DEF LinkIs
<1>12. N \in SUBSET Nat  BY <1>9
<1>13. QED BY <1>5, <1>8, <1>9, <1>10, <1>11, <1>12 DEF key, LinkedAt

(* One step along the chain: to the next of these distances. *)
LEMMA ChainStep ==
  ASSUME NEW f, NEW lo \in Nat, NEW p \in Nat, lo <= p, NEW h, NEW hv, NEW link,
         ChainOk(f, lo, p + 1, h, hv, link),
         NEW d0 \in Nat, At0(p, lo, d0), NEW E, E = Beyond(f, lo, p, d0),
         NEW d, d = d0 \/ d \in E, NEW v,
         v = [slot |-> SlotOf(p - d), dist |-> d],
         NEW e \in E, d < e, \A c \in E : ~(d < c /\ c < e)
  PROVE  After(link, v) = [slot |-> SlotOf(p - e), dist |-> e]
<1> DEFINE key == f[p - d0]
<1>3. \A x : x \in E <=> /\ x \in Nat /\ x >= 1 /\ x < WindowSize /\ p - x >= lo
                         /\ x > d0 /\ f[p - x] = key
  <2>1. \A x : x \in Beyond(f, lo, p, d0)
                <=> /\ x \in Nat /\ x >= 1 /\ x < WindowSize /\ p - x >= lo
                    /\ x > d0 /\ f[p - x] = f[p - d0]
    BY InBeyond
  <2>2. QED BY <2>1
<1>1. PICK q : q = p - d  OBVIOUS
<1>2. PICK N : N = Near(f, lo, q)  OBVIOUS
<1>4. LinkedAt(f, lo, p, d0, link, d, v, q, N)  BY <1>1, <1>2, LinkAt
<1>5. /\ q \in Nat /\ q >= lo /\ q <= p /\ d < WindowSize /\ d \in Nat /\ d >= d0
      /\ v.slot = SlotOf(q) /\ v.dist = d
      /\ N \in SUBSET Nat
      /\ \A r \in N : r >= lo /\ r < q /\ f[r] = key
      /\ \A r \in Nat : r >= lo /\ r < q /\ r > q - WindowSize /\ f[r] = key => r \in N
      /\ N = {} => link[SlotOf(q)] = SlotOf(q)
      /\ \A r \in N : (\A x \in N : x <= r)
                        => After(link, v) = [slot |-> SlotOf(r), dist |-> p - r]
  BY <1>4 DEF LinkedAt
<1> HIDE DEF key
<1>11. After(link, v) = [slot |-> SlotOf(p - e), dist |-> e]
  <2> DEFINE r == p - e
  <2>1. e \in Nat /\ e >= 1 /\ e < WindowSize /\ p - e >= lo /\ f[p - e] = key
    BY <1>3
  <2>2. r \in Nat /\ r >= lo /\ r < q /\ r > q - WindowSize /\ f[r] = key /\ p - r = e
    BY <1>5, <1>1, <2>1, Sizes
  <2> HIDE DEF r
  <2>3. r \in N  BY <1>5, <2>2
  <2>4. ASSUME NEW x \in N, x > r PROVE FALSE
    <3>1. x \in Nat /\ x >= lo /\ x < q /\ f[x] = key  BY <1>5
    <3>2. PICK c : c = p - x  OBVIOUS
    <3>3. c \in Nat /\ c >= 1 /\ c < WindowSize /\ p - c = x /\ d < c /\ c < e /\ c > d0
      BY <1>5, <1>1, <2>1, <2>2, <2>4, <3>1, <3>2, Sizes
    <3>4. c \in E  BY <1>3, <3>1, <3>3
    <3>5. QED BY <3>3, <3>4
  <2>5. \A x \in N : x <= r
    <3>1. \A x \in N : x \in Nat  BY <1>5
    <3>2. QED BY <2>2, <2>4, <3>1
  <2>6. After(link, v) = [slot |-> SlotOf(r), dist |-> p - r]  BY <1>5, <2>3, <2>5
  <2>7. QED BY <2>2, <2>6 DEF r
<1>6. QED BY <1>11

(* After the last one the chain ends, or leaves the window. *)
LEMMA ChainStop ==
  ASSUME NEW f, NEW lo \in Nat, NEW p \in Nat, lo <= p, NEW h, NEW hv, NEW link,
         ChainOk(f, lo, p + 1, h, hv, link),
         NEW d0 \in Nat, At0(p, lo, d0), NEW E, E = Beyond(f, lo, p, d0),
         NEW d, d = d0 \/ d \in E, NEW v,
         v = [slot |-> SlotOf(p - d), dist |-> d],
         \A e \in E : ~(d < e)
  PROVE  After(link, v).slot = v.slot \/ After(link, v).dist >= WindowSize
<1> DEFINE key == f[p - d0]
<1>3. \A e : e \in E <=> /\ e \in Nat /\ e >= 1 /\ e < WindowSize /\ p - e >= lo
                         /\ e > d0 /\ f[p - e] = key
  <2>1. \A e : e \in Beyond(f, lo, p, d0)
                <=> /\ e \in Nat /\ e >= 1 /\ e < WindowSize /\ p - e >= lo
                    /\ e > d0 /\ f[p - e] = f[p - d0]
    BY InBeyond
  <2>2. QED BY <2>1
<1>1. PICK q : q = p - d  OBVIOUS
<1>2. PICK N : N = Near(f, lo, q)  OBVIOUS
<1>4. LinkedAt(f, lo, p, d0, link, d, v, q, N)  BY <1>1, <1>2, LinkAt
<1>5. /\ q \in Nat /\ q >= lo /\ q <= p /\ d < WindowSize /\ d \in Nat /\ d >= d0
      /\ v.slot = SlotOf(q) /\ v.dist = d
      /\ N \in SUBSET Nat
      /\ \A r \in N : r >= lo /\ r < q /\ f[r] = key
      /\ \A r \in Nat : r >= lo /\ r < q /\ r > q - WindowSize /\ f[r] = key => r \in N
      /\ N = {} => link[SlotOf(q)] = SlotOf(q)
      /\ \A r \in N : (\A x \in N : x <= r)
                        => After(link, v) = [slot |-> SlotOf(r), dist |-> p - r]
  BY <1>4 DEF LinkedAt
<1> HIDE DEF key
<1>12. After(link, v).slot = v.slot \/ After(link, v).dist >= WindowSize
  <2>1. CASE N = {}
    <3>1. link[SlotOf(q)] = SlotOf(q)  BY <1>5, <2>1
    <3>2. QED BY <1>5, <3>1 DEF After
  <2>2. CASE N # {}
    <3>1. N \in SUBSET Nat /\ \A x \in N : x < q  BY <1>5
    <3>2. PICK r \in N : \A x \in N : x <= r
      BY <1>5, <2>2, <3>1, LastOf
    <3>a. After(link, v) = [slot |-> SlotOf(r), dist |-> p - r]  BY <1>5, <3>2
    <3>3. After(link, v).dist = p - r  BY <3>a
    <3>4. r \in Nat /\ r >= lo /\ r < q /\ f[r] = key  BY <1>5
    <3>5. ASSUME p - r < WindowSize PROVE FALSE
      <4>1. PICK c : c = p - r  OBVIOUS
      <4>2. c \in Nat /\ c >= 1 /\ c < WindowSize /\ p - c = r /\ d < c /\ c > d0
        BY <1>5, <1>1, <3>4, <3>5, <4>1, Sizes
      <4>3. c \in E  BY <1>3, <3>4, <4>2
      <4>4. QED BY <4>2, <4>3
    <3>6. p - r >= WindowSize  BY <3>4, <3>5, Sizes
    <3>7. QED BY <3>3, <3>6
  <2>3. QED BY <2>1, <2>2
<1>6. QED BY <1>12

(* The place of a distance among the others. *)
LEMMA NearerFacts ==
  ASSUME NEW E \in SUBSET Nat, IsFiniteSet(E), NEW d \in E
  PROVE  /\ Nearer(d, E) \in 1 .. Cardinality(E)
         /\ (\A e \in E : e >= d) => Nearer(d, E) = 1
         /\ (\A e \in E : e <= d) <=> Nearer(d, E) = Cardinality(E)
         /\ \A e \in E : d < e => Nearer(d, E) < Nearer(e, E)
<1> DEFINE Down(x) == {e \in E : e <= x}
<1>1. ASSUME NEW x \in E
      PROVE  /\ IsFiniteSet(Down(x)) /\ Cardinality(Down(x)) \in Nat
             /\ Cardinality(Down(x)) <= Cardinality(E) /\ Cardinality(E) \in Nat
             /\ Cardinality(Down(x)) >= 1
             /\ Cardinality(Down(x)) = Cardinality(E) => Down(x) = E
  <2>1. Down(x) \in SUBSET E  OBVIOUS
  <2>2. /\ IsFiniteSet(Down(x)) /\ Cardinality(Down(x)) <= Cardinality(E)
        /\ Cardinality(E) = Cardinality(Down(x)) => Down(x) = E
    BY <2>1, FS_Subset
  <2>3. x \in Down(x)  OBVIOUS
  <2>4. Cardinality(Down(x)) # 0  BY <2>2, <2>3, FS_EmptySet
  <2> HIDE DEF Down
  <2>5. QED BY <2>2, <2>4, FS_CardinalityType
<1>2. \A x : Nearer(x, E) = Cardinality(Down(x))  BY DEF Nearer
<1>3. (\A e \in E : e >= d) => Nearer(d, E) = 1
  <2>1. SUFFICES ASSUME \A e \in E : e >= d PROVE Cardinality(Down(d)) = 1  BY <1>2
  <2>2. d \in Nat /\ \A e \in E : e \in Nat  OBVIOUS
  <2>3. \A e \in E : e <= d <=> e = d  BY <2>1, <2>2
  <2>4. Down(d) = {d}  BY <2>3
  <2>5. QED BY <2>4, FS_Singleton
<1>4. (\A e \in E : e <= d) <=> Nearer(d, E) = Cardinality(E)
  <2>1. (\A e \in E : e <= d) <=> Down(d) = E  OBVIOUS
  <2> HIDE DEF Down
  <2>2. QED BY <1>1, <1>2, <2>1
<1>5. ASSUME NEW e \in E, d < e PROVE Nearer(d, E) < Nearer(e, E)
  <2>1. d \in Nat /\ e \in Nat /\ \A c \in E : c \in Nat  OBVIOUS
  <2>2. ~(e <= d) /\ e <= e /\ \A c \in E : c <= d => c <= e  BY <1>5, <2>1
  <2>3. Down(d) \in SUBSET Down(e) /\ e \in Down(e) /\ e \notin Down(d)  BY <2>2
  <2> HIDE DEF Down
  <2>4. /\ Cardinality(Down(d)) <= Cardinality(Down(e))
        /\ Cardinality(Down(e)) = Cardinality(Down(d)) => Down(e) = Down(d)
    BY <1>1, <2>3, FS_Subset
  <2>5. QED BY <1>1, <1>2, <2>3, <2>4
<1> HIDE DEF Down
<1>6. QED BY <1>1, <1>2, <1>3, <1>4, <1>5

LEMMA NextNearer ==
  ASSUME NEW E \in SUBSET Nat, IsFiniteSet(E), NEW d \in E, NEW e \in E, d < e,
         \A c \in E : ~(d < c /\ c < e)
  PROVE  Nearer(e, E) = Nearer(d, E) + 1
<1> DEFINE P == {c \in E : c <= d}
           Q == {c \in E : c <= e}
<1>1. Q = P \cup {e} /\ e \notin P
  <2>1. d \in Nat /\ e \in Nat /\ \A c \in E : c \in Nat  OBVIOUS
  <2>2. ~(e <= d) /\ \A c \in E : c <= e <=> c <= d \/ c = e  BY <2>1
  <2>3. QED BY <2>2
<1>2. IsFiniteSet(P)
  <2>1. P \in SUBSET E  OBVIOUS
  <2>2. QED BY <2>1, FS_Subset
<1> HIDE DEF P, Q
<1>3. Cardinality(Q) = Cardinality(P) + 1  BY <1>1, <1>2, FS_AddElement
<1>4. QED BY <1>3 DEF Nearer, P, Q

LEMMA SamePlace ==
  ASSUME NEW E \in SUBSET Nat, IsFiniteSet(E), NEW d \in E, NEW e \in E,
         Nearer(d, E) = Nearer(e, E)
  PROVE  d = e
<1>1. Nearer(d, E) \in 1 .. Cardinality(E)  BY NearerFacts
<1>2. Nearer(d, E) \in Nat  BY <1>1
<1>3. ~(d < e) /\ ~(e < d)  BY <1>2, NearerFacts
<1>4. QED BY <1>3

(* Node k of the chain is at the k-th of these distances. *)
AtNode(f, lo, p, d0, k, v) ==
  \E d \in Nat :
    /\ v = [slot |-> SlotOf(p - d), dist |-> d]
    /\ IF k = 0 THEN d = d0
       ELSE d \in Beyond(f, lo, p, d0) /\ Nearer(d, Beyond(f, lo, p, d0)) = k

LEMMA ChainWalk ==
  ASSUME NEW f, NEW lo \in Nat, NEW p \in Nat, lo <= p, NEW h, NEW hv, NEW link,
         ChainOk(f, lo, p + 1, h, hv, link),
         NEW d0 \in Nat, At0(p, lo, d0), NEW node,
         node[0] = [slot |-> SlotOf(p - d0), dist |-> d0],
         \A k \in 1 .. WindowSize : node[k] = After(link, node[k - 1])
  PROVE  \A k \in 0 .. Cardinality(Beyond(f, lo, p, d0)) : AtNode(f, lo, p, d0, k, node[k])
<1> DEFINE E == Beyond(f, lo, p, d0)
           c == Cardinality(E)
           S == {k \in Nat : k <= c => AtNode(f, lo, p, d0, k, node[k])}
<1>3. IsFiniteSet(E) /\ E \in SUBSET Nat /\ c \in Nat /\ c < WindowSize
  BY BeyondFinite
<1>a. \A e \in E : e > d0  BY InBeyond
<1>5. ASSUME NEW d \in Nat, NEW v, d = d0 \/ d \in E,
             v = [slot |-> SlotOf(p - d), dist |-> d],
             NEW e \in E, d < e, \A x \in E : ~(d < x /\ x < e)
      PROVE  After(link, v) = [slot |-> SlotOf(p - e), dist |-> e]
  BY <1>5, ChainStep
<1>b. \A k, v : AtNode(f, lo, p, d0, k, v) <=>
        \E d \in Nat : /\ v = [slot |-> SlotOf(p - d), dist |-> d]
                       /\ IF k = 0 THEN d = d0 ELSE d \in E /\ Nearer(d, E) = k
  BY DEF AtNode
<1> HIDE DEF E
<1>6. 0 \in S  BY <1>b
<1>7. ASSUME NEW k \in S PROVE k + 1 \in S
  <2>1. SUFFICES ASSUME k + 1 <= c PROVE AtNode(f, lo, p, d0, k + 1, node[k + 1])  OBVIOUS
  <2>2. k \in Nat /\ k <= c  BY <1>3, <2>1
  <2>3. PICK d \in Nat : /\ node[k] = [slot |-> SlotOf(p - d), dist |-> d]
                         /\ IF k = 0 THEN d = d0 ELSE d \in E /\ Nearer(d, E) = k
    BY <1>b, <2>2
  <2> DEFINE More == {e \in E : d < e}
  <2>4. More # {}
    <3>1. CASE k = 0
      <4>1. E # {}  BY <1>3, <2>1, <3>1, FS_EmptySet
      <4>2. d = d0 /\ \A e \in E : d < e  BY <1>3, <1>a, <2>3, <3>1
      <4>3. QED BY <4>1, <4>2
    <3>2. CASE k # 0
      <4>1. Nearer(d, E) # Cardinality(E)  BY <1>3, <2>1, <2>2, <2>3, <3>2
      <4>2. PICK e \in E : ~(e <= d)  BY <1>3, <2>3, <3>2, <4>1, NearerFacts
      <4>3. e \in Nat  BY <1>3
      <4>4. QED BY <4>2, <4>3
    <3>3. QED BY <3>1, <3>2
  <2>5. More \in SUBSET Nat  BY <1>3
  <2>6. PICK e \in More : \A x \in More : e <= x  BY <2>4, <2>5, LeastOf
  <2>7. e \in E /\ d < e /\ e \in Nat /\ \A x \in E : ~(d < x /\ x < e)
    <3>1. e \in E /\ d < e /\ e \in Nat  BY <1>3
    <3>2. \A x \in E : x \in Nat /\ (d < x => e <= x)  BY <1>3, <2>6
    <3>3. QED BY <3>1, <3>2
  <2> HIDE DEF More
  <2>8. Nearer(e, E) = k + 1
    <3>1. CASE k = 0
      <4>1. \A x \in E : x \in Nat /\ x > d /\ ~(d < x /\ x < e)
        BY <1>3, <1>a, <2>3, <2>7, <3>1
      <4>2. \A x \in E : x >= e  BY <2>7, <4>1
      <4>3. QED BY <1>3, <2>7, <3>1, <4>2, NearerFacts
    <3>2. CASE k # 0  BY <1>3, <2>3, <2>7, <3>2, NextNearer
    <3>3. QED BY <3>1, <3>2
  <2>9. node[k + 1] = After(link, node[k])
    <3>1. k + 1 \in 1 .. WindowSize /\ (k + 1) - 1 = k  BY <1>3, <2>1, <2>2, Sizes
    <3>2. QED BY <3>1
  <2>10. After(link, node[k]) = [slot |-> SlotOf(p - e), dist |-> e]
    BY <1>5, <2>3, <2>7
  <2>11. k + 1 # 0  BY <2>2
  <2>12. QED BY <1>b, <2>7, <2>8, <2>9, <2>10, <2>11
<1>8. S = Nat
  <2> HIDE DEF S
  <2>1. S \in SUBSET Nat  BY DEF S
  <2>2. QED BY <1>6, <1>7, <2>1, SetInduction
<1>9. ASSUME NEW k \in 0 .. c PROVE AtNode(f, lo, p, d0, k, node[k])
  <2>1. k \in Nat /\ k <= c  BY <1>3
  <2>2. k \in S  BY <1>8, <2>1
  <2>3. QED BY <2>1, <2>2
<1>10. QED BY <1>9 DEF E

(* The chain from distance d0 is the positions of the window beyond it     *)
(* with its hash and no others, nearest first, although nothing is removed *)
(* from a chain when its slot is taken over.                               *)
ChainHolds(C, E, p) ==
  /\ C \in Seq([slot : Slot, dist : Nat]) /\ Len(C) = Cardinality(E)
  /\ \A k \in 1 .. Len(C) : /\ C[k].dist \in E /\ Nearer(C[k].dist, E) = k
                            /\ C[k].slot = SlotOf(p - C[k].dist)

LEMMA ChainFrom ==
  ASSUME NEW f, NEW lo \in Nat, NEW p \in Nat, lo <= p, NEW h, NEW hv, NEW link,
         ChainOk(f, lo, p + 1, h, hv, link),
         NEW d0 \in Nat, At0(p, lo, d0)
  PROVE  ChainHolds(Chain(SlotOf(p - d0), d0, link), Beyond(f, lo, p, d0), p)
<1> DEFINE C == Chain(SlotOf(p - d0), d0, link)
           E == Beyond(f, lo, p, d0)
           c == Cardinality(E)
<1>3. IsFiniteSet(E) /\ E \in SUBSET Nat /\ c \in Nat /\ c < WindowSize
  BY BeyondFinite
<1>a. \A e \in E : e > d0 /\ e < WindowSize /\ p - e \in Nat
  <2>1. \A e \in Beyond(f, lo, p, d0) : e \in Nat /\ e > d0 /\ e < WindowSize /\ p - e >= lo
    BY InBeyond
  <2>2. QED BY <2>1
<1>4. PICK node : /\ node[0] = [slot |-> SlotOf(p - d0), dist |-> d0]
                  /\ \A k \in 1 .. WindowSize : node[k] = After(link, node[k - 1])
                  /\ C = [k \in 1 .. Min(Stops(node)) - 1 |-> node[k]]
  <2>1. SlotOf(p - d0) \in Slot /\ d0 \in Int /\ link \in [Slot -> Slot]
    BY SlotType DEF ChainOk
  <2>2. QED BY <2>1, ChainIs
<1>6. ASSUME NEW d \in Nat, NEW v, d = d0 \/ d \in E,
             v = [slot |-> SlotOf(p - d), dist |-> d], \A e \in E : ~(d < e)
      PROVE  After(link, v).slot = v.slot \/ After(link, v).dist >= WindowSize
  BY <1>6, ChainStop
<1>5. \A k \in 0 .. c : \E d \in Nat :
        /\ node[k] = [slot |-> SlotOf(p - d), dist |-> d]
        /\ IF k = 0 THEN d = d0 ELSE d \in E /\ Nearer(d, E) = k
  <2>a. node[0] = [slot |-> SlotOf(p - d0), dist |-> d0]  BY <1>4
  <2>b. \A k \in 1 .. WindowSize : node[k] = After(link, node[k - 1])  BY <1>4
  <2>1. \A k \in 0 .. c : AtNode(f, lo, p, d0, k, node[k])  BY <2>a, <2>b, ChainWalk
  <2>2. QED BY <2>1 DEF AtNode
<1> HIDE DEF C, E
<1>b. d0 < WindowSize /\ p - d0 \in Nat  BY DEF At0
<1>7. ASSUME NEW k \in 1 .. c PROVE k \notin Stops(node)
  <2>1. k \in 0 .. c /\ k - 1 \in 0 .. c /\ k # 0 /\ k \in Nat  BY <1>3
  <2>2. PICK d \in Nat : /\ node[k] = [slot |-> SlotOf(p - d), dist |-> d]
                         /\ d \in E /\ Nearer(d, E) = k
    BY <1>5, <2>1
  <2>3. PICK e \in Nat :
          /\ node[k - 1] = [slot |-> SlotOf(p - e), dist |-> e]
          /\ IF k - 1 = 0 THEN e = d0 ELSE e \in E /\ Nearer(e, E) = k - 1
    BY <1>5, <2>1
  <2>4. e < d /\ p - e \in Nat
    <3>1. CASE k - 1 = 0  BY <1>a, <1>b, <2>2, <2>3, <3>1
    <3>2. CASE k - 1 # 0
      <4>1. ~(d < e)  BY <1>3, <2>1, <2>2, <2>3, <3>2, NearerFacts
      <4>2. d # e  BY <2>1, <2>2, <2>3, <3>2
      <4>3. QED BY <1>a, <2>3, <3>2, <4>1, <4>2
    <3>3. QED BY <3>1, <3>2
  <2>5. p - d \in Nat /\ p - d < p - e /\ (p - e) - (p - d) < WindowSize
    BY <1>a, <2>2, <2>3, <2>4, Sizes
  <2>6. SlotOf(p - d) # SlotOf(p - e)  BY <2>4, <2>5, SlotsDiffer
  <2>7. node[k].slot # node[k - 1].slot /\ ~(node[k].dist >= WindowSize)
    BY <1>a, <2>2, <2>3, <2>6, Sizes
  <2>8. QED BY <2>7 DEF Stops
<1>8. c + 1 \in Stops(node)
  <2>1. c \in 0 .. c /\ c + 1 \in 1 .. WindowSize /\ (c + 1) - 1 = c  BY <1>3, Sizes
  <2>2. PICK d \in Nat : /\ node[c] = [slot |-> SlotOf(p - d), dist |-> d]
                         /\ IF c = 0 THEN d = d0 ELSE d \in E /\ Nearer(d, E) = c
    BY <1>5, <2>1
  <2>3. \A e \in E : ~(d < e)
    <3>1. CASE c = 0  BY <1>3, <3>1, FS_EmptySet
    <3>2. CASE c # 0
      <4>1. \A e \in E : e <= d  BY <1>3, <2>2, <3>2, NearerFacts
      <4>2. QED BY <1>3, <4>1
    <3>3. QED BY <3>1, <3>2
  <2>4. node[c + 1] = After(link, node[c])  BY <1>4, <2>1
  <2>5. node[c + 1].slot = node[c].slot \/ node[c + 1].dist >= WindowSize
    BY <1>6, <2>2, <2>3, <2>4
  <2>6. QED BY <2>1, <2>5 DEF Stops
<1>9. Min(Stops(node)) = c + 1
  <2>1. Stops(node) \in SUBSET (1 .. WindowSize)  BY DEF Stops
  <2>2. Stops(node) \in SUBSET Nat /\ Stops(node) # {}  BY <1>8, <2>1, Sizes
  <2>3. Min(Stops(node)) \in Stops(node) /\ Min(Stops(node)) <= c + 1
    BY <1>8, <2>2, MinOf
  <2>4. Min(Stops(node)) \in 1 .. WindowSize  BY <2>1, <2>3
  <2>5. Min(Stops(node)) \notin 1 .. c  BY <1>7, <2>3
  <2>6. QED BY <1>3, <2>3, <2>4, <2>5, Sizes
<1>10. C = [k \in 1 .. c |-> node[k]]
  <2>1. Min(Stops(node)) - 1 = c  BY <1>3, <1>9
  <2> HIDE DEF c
  <2>2. QED BY <1>4, <2>1
<1> HIDE DEF c
<1>11. ASSUME NEW k \in 1 .. c
       PROVE  /\ node[k] \in [slot : Slot, dist : Nat]
              /\ node[k].dist \in E /\ Nearer(node[k].dist, E) = k
              /\ node[k].slot = SlotOf(p - node[k].dist)
  <2>1. k \in 0 .. c /\ k # 0  BY <1>3
  <2>2. PICK d \in Nat : /\ node[k] = [slot |-> SlotOf(p - d), dist |-> d]
                         /\ d \in E /\ Nearer(d, E) = k
    BY <1>5, <2>1
  <2>3. SlotOf(p - d) \in Slot  BY <1>a, <2>2, SlotType
  <2>4. QED BY <2>2, <2>3
<1>12. C \in Seq([slot : Slot, dist : Nat]) /\ Len(C) = c
  <2> DEFINE R == [slot : Slot, dist : Nat]
  <2>1. \A k \in 1 .. c : node[k] \in R  BY <1>11
  <2> HIDE DEF R
  <2>2. C \in [1 .. c -> R]  BY <1>10, <2>1
  <2>3. C \in Seq(R) /\ Len(C) = c  BY <1>3, <2>2
  <2>4. QED BY <2>3 DEF R
<1>13. ASSUME NEW k \in 1 .. c
       PROVE  /\ C[k].dist \in E /\ Nearer(C[k].dist, E) = k
              /\ C[k].slot = SlotOf(p - C[k].dist)
  <2>1. C[k] = node[k]  BY <1>10
  <2>2. QED BY <1>11, <2>1
<1>14. QED BY <1>12, <1>13 DEF c, C, E, ChainHolds

-----------------------------------------------------------------------------
(* The two hashes.                                                         *)
Run(p) == CHOOSE n \in Nat : Exact(p, n)

LEMMA RunIs ==
  ASSUME text \in Seq(Byte), NEW p \in Nat, NEW n, Exact(p, n)
  PROVE  Run(p) = n
<1>1. \A a, b \in Nat : Exact(p, a) /\ Exact(p, b) => ~(a < b)
  <2> SUFFICES ASSUME NEW a \in Nat, NEW b \in Nat, Exact(p, a), Exact(p, b), a < b
               PROVE  FALSE
    OBVIOUS
  <2>1. Size \in Nat  BY DEF Size
  <2>2. /\ a + 1 \in 1 .. b /\ p + (a + 1) = p + a + 1 /\ b <= MaxSame /\ p + b < Size
    BY DEF Exact
  <2>3. At(p + a + 1) = At(p)  BY <2>2 DEF Exact
  <2>4. a # MaxSame /\ p + a + 1 # Size  BY <2>1, <2>2, Sizes
  <2>5. QED BY <2>3, <2>4 DEF Exact
<1>2. n \in Nat  BY DEF Exact
<1>3. \A a \in Nat : Exact(p, a) => a = n
  <2>1. SUFFICES ASSUME NEW a \in Nat, Exact(p, a) PROVE a = n  OBVIOUS
  <2>2. ~(a < n) /\ ~(n < a)  BY <1>1, <1>2, <2>1
  <2>3. QED BY <1>2, <2>2
<1>4. QED BY <1>2, <1>3 DEF Run

V1 == [p \in Nat |-> val(p)]
V2 == [p \in Nat |-> SameHash(val(p), Run(p))]

KInv ==
  /\ SInv
  /\ ChainOk(V1, windowstart, i, head, hashval, prev)
  /\ ChainOk(V2, windowstart, i, head2, hashval2, prev2)

LEMMA ValType ==
  ASSUME Place, NEW p \in Nat
  PROVE  val(p) \in Keys
<1>1. text \in Seq(Byte) /\ Size \in Nat  BY DEF Place, Size
<1>2. \A q \in Nat : At(q) \in Byte
  <2>1. SUFFICES ASSUME NEW q \in Nat, q < Size PROVE text[q + 1] \in Byte
    BY MatchAssumption DEF At
  <2>2. q + 1 \in 1 .. Len(text)  BY <1>1, <2>1 DEF Size
  <2>3. QED BY <1>1, <2>2
<1>3. At(p) \in Byte /\ At(p + 1) \in Byte /\ At(p + 2) \in Byte  BY <1>2
<1>4. QED BY <1>3, MatchAssumption DEF val

LEMMA InitChain == Init => KInv
<1> SUFFICES ASSUME Init PROVE KInv  OBVIOUS
<1>1. SInv  BY InitSame
<1>2. i = windowstart /\ windowstart \in Nat  BY <1>1, WindowStart DEF Init, SInv, Place
<1>3. /\ head = NoHead /\ hashval = NoValue /\ prev = NoLink
      /\ head2 = NoHead /\ hashval2 = NoValue /\ prev2 = NoLink
  BY DEF Init
<1>4. QED BY <1>1, <1>2, <1>3, ChainEmpty DEF KInv

LEMMA NextChain == KInv /\ [Next]_vars => KInv'
<1> SUFFICES ASSUME KInv, [Next]_vars PROVE KInv'  OBVIOUS
<1>0. /\ SInv /\ SInv' /\ Place /\ windowstart \in Nat /\ i \in Nat /\ windowstart <= i
      /\ text \in Seq(Byte)
  BY NextSame, WindowStart DEF KInv, SInv, Place
<1>1. CASE Update
  <2>1. /\ i < Size /\ i' = i + 1 /\ windowstart' = windowstart /\ text' = text
    BY <1>1 DEF Update, windowstart
  <2>2. V1' = V1 /\ V2' = V2
    BY <2>1 DEF V1, V2, val, Run, Exact, At, Size
  <2>3. val(i) \in Keys /\ V1[i] = val(i)  BY <1>0, ValType DEF V1
  <2>4. Exact(i, Repetitions(i))  BY <1>0, <2>1, RepetitionsExact
  <2>5. Run(i) = Repetitions(i)  BY <1>0, <2>4, RunIs
  <2>6. V2[i] = SameHash(val(i), Repetitions(i))  BY <1>0, <2>5 DEF V2
  <2>7. V2[i] \in Keys
    <3>1. Repetitions(i) \in 0 .. MaxSame  BY <2>4, Sizes DEF Exact
    <3>2. QED BY <2>3, <2>6, <3>1, MatchAssumption
  <2>8. ChainOk(V1, windowstart, i + 1, head', hashval', prev')
    <3>1. /\ hashval' = [hashval EXCEPT ![SlotOf(i)] = V1[i]]
          /\ prev' = [prev EXCEPT ![SlotOf(i)] = Linked(head, hashval', V1[i], SlotOf(i))]
          /\ head' = [head EXCEPT ![V1[i]] = SlotOf(i)]
      BY <1>1, <2>3 DEF Update
    <3>2. ChainOk(V1, windowstart, i, head, hashval, prev) /\ V1[i] \in Keys
      BY <2>3 DEF KInv
    <3>3. QED BY <1>0, <3>1, <3>2, ChainGrows
  <2>9. ChainOk(V2, windowstart, i + 1, head2', hashval2', prev2')
    <3>1. /\ hashval2' = [hashval2 EXCEPT ![SlotOf(i)] = V2[i]]
          /\ prev2' = [prev2 EXCEPT ![SlotOf(i)] = Linked(head2, hashval2', V2[i], SlotOf(i))]
          /\ head2' = [head2 EXCEPT ![V2[i]] = SlotOf(i)]
      BY <1>1, <2>6 DEF Update
    <3>2. ChainOk(V2, windowstart, i, head2, hashval2, prev2)  BY DEF KInv
    <3>3. QED BY <1>0, <2>7, <3>1, <3>2, ChainGrows
  <2>10. QED BY <1>0, <2>1, <2>2, <2>8, <2>9 DEF KInv
<1>2. CASE Rewind
  <2>1. /\ i' = windowstart' /\ head' = NoHead /\ hashval' = NoValue /\ prev' = NoLink
        /\ head2' = NoHead /\ hashval2' = NoValue /\ prev2' = NoLink
        /\ windowstart' = windowstart
    BY <1>2 DEF Rewind, windowstart
  <2>2. windowstart' \in Nat  BY <1>0, <2>1
  <2>3. \A f : ChainOk(f, windowstart', windowstart', NoHead, NoValue, NoLink)
    BY <2>2, ChainEmpty
  <2>4. QED BY <1>0, <2>1, <2>3 DEF KInv
<1>3. ASSUME UNCHANGED <<text, instart, i, hash>> PROVE KInv'
  <2>1. /\ text' = text /\ windowstart' = windowstart /\ i' = i
        /\ head' = head /\ hashval' = hashval /\ prev' = prev
        /\ head2' = head2 /\ hashval2' = hashval2 /\ prev2' = prev2
    BY <1>3 DEF hash, windowstart
  <2>2. V1' = V1 /\ V2' = V2
    BY <2>1 DEF V1, V2, val, Run, Exact, At, Size
  <2>3. QED BY <1>0, <2>1, <2>2 DEF KInv
<1>4. CASE Find  BY <1>3, <1>4 DEF Find
<1>5. CASE UNCHANGED vars  BY <1>3, <1>5 DEF vars
<1>6. QED BY <1>1, <1>2, <1>4, <1>5 DEF Next

(* The chain of a position that was just hashed has all the positions of   *)
(* the window with its hash and no others, although nothing is removed     *)
(* from a chain when its slot is taken over.                               *)
THEOREM AlwaysWindow == Spec => []ChainIsWindow
<1>1. ASSUME KInv PROVE ChainIsWindow
  <2> DEFINE p == i - 1
             C == Chain(SlotOf(p), 0, prev)
             E == {d \in 1 .. Least(p - windowstart, WindowSize - 1) : val(p - d) = val(p)}
             B == Beyond(V1, windowstart, p, 0)
  <2>0. SUFFICES ASSUME i > windowstart
                 PROVE  Len(C) = Cardinality(E) /\ \A d \in E : C[Nearer(d, E)].dist = d
    BY DEF ChainIsWindow
  <2>1. i \in Nat /\ windowstart \in Nat
    BY <1>1, WindowStart DEF KInv, SInv, Place
  <2>2. p \in Nat /\ windowstart <= p /\ p + 1 = i /\ p - 0 = p  BY <2>0, <2>1
  <2>3. ChainOk(V1, windowstart, p + 1, head, hashval, prev)  BY <1>1, <2>2 DEF KInv
  <2> HIDE DEF p
  <2>4. At0(p, windowstart, 0)  BY <2>1, <2>2, Sizes DEF At0
  <2>5. ChainHolds(C, B, p)  BY <2>1, <2>2, <2>3, <2>4, ChainFrom
  <2>6. E = B
    <3>1. \A d \in 1 .. Least(p - windowstart, WindowSize - 1) :
             p - d \in Nat /\ d > 0 /\ V1[p - d] = val(p - d) /\ V1[p - 0] = val(p)
      BY <2>1, <2>2, Sizes DEF Least, V1
    <3>2. QED BY <3>1 DEF Beyond
  <2>7. IsFiniteSet(B) /\ B \in SUBSET Nat  BY <2>1, <2>2, BeyondFinite
  <2> HIDE DEF B, C, E
  <2>8. ASSUME NEW d \in B PROVE C[Nearer(d, B)].dist = d
    <3>1. Nearer(d, B) \in 1 .. Len(C)  BY <2>5, <2>7, NearerFacts DEF ChainHolds
    <3>2. C[Nearer(d, B)].dist \in B /\ Nearer(C[Nearer(d, B)].dist, B) = Nearer(d, B)
      BY <2>5, <3>1 DEF ChainHolds
    <3>3. QED BY <2>7, <3>2, SamePlace
  <2>9. QED BY <2>5, <2>6, <2>8 DEF ChainHolds
<1>2. Spec => []KInv  BY InitChain, NextChain, PTL DEF Spec
<1>3. QED BY <1>1, <1>2, PTL

-----------------------------------------------------------------------------
(* Matches of the position p that was hashed last.                         *)
Here(p) == KInv /\ i > windowstart /\ p = i - 1

LEMMA HereIs ==
  ASSUME NEW p, Here(p)
  PROVE  /\ text \in Seq(Byte) /\ p \in Nat /\ windowstart \in Nat /\ windowstart <= p
         /\ Size \in Nat /\ p < Size
         /\ ChainOk(V1, windowstart, p + 1, head, hashval, prev)
         /\ ChainOk(V2, windowstart, p + 1, head2, hashval2, prev2)
         /\ \A q \in Nat : q >= windowstart /\ q <= p /\ p - q < WindowSize
                             => Exact(q, same[SlotOf(q)])
<1>1. /\ text \in Seq(Byte) /\ i \in Nat /\ windowstart \in Nat /\ i > windowstart
      /\ i <= Size /\ p = i - 1
  BY WindowStart DEF Here, KInv, SInv, Place
<1>2. /\ p \in Nat /\ windowstart <= p /\ p + 1 = i /\ Size \in Nat /\ p < Size
  BY <1>1 DEF Size
<1>3. ASSUME NEW q \in Nat, q >= windowstart, q <= p, p - q < WindowSize
      PROVE  Exact(q, same[SlotOf(q)])
  <2>1. q \in windowstart .. i - 1 /\ q >= i - WindowSize  BY <1>1, <1>2, <1>3, Sizes
  <2>2. QED BY <2>1 DEF Here, KInv, SInv
<1>4. QED BY <1>1, <1>2, <1>3 DEF Here, KInv

LEMMA ReachesIs ==
  ASSUME NEW p \in Nat, windowstart \in Nat, windowstart <= p, NEW l \in Nat, NEW d
  PROVE  d \in Reaches(p, l) <=>
           /\ d \in Nat /\ d >= 1 /\ d < WindowSize /\ p - d >= windowstart
           /\ p + l <= Size /\ Agree(p, p - d, l)
<1>1. d \in 1 .. Least(p - windowstart, WindowSize - 1)
        <=> d \in Nat /\ d >= 1 /\ d < WindowSize /\ p - d >= windowstart
  BY Sizes DEF Least
<1>2. QED BY <1>1 DEF Reaches

LEMMA ReachesLess ==
  ASSUME NEW p \in Nat, windowstart \in Nat, windowstart <= p, Size \in Nat,
         NEW l \in Nat, NEW m \in Nat, m <= l, NEW d \in Reaches(p, l)
  PROVE  d \in Reaches(p, m)
<1>1. /\ d \in Nat /\ d >= 1 /\ d < WindowSize /\ p - d >= windowstart
      /\ p + l <= Size /\ Agree(p, p - d, l)
  BY ReachesIs
<1>2. p + m <= Size /\ Agree(p, p - d, m)  BY <1>1 DEF Agree
<1>3. QED BY <1>1, <1>2, ReachesIs

LEMMA MaxOf ==
  ASSUME NEW B \in Nat, NEW S \in SUBSET (0 .. B), S # {}
  PROVE  Max(S) \in S /\ \A y \in S : Max(S) >= y
<1> DEFINE D == {d \in Nat : d <= B /\ B - d \in S}
<1>1. D # {}
  <2>1. PICK x \in S : TRUE  OBVIOUS
  <2>2. B - x \in Nat /\ B - x <= B /\ B - (B - x) = x  OBVIOUS
  <2>3. QED BY <2>2
<1>2. PICK d \in D : \A e \in D : d <= e  BY <1>1, LeastOf
<1>3. B - d \in S  BY <1>2
<1>4. ASSUME NEW y \in S PROVE B - d >= y
  <2>1. B - y \in Nat /\ B - y <= B /\ B - (B - y) = y  OBVIOUS
  <2>2. B - y \in D  BY <2>1
  <2>3. d <= B - y /\ d \in Nat  BY <1>2, <2>2
  <2>4. y \in Nat  OBVIOUS
  <2>5. QED BY <2>1, <2>3, <2>4
<1>5. \E x \in S : \A y \in S : x >= y  BY <1>3, <1>4
<1>6. QED BY <1>5 DEF Max

(* The bytes in common are those that a comparison of the text finds, also *)
(* where repetitions are passed over.                                      *)
LEMMA CommonIs ==
  ASSUME NEW p, Here(p), NEW d \in Nat, d >= 1, d < WindowSize, p - d >= windowstart,
         NEW limit \in Nat, p + limit <= Size, NEW c, c = Common(p, d, limit)
  PROVE  c \in 0 .. limit /\ \A l \in 0 .. limit : l <= c <=> d \in Reaches(p, l)
<1> DEFINE same0 == same[SlotOf(p)]
           same1 == same[SlotOf(p - d)]
           jump == same0 > 2 /\ At(p) = At(p - d)
           skip == IF jump THEN Least(Least(same0, same1), limit) ELSE 0
           S == {l \in skip .. limit : \A m \in skip .. l - 1 : At(p + m) = At(p + m - d)}
<1>1. /\ p \in Nat /\ windowstart \in Nat /\ windowstart <= p /\ Size \in Nat /\ p < Size
      /\ \A q \in Nat : q >= windowstart /\ q <= p /\ p - q < WindowSize
                          => Exact(q, same[SlotOf(q)])
  BY HereIs
<1>2. p - d \in Nat /\ p - (p - d) < WindowSize /\ p - p < WindowSize  BY <1>1, Sizes
<1>3. Exact(p, same0) /\ Exact(p - d, same1)  BY <1>1, <1>2
<1>4. c = Max(S)  BY DEF Common
<1>5. /\ same0 \in Nat /\ same1 \in Nat
      /\ \A m \in 1 .. same0 : At(p + m) = At(p)
      /\ \A m \in 1 .. same1 : At(p - d + m) = At(p - d)
  BY <1>3 DEF Exact
<1> HIDE DEF same0, same1
<1>6. /\ skip \in Nat /\ skip <= limit
      /\ jump => skip <= same0 /\ skip <= same1
      /\ ~jump => skip = 0
  BY <1>5 DEF Least
<1> HIDE DEF skip
<1>7. ASSUME NEW m \in Nat, m < skip PROVE At(p + m) = At(p - d + m)
  <2>1. jump /\ m <= same0 /\ m <= same1  BY <1>5, <1>6, <1>7
  <2>2. CASE m = 0
    <3>1. p + m = p /\ p - d + m = p - d  BY <1>1, <1>2, <2>2
    <3>2. QED BY <2>1, <3>1
  <2>3. CASE m # 0
    <3>1. m \in 1 .. same0 /\ m \in 1 .. same1  BY <1>5, <2>1, <2>3
    <3>2. QED BY <1>5, <2>1, <3>1
  <2>4. QED BY <2>2, <2>3
<1>8. \A m \in Nat : p + m - d = p - d + m  BY <1>1
<1>9. \A l : l \in S <=> l \in skip .. limit /\ \A m \in skip .. l - 1 : At(p + m) = At(p + m - d)
  OBVIOUS
<1> HIDE DEF S, jump
<1>10. skip \in S /\ S \in SUBSET (0 .. limit)
  <2>1. skip .. skip - 1 = {} /\ skip \in skip .. limit  BY <1>6
  <2>2. QED BY <1>6, <1>9, <2>1
<1>11. c \in S /\ \A y \in S : c >= y  BY <1>4, <1>10, MaxOf
<1>12. c \in Nat /\ c <= limit /\ skip <= c  BY <1>6, <1>10, <1>11
<1>13. ASSUME NEW m \in 0 .. c - 1 PROVE At(p + m) = At(p - d + m)
  <2>1. m \in Nat  OBVIOUS
  <2>2. CASE m < skip  BY <1>7, <2>1, <2>2
  <2>3. CASE ~(m < skip)
    <3>1. m \in skip .. c - 1  BY <1>6, <1>12, <2>3
    <3>2. QED BY <1>8, <1>9, <1>11, <2>1, <3>1
  <2>4. QED BY <2>2, <2>3
<1>14. ASSUME NEW l \in 0 .. limit, l <= c PROVE d \in Reaches(p, l)
  <2>1. \A m \in 0 .. l - 1 : m \in 0 .. c - 1  BY <1>12, <1>14
  <2>2. \A m \in 0 .. l - 1 : At(p + m) = At(p - d + m)  BY <1>13, <2>1
  <2>3. p + l <= Size /\ l \in Nat  BY <1>1
  <2>4. Agree(p, p - d, l)  BY <2>2 DEF Agree
  <2>5. QED BY <1>1, <2>3, <2>4, ReachesIs
<1>15. ASSUME NEW l \in 0 .. limit, d \in Reaches(p, l) PROVE l <= c
  <2>a. l \in Nat /\ Agree(p, p - d, l)  BY <1>1, <1>15, ReachesIs
  <2>1. l \in Nat /\ \A m \in 0 .. l - 1 : At(p + m) = At(p - d + m)
    BY <2>a DEF Agree
  <2>2. CASE l < skip  BY <1>6, <1>12, <2>2
  <2>3. CASE ~(l < skip)
    <3>1. l \in skip .. limit  BY <1>6, <2>1, <2>3
    <3>2. \A m \in skip .. l - 1 : m \in 0 .. l - 1 /\ m \in Nat  BY <1>6, <2>1
    <3>3. \A m \in skip .. l - 1 : At(p + m) = At(p + m - d)  BY <1>8, <2>1, <3>2
    <3>4. l \in S  BY <1>9, <3>1, <3>3
    <3>5. QED BY <1>11, <1>12, <2>1, <3>4
  <2>4. QED BY <2>2, <2>3
<1>16. QED BY <1>12, <1>14, <1>15

-----------------------------------------------------------------------------
(* What the search visits.  Nodes are in the window, nearest first, and    *)
(* have the nearest distance for every length.                             *)
Node == [slot : Slot, dist : Nat]

Rising(N) == \A j, k \in 1 .. Len(N) : j < k => N[j].dist < N[k].dist

InWindow(p, d) == d \in Nat /\ d >= 1 /\ d < WindowSize /\ p - d >= windowstart

Covers(p, limit, N) ==
  \A l \in MinMatch .. limit : \A d \in Reaches(p, l) :
    (\A e \in Reaches(p, l) : d <= e) => \E k \in 1 .. Len(N) : N[k].dist = d

RisesThrough(C, E, p) ==
  /\ C \in Seq(Node) /\ Rising(C)
  /\ \A k \in 1 .. Len(C) : C[k].dist \in E /\ C[k].slot = SlotOf(p - C[k].dist)
  /\ \A d \in E : \E k \in 1 .. Len(C) : C[k].dist = d

LEMMA ChainRises ==
  ASSUME NEW f, NEW lo \in Nat, NEW p \in Nat, lo <= p, NEW d0 \in Nat,
         NEW C, ChainHolds(C, Beyond(f, lo, p, d0), p)
  PROVE  RisesThrough(C, Beyond(f, lo, p, d0), p)
<1> DEFINE E == Beyond(f, lo, p, d0)
<1>1. IsFiniteSet(E) /\ E \in SUBSET Nat /\ Cardinality(E) \in Nat  BY BeyondFinite
<1>2. /\ C \in Seq(Node) /\ Len(C) = Cardinality(E)
      /\ \A k \in 1 .. Len(C) : /\ C[k].dist \in E /\ Nearer(C[k].dist, E) = k
                                /\ C[k].slot = SlotOf(p - C[k].dist)
  BY DEF ChainHolds, Node
<1> HIDE DEF E
<1>3. ASSUME NEW j \in 1 .. Len(C), NEW k \in 1 .. Len(C), j < k
      PROVE  C[j].dist < C[k].dist
  <2>1. PICK d, e : d = C[j].dist /\ e = C[k].dist  OBVIOUS
  <2>2. d \in E /\ e \in E /\ Nearer(d, E) = j /\ Nearer(e, E) = k  BY <1>2, <2>1
  <2>3. ~(e < d)
    <3>1. e < d => Nearer(e, E) < Nearer(d, E)  BY <1>1, <2>2, NearerFacts
    <3>2. QED BY <1>3, <2>2, <3>1
  <2>4. d # e /\ d \in Nat /\ e \in Nat  BY <1>1, <1>3, <2>2
  <2>5. QED BY <2>1, <2>3, <2>4
<1>4. ASSUME NEW d \in E PROVE \E k \in 1 .. Len(C) : C[k].dist = d
  <2>1. PICK k : k = Nearer(d, E)  OBVIOUS
  <2>2. k \in 1 .. Len(C)  BY <1>1, <1>2, <2>1, NearerFacts
  <2>3. C[k].dist \in E /\ Nearer(C[k].dist, E) = Nearer(d, E)  BY <1>2, <2>1, <2>2
  <2>4. C[k].dist = d  BY <1>1, <2>3, SamePlace
  <2>5. QED BY <2>2, <2>4
<1>5. QED BY <1>2, <1>3, <1>4 DEF Rising, RisesThrough, E

(* Why the second hash may be taken: beyond a match of all the repetitions *)
(* the nearest position for a longer one has the same repetitions.  With   *)
(* fewer it would not match, with more the position after it would.        *)
LEMMA SwitchIsSafe ==
  ASSUME NEW p, Here(p), NEW l \in Nat, l >= MinMatch, l <= MaxMatch,
         NEW d \in Reaches(p, l), \A e \in Reaches(p, l) : d <= e, d > 1,
         same[SlotOf(p)] < l
  PROVE  V2[p - d] = V2[p]
<1> DEFINE q == p - d
           n == same[SlotOf(p)]
           r == same[SlotOf(q)]
<1>1. /\ text \in Seq(Byte)
      /\ p \in Nat /\ windowstart \in Nat /\ windowstart <= p /\ Size \in Nat /\ p < Size
      /\ \A x \in Nat : x >= windowstart /\ x <= p /\ p - x < WindowSize
                          => Exact(x, same[SlotOf(x)])
  BY HereIs
<1>2. /\ d \in Nat /\ d >= 1 /\ d < WindowSize /\ p - d >= windowstart
      /\ p + l <= Size /\ Agree(p, p - d, l)
  BY <1>1, ReachesIs
<1>3. /\ q \in Nat /\ q >= windowstart /\ q <= p /\ p - q < WindowSize /\ p - p < WindowSize
      /\ q + d = p
  BY <1>1, <1>2, Sizes
<1>4. Exact(p, n) /\ Exact(q, r)  BY <1>1, <1>3
<1>5. \A m \in Nat : m < l => At(p + m) = At(q + m)  BY <1>2 DEF Agree
<1>a. n < l  OBVIOUS
<1> HIDE DEF q, n, r
<1>6. /\ n \in Nat /\ n <= MaxSame /\ p + n < Size
      /\ \A m \in 1 .. n : At(p + m) = At(p)
      /\ n = MaxSame \/ p + n + 1 = Size \/ At(p + n + 1) # At(p)
      /\ r \in Nat /\ r <= MaxSame
      /\ \A m \in 1 .. r : At(q + m) = At(q)
      /\ r = MaxSame \/ q + r + 1 = Size \/ At(q + r + 1) # At(q)
  BY <1>4 DEF Exact
<1>7. MaxMatch \in Nat /\ MaxMatch <= MaxSame /\ MaxSame \in Nat  BY MatchAssumption
<1>8. n < MaxSame  BY <1>6, <1>7, <1>a
<1>9. At(p) = At(q)
  <2>1. p + 0 = p /\ q + 0 = q /\ 0 < l  BY <1>1, <1>3 DEF MinMatch
  <2>2. QED BY <1>5, <2>1
<1>10. ASSUME r < n PROVE FALSE
  <2>1. r + 1 \in 1 .. n /\ r + 1 \in Nat /\ r + 1 < l  BY <1>6, <1>10, <1>a
  <2>2. At(q + (r + 1)) = At(q)  BY <1>5, <1>6, <1>9, <2>1
  <2>3. q + (r + 1) = q + r + 1 /\ r # MaxSame /\ q + r + 1 # Size
    BY <1>1, <1>3, <1>6, <1>8, <1>10
  <2>4. QED BY <1>6, <2>2, <2>3
<1>11. ASSUME r > n PROVE FALSE
  <2>1. \A m \in 0 .. n + 1 : At(q + m) = At(q)
    <3>1. \A m \in 0 .. n + 1 : m = 0 \/ m \in 1 .. r  BY <1>6, <1>11
    <3>2. q + 0 = q  BY <1>3
    <3>3. QED BY <1>6, <3>1, <3>2
  <2>2. CASE l > n + 1
    <3>1. At(p + (n + 1)) = At(p)
      <4>1. n + 1 \in 0 .. n + 1 /\ n + 1 \in Nat  BY <1>6
      <4>2. QED BY <1>5, <1>9, <2>1, <2>2, <4>1
    <3>2. p + (n + 1) = p + n + 1 /\ p + n + 1 # Size  BY <1>1, <1>2, <1>6, <2>2
    <3>3. QED BY <1>6, <1>8, <3>1, <3>2
  <2>3. CASE ~(l > n + 1)
    <3>1. l = n + 1  BY <1>6, <1>a, <2>3
    <3>2. PICK e : e = d - 1  OBVIOUS
    <3>3. /\ e \in Nat /\ e >= 1 /\ e < WindowSize /\ p - e >= windowstart
          /\ p - e = q + 1 /\ ~(d <= e)
      BY <1>1, <1>2, <1>3, <3>2, Sizes
    <3>4. ASSUME NEW m \in 0 .. l - 1 PROVE At(p + m) = At(p - e + m)
      <4>1. m + 1 \in 0 .. n + 1 /\ m \in 0 .. n + 1 /\ m \in Nat /\ m < l
            /\ p - e + m = q + (m + 1)
        BY <1>3, <1>6, <3>1, <3>3
      <4>2. At(q + (m + 1)) = At(q) /\ At(q + m) = At(q)  BY <2>1, <4>1
      <4>3. QED BY <1>5, <4>1, <4>2
    <3>5. Agree(p, p - e, l)  BY <3>4 DEF Agree
    <3>6. e \in Reaches(p, l)  BY <1>1, <1>2, <3>3, <3>5, ReachesIs
    <3>7. QED BY <3>3, <3>6
  <2>4. QED BY <2>2, <2>3
<1>12. r = n  BY <1>6, <1>10, <1>11
<1>13. Run(p) = n /\ Run(q) = n  BY <1>1, <1>3, <1>4, <1>12, RunIs
<1>14. val(p) = val(q)
  <2>1. 1 < l /\ 2 < l /\ 1 \in Nat /\ 2 \in Nat  BY DEF MinMatch
  <2>2. At(p + 1) = At(q + 1) /\ At(p + 2) = At(q + 2)  BY <1>5, <2>1
  <2>3. QED BY <1>9, <2>2 DEF val
<1>15. V2[q] = V2[p]  BY <1>1, <1>3, <1>13, <1>14 DEF V2
<1>16. QED BY <1>15 DEF q

(* The positions of the window with a hash of position p.  A text is       *)
(* sparse if there never are more of them than the search may visit:       *)
(* "limit the max hash chain hits for this hash value. This has an effect  *)
(* only on files where the hash value is the same very often. On these     *)
(* files, this gives worse compression" (util.h, line 73).                 *)
Alike(p) ==
  {d \in 1 .. Least(p - windowstart, WindowSize - 1) :
     V1[p - d] = V1[p] \/ V2[p - d] = V2[p]}

Sparse == \A p \in windowstart .. Size - 1 : Cardinality(Alike(p)) <= ChainHits

LEMMA AlikeIs ==
  ASSUME NEW p \in Nat, windowstart \in Nat, windowstart <= p
  PROVE  /\ IsFiniteSet(Alike(p))
         /\ \A d : InWindow(p, d) /\ (V1[p - d] = V1[p] \/ V2[p - d] = V2[p]) => d \in Alike(p)
<1> DEFINE m == Least(p - windowstart, WindowSize - 1)
<1>1. m \in Nat  BY Sizes DEF Least
<1>2. Alike(p) \in SUBSET (1 .. m)  BY DEF Alike
<1>3. \A d : InWindow(p, d) => d \in 1 .. m  BY Sizes DEF Least, InWindow
<1>4. \A d : InWindow(p, d) /\ (V1[p - d] = V1[p] \/ V2[p - d] = V2[p]) => d \in Alike(p)
  BY <1>3 DEF Alike
<1> HIDE DEF m
<1>5. IsFiniteSet(1 .. m)  BY <1>1, FS_Interval
<1>6. QED BY <1>2, <1>4, <1>5, FS_Subset

LEMMA RisingShort ==
  ASSUME NEW N \in Seq(Node), Rising(N), NEW T, IsFiniteSet(T),
         \A k \in 1 .. Len(N) : N[k].dist \in T
  PROVE  Len(N) <= Cardinality(T)
<1> DEFINE n == Len(N)
           f == [k \in 1 .. n |-> N[k].dist]
<1>1. n \in Nat  OBVIOUS
<1>3. f \in [1 .. n -> T]  OBVIOUS
<1>4. \A j, k \in 1 .. n : j < k => f[j] # f[k]
  <2> SUFFICES ASSUME NEW j \in 1 .. n, NEW k \in 1 .. n, j < k PROVE f[j] # f[k]
    OBVIOUS
  <2>1. N[j].dist < N[k].dist  BY DEF Rising
  <2>2. N[j] \in Node /\ N[k] \in Node  OBVIOUS
  <2>3. N[j].dist \in Nat /\ N[k].dist \in Nat  BY <2>2 DEF Node
  <2>4. QED BY <2>1, <2>3
<1> HIDE DEF f, n
<1>2. IsFiniteSet(1 .. n) /\ Cardinality(1 .. n) = n
  <2>1. 1 \in Int /\ n \in Int  BY <1>1
  <2>2. IsFiniteSet(1 .. n) /\ Cardinality(1 .. n) = IF 1 <= n THEN n - 1 + 1 ELSE 0
    BY <2>1, FS_Interval
  <2>3. QED BY <1>1, <2>2
<1>5. SUFFICES ASSUME ~(n <= Cardinality(T)) PROVE FALSE  BY DEF n
<1>6. Cardinality(T) < Cardinality(1 .. n)
  <2>1. Cardinality(T) \in Nat  BY FS_CardinalityType
  <2>2. QED BY <1>1, <1>2, <1>5, <2>1
<1>7. PICK j, k \in 1 .. n : j # k /\ f[j] = f[k]  BY <1>2, <1>3, <1>6, FS_PigeonHole
<1>8. j < k \/ k < j  BY <1>1, <1>7
<1>9. QED BY <1>4, <1>7, <1>8

(* The chain of the first hash has all matches.                            *)
LEMMA FirstChain ==
  ASSUME NEW p, Here(p), NEW C, C = Chain(SlotOf(p), 0, prev)
  PROVE  /\ C \in Seq(Node) /\ Rising(C)
         /\ \A k \in 1 .. Len(C) : /\ InWindow(p, C[k].dist) /\ V1[p - C[k].dist] = V1[p]
                                   /\ C[k].slot = SlotOf(p - C[k].dist)
         /\ \A d : InWindow(p, d) /\ V1[p - d] = V1[p] => \E k \in 1 .. Len(C) : C[k].dist = d
<1>1. /\ p \in Nat /\ windowstart \in Nat /\ windowstart <= p
      /\ ChainOk(V1, windowstart, p + 1, head, hashval, prev)
  BY HereIs
<1>2. p - 0 = p /\ At0(p, windowstart, 0)  BY <1>1, Sizes DEF At0
<1>3. PICK E : E = Beyond(V1, windowstart, p, 0)  OBVIOUS
<1>4. ChainHolds(C, Beyond(V1, windowstart, p, 0), p)  BY <1>1, <1>2, ChainFrom
<1>5. /\ C \in Seq(Node) /\ Rising(C)
      /\ \A k \in 1 .. Len(C) : C[k].dist \in E /\ C[k].slot = SlotOf(p - C[k].dist)
      /\ \A d \in E : \E k \in 1 .. Len(C) : C[k].dist = d
  <2>1. RisesThrough(C, Beyond(V1, windowstart, p, 0), p)  BY <1>1, <1>4, ChainRises
  <2>2. QED BY <1>3, <2>1 DEF RisesThrough
<1>6. \A d : d \in E <=> InWindow(p, d) /\ V1[p - d] = V1[p]
  <2>1. SUFFICES ASSUME NEW d PROVE d \in E <=> InWindow(p, d) /\ V1[p - d] = V1[p]
    OBVIOUS
  <2>2. d \in Beyond(V1, windowstart, p, 0) <=>
           /\ d \in Nat /\ d >= 1 /\ d < WindowSize /\ p - d >= windowstart
           /\ d > 0 /\ V1[p - d] = V1[p - 0]
    BY <1>1, InBeyond
  <2>3. QED BY <1>2, <1>3, <2>2 DEF InWindow
<1>7. QED BY <1>5, <1>6

(* That of the second hash has all with this hash.                         *)
LEMMA SecondChain ==
  ASSUME NEW p, Here(p), NEW d0, InWindow(p, d0), V2[p - d0] = V2[p],
         NEW C, C = Chain(SlotOf(p - d0), d0, prev2)
  PROVE  /\ C \in Seq(Node) /\ Rising(C)
         /\ \A k \in 1 .. Len(C) : /\ InWindow(p, C[k].dist) /\ V2[p - C[k].dist] = V2[p]
                                   /\ C[k].dist > d0
         /\ \A d : InWindow(p, d) /\ V2[p - d] = V2[p] /\ d > d0
                     => \E k \in 1 .. Len(C) : C[k].dist = d
<1>1. /\ p \in Nat /\ windowstart \in Nat /\ windowstart <= p
      /\ ChainOk(V2, windowstart, p + 1, head2, hashval2, prev2)
  BY HereIs
<1>2. d0 \in Nat /\ At0(p, windowstart, d0)  BY DEF At0, InWindow
<1>3. PICK E : E = Beyond(V2, windowstart, p, d0)  OBVIOUS
<1>4. ChainHolds(C, Beyond(V2, windowstart, p, d0), p)  BY <1>1, <1>2, ChainFrom
<1>5. /\ C \in Seq(Node) /\ Rising(C)
      /\ \A k \in 1 .. Len(C) : C[k].dist \in E
      /\ \A d \in E : \E k \in 1 .. Len(C) : C[k].dist = d
  <2>1. RisesThrough(C, Beyond(V2, windowstart, p, d0), p)  BY <1>1, <1>2, <1>4, ChainRises
  <2>2. QED BY <1>3, <2>1 DEF RisesThrough
<1>6. \A d : d \in E <=> InWindow(p, d) /\ V2[p - d] = V2[p] /\ d > d0
  <2>1. SUFFICES ASSUME NEW d PROVE d \in E <=> InWindow(p, d) /\ V2[p - d] = V2[p] /\ d > d0
    OBVIOUS
  <2>2. d \in Beyond(V2, windowstart, p, d0) <=>
           /\ d \in Nat /\ d >= 1 /\ d < WindowSize /\ p - d >= windowstart
           /\ d > d0 /\ V2[p - d] = V2[p - d0]
    BY <1>1, <1>2, InBeyond
  <2>3. QED BY <1>3, <2>2 DEF InWindow
<1>7. QED BY <1>5, <1>6

(* A match of three bytes has the same hash.                               *)
LEMMA MatchHash ==
  ASSUME NEW p, Here(p), NEW l \in Nat, l >= MinMatch, NEW d \in Reaches(p, l)
  PROVE  InWindow(p, d) /\ V1[p - d] = V1[p]
<1>1. p \in Nat /\ windowstart \in Nat /\ windowstart <= p  BY HereIs
<1>2. /\ d \in Nat /\ d >= 1 /\ d < WindowSize /\ p - d >= windowstart
      /\ Agree(p, p - d, l)
  BY <1>1, ReachesIs
<1>3. p - d \in Nat /\ 0 \in 0 .. l - 1 /\ 1 \in 0 .. l - 1 /\ 2 \in 0 .. l - 1
  BY <1>1, <1>2 DEF MinMatch
<1>4. At(p + 0) = At(p - d + 0) /\ At(p + 1) = At(p - d + 1) /\ At(p + 2) = At(p - d + 2)
  BY <1>2, <1>3 DEF Agree
<1>5. p + 0 = p /\ p - d + 0 = p - d  BY <1>1, <1>3
<1>6. val(p - d) = val(p)  BY <1>4, <1>5 DEF val
<1>7. QED BY <1>1, <1>2, <1>3, <1>6 DEF V1, InWindow

Alikes(p, N) ==
  \A k \in 1 .. Len(N) : /\ InWindow(p, N[k].dist)
                         /\ V1[p - N[k].dist] = V1[p] \/ V2[p - N[k].dist] = V2[p]

(* A chain of the second hash after a part of the first one.               *)
Joined(N, M, k, J) ==
  /\ J \in Seq(Node) /\ Rising(J) /\ Len(J) = k + Len(M)
  /\ \A j \in 1 .. k : J[j] = N[j]
  /\ \A j \in 1 .. Len(M) : J[k + j] = M[j]

LEMMA JoinRises ==
  ASSUME NEW N \in Seq(Node), Rising(N), NEW M \in Seq(Node), Rising(M),
         NEW k \in 1 .. Len(N), \A j \in 1 .. Len(M) : M[j].dist > N[k].dist,
         NEW J, J = SubSeq(N, 1, k) \o M
  PROVE  Joined(N, M, k, J)
<1>1. /\ SubSeq(N, 1, k) \in Seq(Node) /\ Len(SubSeq(N, 1, k)) = k
      /\ \A j \in 1 .. k : SubSeq(N, 1, k)[j] = N[j]
  OBVIOUS
<1>2. /\ J \in Seq(Node) /\ Len(J) = k + Len(M)
      /\ \A j \in 1 .. k : J[j] = N[j]
      /\ \A j \in 1 .. Len(M) : J[k + j] = M[j]
  BY <1>1
<1>3. \A x \in Node : x.dist \in Nat  BY DEF Node
<1>4. Len(M) \in Nat /\ k \in Nat /\ Len(N) \in Nat /\ k <= Len(N)  OBVIOUS
<1>5. ASSUME NEW a \in 1 .. Len(J), NEW b \in 1 .. Len(J), a < b
      PROVE  J[a].dist < J[b].dist
  <2>1. CASE b <= k
    <3>1. a \in 1 .. k /\ b \in 1 .. k /\ a \in 1 .. Len(N) /\ b \in 1 .. Len(N)
      BY <1>2, <1>4, <1>5, <2>1
    <3>2. N[a].dist < N[b].dist  BY <1>5, <3>1 DEF Rising
    <3>3. QED BY <1>2, <3>1, <3>2
  <2>2. CASE ~(b <= k)
    <3>1. PICK d : d = b - k  OBVIOUS
    <3>2. d \in 1 .. Len(M) /\ b = k + d  BY <1>2, <1>4, <2>2, <3>1
    <3>3. J[b] = M[d]  BY <1>2, <3>2
    <3>4. CASE a <= k
      <4>1. a \in 1 .. k /\ a \in 1 .. Len(N)  BY <1>2, <1>4, <3>4
      <4>2. J[a] = N[a]  BY <1>2, <4>1
      <4>3. N[a].dist <= N[k].dist
        <5>1. CASE a = k
          <6>1. N[k] \in Node  OBVIOUS
          <6>2. N[k].dist \in Nat  BY <1>3, <6>1
          <6>3. QED BY <5>1, <6>2
        <5>2. CASE a # k
          <6>1. a < k  BY <1>4, <4>1, <5>2
          <6>2. N[a].dist < N[k].dist  BY <4>1, <6>1 DEF Rising
          <6>3. N[a] \in Node /\ N[k] \in Node  BY <4>1
          <6>4. N[a].dist \in Nat /\ N[k].dist \in Nat  BY <1>3, <6>3
          <6>5. QED BY <6>2, <6>4
        <5>3. QED BY <5>1, <5>2
      <4>4. N[a].dist \in Nat /\ N[k].dist \in Nat /\ M[d].dist \in Nat /\ M[d].dist > N[k].dist
        <5>1. N[a] \in Node /\ N[k] \in Node /\ M[d] \in Node  BY <3>2, <4>1
        <5>2. M[d].dist > N[k].dist  BY <3>2
        <5>3. QED BY <1>3, <5>1, <5>2
      <4>5. QED BY <3>3, <4>2, <4>3, <4>4
    <3>5. CASE ~(a <= k)
      <4>1. PICK c : c = a - k  OBVIOUS
      <4>2. c \in 1 .. Len(M) /\ a = k + c /\ c < d  BY <1>2, <1>4, <1>5, <3>2, <3>5, <4>1
      <4>3. J[a] = M[c]  BY <1>2, <4>2
      <4>4. M[c].dist < M[d].dist  BY <3>2, <4>2 DEF Rising
      <4>5. QED BY <3>3, <4>3, <4>4
    <3>6. QED BY <3>4, <3>5
  <2>3. QED BY <2>1, <2>2
<1>6. QED BY <1>2, <1>5 DEF Rising, Joined

(* The nodes of the search before it is cut.                               *)
Path(p, limit, N) ==
  LET first == Chain(SlotOf(p), 0, prev)
      Best(k) == Max({1} \cup {Common(p, first[j].dist, limit) : j \in 1 .. k})
      turns == {k \in 1 .. Len(first) : Switch(p, Best(k), first[k].slot)}
  IN  N = IF turns = {} THEN first
          ELSE LET k == Min(turns)
               IN  SubSeq(first, 1, k) \o Chain(first[k].slot, first[k].dist, prev2)

LEMMA PathIs ==
  ASSUME NEW p, Here(p), NEW limit \in Nat, limit >= MinMatch, limit <= MaxMatch,
         p + limit <= Size, NEW N, Path(p, limit, N)
  PROVE  N \in Seq(Node) /\ Rising(N) /\ Alikes(p, N) /\ Covers(p, limit, N)
<1> DEFINE first == Chain(SlotOf(p), 0, prev)
           Best(k) == Max({1} \cup {Common(p, first[j].dist, limit) : j \in 1 .. k})
           turns == {k \in 1 .. Len(first) : Switch(p, Best(k), first[k].slot)}
<1>1. /\ p \in Nat /\ windowstart \in Nat /\ windowstart <= p /\ Size \in Nat /\ p < Size
      /\ ChainOk(V2, windowstart, p + 1, head2, hashval2, prev2)
      /\ text \in Seq(Byte)
      /\ \A q \in Nat : q >= windowstart /\ q <= p /\ p - q < WindowSize
                          => Exact(q, same[SlotOf(q)])
  BY HereIs
<1>2. /\ first \in Seq(Node) /\ Rising(first)
      /\ \A k \in 1 .. Len(first) :
           /\ InWindow(p, first[k].dist) /\ V1[p - first[k].dist] = V1[p]
           /\ first[k].slot = SlotOf(p - first[k].dist)
      /\ \A d : InWindow(p, d) /\ V1[p - d] = V1[p]
                  => \E k \in 1 .. Len(first) : first[k].dist = d
  BY FirstChain
<1>3. N = IF turns = {} THEN first
          ELSE SubSeq(first, 1, Min(turns))
                 \o Chain(first[Min(turns)].slot, first[Min(turns)].dist, prev2)
  BY DEF Path
<1>4. /\ turns \in SUBSET Nat
      /\ \A k \in turns : k \in 1 .. Len(first) /\ Switch(p, Best(k), first[k].slot)
  OBVIOUS
<1>5. \A l \in MinMatch .. limit : l \in Nat /\ l >= MinMatch /\ l <= MaxMatch
  BY MatchAssumption DEF MinMatch
<1> HIDE DEF first, turns
<1>6. CASE turns = {}
  <2>1. N = first  BY <1>3, <1>6
  <2>2. Alikes(p, N)  BY <1>2, <2>1 DEF Alikes
  <2>3. Covers(p, limit, N)
    <3>1. SUFFICES ASSUME NEW l \in MinMatch .. limit, NEW d \in Reaches(p, l)
                   PROVE  \E k \in 1 .. Len(N) : N[k].dist = d
      BY DEF Covers
    <3>2. InWindow(p, d) /\ V1[p - d] = V1[p]  BY <1>5, <3>1, MatchHash
    <3>3. QED BY <1>2, <2>1, <3>2
  <2>4. QED BY <1>2, <2>1, <2>2, <2>3
<1>7. CASE turns # {}
  <2>1. PICK k : k = Min(turns)  OBVIOUS
  <2>2. k \in turns  BY <1>4, <1>7, <2>1, MinOf
  <2>3. k \in 1 .. Len(first) /\ Switch(p, Best(k), first[k].slot)  BY <1>4, <2>2
  <2>4. PICK d0 : d0 = first[k].dist  OBVIOUS
  <2>5. /\ InWindow(p, d0) /\ V1[p - d0] = V1[p] /\ first[k].slot = SlotOf(p - d0)
        /\ d0 \in Nat /\ d0 >= 1 /\ p - d0 \in Nat
    BY <1>1, <1>2, <2>3, <2>4 DEF InWindow
  <2>6. hashval2[SlotOf(p - d0)] = V2[p - d0]
    <3>1. PICK n : n = p + 1  OBVIOUS
    <3>2. p - d0 \in windowstart .. n - 1 /\ p - d0 >= n - WindowSize
      BY <1>1, <2>5, <3>1, Sizes DEF InWindow
    <3>3. WindowOk(V2, windowstart, n, hashval2, prev2)  BY <1>1, <3>1 DEF ChainOk
    <3>4. QED BY <3>2, <3>3 DEF WindowOk
  <2>7. V2[p] = SameHash(val(p), same[SlotOf(p)])
    <3>1. p - p < WindowSize  BY <1>1, Sizes
    <3>2. Exact(p, same[SlotOf(p)])  BY <1>1, <3>1
    <3>3. Run(p) = same[SlotOf(p)]  BY <1>1, <3>2, RunIs
    <3>4. QED BY <1>1, <3>3 DEF V2
  <2>8. V2[p - d0] = V2[p] /\ Best(k) >= same[SlotOf(p)]
    BY <2>3, <2>5, <2>6, <2>7 DEF Switch
  <2>9. PICK M : M = Chain(SlotOf(p - d0), d0, prev2)  OBVIOUS
  <2>10. /\ M \in Seq(Node) /\ Rising(M)
         /\ \A j \in 1 .. Len(M) : /\ InWindow(p, M[j].dist) /\ V2[p - M[j].dist] = V2[p]
                                   /\ M[j].dist > d0
         /\ \A d : InWindow(p, d) /\ V2[p - d] = V2[p] /\ d > d0
                     => \E j \in 1 .. Len(M) : M[j].dist = d
    BY <2>5, <2>8, <2>9, SecondChain
  <2>11. N = SubSeq(first, 1, k) \o M  BY <1>3, <1>7, <2>1, <2>4, <2>5, <2>9
  <2>12. /\ N \in Seq(Node) /\ Rising(N) /\ Len(N) = k + Len(M)
         /\ \A j \in 1 .. k : N[j] = first[j]
         /\ \A j \in 1 .. Len(M) : N[k + j] = M[j]
    <3>1. \A j \in 1 .. Len(M) : M[j].dist > first[k].dist  BY <2>4, <2>10
    <3>2. Joined(first, M, k, N)  BY <1>2, <2>3, <2>10, <2>11, <3>1, JoinRises
    <3>3. QED BY <3>2 DEF Joined
  <2>13. k \in Nat /\ Len(M) \in Nat /\ Len(first) \in Nat /\ k >= 1 /\ k <= Len(first)
    BY <1>2, <2>3, <2>10
  <2>14. Alikes(p, N)
    <3>1. SUFFICES ASSUME NEW j \in 1 .. Len(N)
                   PROVE  /\ InWindow(p, N[j].dist)
                          /\ V1[p - N[j].dist] = V1[p] \/ V2[p - N[j].dist] = V2[p]
      BY DEF Alikes
    <3>2. CASE j <= k
      <4>1. j \in 1 .. k /\ j \in 1 .. Len(first)  BY <2>12, <2>13, <3>2
      <4>2. QED BY <1>2, <2>12, <4>1
    <3>3. CASE ~(j <= k)
      <4>1. PICK m : m = j - k  OBVIOUS
      <4>2. m \in 1 .. Len(M) /\ j = k + m  BY <2>12, <2>13, <3>3, <4>1
      <4>3. N[j] = M[m]  BY <2>12, <4>2
      <4>4. QED BY <2>10, <4>2, <4>3
    <3>4. QED BY <3>2, <3>3
  <2>15. Covers(p, limit, N)
    <3>1. SUFFICES ASSUME NEW l \in MinMatch .. limit, NEW d \in Reaches(p, l),
                          \A e \in Reaches(p, l) : d <= e
                   PROVE  \E j \in 1 .. Len(N) : N[j].dist = d
      BY DEF Covers
    <3>2. InWindow(p, d) /\ V1[p - d] = V1[p] /\ d \in Nat
      BY <1>5, <3>1, MatchHash DEF InWindow
    <3>3. CASE d <= d0
      <4>1. PICK j \in 1 .. Len(first) : first[j].dist = d  BY <1>2, <3>2
      <4>2. ~(k < j)
        <5>1. k < j => d0 < d  BY <1>2, <2>3, <2>4, <4>1 DEF Rising
        <5>2. QED BY <2>5, <3>2, <3>3, <5>1
      <4>3. j \in 1 .. k /\ j \in 1 .. Len(N)  BY <2>12, <2>13, <4>1, <4>2
      <4>4. QED BY <2>12, <4>1, <4>3
    <3>4. CASE ~(d <= d0)
      <4>1. same[SlotOf(p)] < l
        <5> DEFINE S == {1} \cup {Common(p, first[j].dist, limit) : j \in 1 .. k}
                   b == Max(S)
        <5>1. ASSUME NEW j \in 1 .. k
              PROVE  /\ Common(p, first[j].dist, limit) \in 0 .. limit
                     /\ \A m \in 0 .. limit : m <= Common(p, first[j].dist, limit)
                                               <=> first[j].dist \in Reaches(p, m)
          <6>1. j \in 1 .. Len(first)  BY <2>13
          <6>2. PICK e : e = first[j].dist  OBVIOUS
          <6>3. InWindow(p, e)  BY <1>2, <6>1, <6>2
          <6>4. PICK c : c = Common(p, e, limit)  OBVIOUS
          <6>5. c \in 0 .. limit /\ \A m \in 0 .. limit : m <= c <=> e \in Reaches(p, m)
            BY <6>3, <6>4, CommonIs DEF InWindow
          <6>6. QED BY <6>2, <6>4, <6>5
        <5>2. S \in SUBSET (0 .. limit) /\ S # {}
          <6>1. 1 \in 0 .. limit  BY DEF MinMatch
          <6>2. QED BY <5>1, <6>1
        <5>3. b \in S /\ b = Best(k)
          <6>1. b = Best(k)  OBVIOUS
          <6> HIDE DEF S
          <6>2. QED BY <5>2, <6>1, MaxOf
        <5>4. ASSUME l <= b PROVE FALSE
          <6>1. b # 1  BY <1>5, <3>1, <5>4 DEF MinMatch
          <6>2. PICK j \in 1 .. k : b = Common(p, first[j].dist, limit)  BY <5>3, <6>1
          <6>3. l \in 0 .. limit  BY <3>1 DEF MinMatch
          <6>4. first[j].dist \in Reaches(p, l)  BY <5>1, <5>4, <6>2, <6>3
          <6>5. d <= first[j].dist  BY <3>1, <6>4
          <6>6. first[j].dist <= d0
            <7>1. j \in 1 .. Len(first)  BY <2>13
            <7>2. first[j].dist \in Nat  BY <1>2, <7>1 DEF InWindow
            <7>3. j = k \/ j < k  BY <2>13
            <7>4. j < k => first[j].dist < d0  BY <1>2, <2>3, <2>4, <7>1 DEF Rising
            <7>5. QED BY <2>4, <2>5, <7>2, <7>3, <7>4
          <6>7. first[j].dist \in Nat
            <7>1. j \in 1 .. Len(first)  BY <2>13
            <7>2. QED BY <1>2, <7>1 DEF InWindow
          <6>8. QED BY <2>5, <3>2, <3>4, <6>5, <6>6, <6>7
        <5>5. b \in Nat  BY <5>2, <5>3
        <5>6. same[SlotOf(p)] \in Nat
          <6>1. p - p < WindowSize  BY <1>1, Sizes
          <6>2. QED BY <1>1, <6>1 DEF Exact
        <5>7. same[SlotOf(p)] <= b  BY <2>8, <5>3, <5>5, <5>6
        <5> HIDE DEF b
        <5>8. QED BY <1>5, <3>1, <5>4, <5>5, <5>6, <5>7
      <4>2. d > 1  BY <2>5, <3>2, <3>4
      <4>3. V2[p - d] = V2[p]  BY <1>5, <3>1, <4>1, <4>2, SwitchIsSafe
      <4>4. d > d0  BY <2>5, <3>2, <3>4
      <4>5. PICK j \in 1 .. Len(M) : M[j].dist = d  BY <2>10, <3>2, <4>3, <4>4
      <4>6. k + j \in 1 .. Len(N) /\ N[k + j].dist = d  BY <2>12, <2>13, <4>5
      <4>7. QED BY <4>6
    <3>5. QED BY <3>3, <3>4
  <2>16. QED BY <2>12, <2>14, <2>15
<1>8. QED BY <1>6, <1>7

(* The search as it is cut visits positions of the window, nearest first,  *)
(* and in a sparse text all it needs.                                      *)
LEMMA VisitedIs ==
  ASSUME NEW p, Here(p), NEW limit \in Nat, limit >= MinMatch, limit <= MaxMatch,
         p + limit <= Size, NEW N, N = Visited(p, limit)
  PROVE  N \in Seq(Node) /\ Rising(N) /\ Alikes(p, N) /\ (Sparse => Covers(p, limit, N))
<1>1. PICK P : Path(p, limit, P) /\ N = SubSeq(P, 1, Least(Len(P), ChainHits))
  BY DEF Visited, Path
<1>2. P \in Seq(Node) /\ Rising(P) /\ Alikes(p, P) /\ Covers(p, limit, P)
  BY <1>1, PathIs
<1>3. PICK n : n = Least(Len(P), ChainHits)  OBVIOUS
<1>4. n \in Nat /\ n <= Len(P) /\ Len(P) \in Nat /\ (Len(P) <= ChainHits => n = Len(P))
  BY <1>2, <1>3, MatchAssumption DEF Least
<1>5. N \in Seq(Node) /\ Len(N) = n /\ \A k \in 1 .. n : N[k] = P[k]
  BY <1>1, <1>2, <1>3, <1>4
<1>6. Rising(N)
  <2>1. \A k \in 1 .. n : k \in 1 .. Len(P)  BY <1>4
  <2>2. QED BY <1>2, <1>5, <2>1 DEF Rising
<1>7. Alikes(p, N)
  <2>1. \A k \in 1 .. n : k \in 1 .. Len(P)  BY <1>4
  <2>2. QED BY <1>2, <1>5, <2>1 DEF Alikes
<1>8. ASSUME Sparse PROVE Covers(p, limit, N)
  <2>1. p \in Nat /\ windowstart \in Nat /\ windowstart <= p /\ Size \in Nat /\ p < Size
    BY HereIs
  <2>2. p \in windowstart .. Size - 1  BY <2>1
  <2>3. Cardinality(Alike(p)) <= ChainHits  BY <1>8, <2>2 DEF Sparse
  <2>4. IsFiniteSet(Alike(p)) /\ \A k \in 1 .. Len(P) : P[k].dist \in Alike(p)
    BY <1>2, <2>1, AlikeIs DEF Alikes
  <2>5. Len(P) <= Cardinality(Alike(p)) /\ Cardinality(Alike(p)) \in Nat
    BY <1>2, <2>4, RisingShort, FS_CardinalityType
  <2>6. n = Len(P)
    <3>1. ChainHits \in Nat  BY MatchAssumption
    <3>2. QED BY <1>4, <2>3, <2>5, <3>1
  <2>7. QED BY <1>2, <1>5, <2>6 DEF Covers
<1>9. QED BY <1>5, <1>6, <1>7, <1>8

-----------------------------------------------------------------------------
(* What a search finds.  A distance is right for a length if the match is  *)
(* that long, and in a sparse text if there is no nearer one.              *)
Right(p, l, d) ==
  d \in Reaches(p, l) /\ (Sparse => \A e \in Reaches(p, l) : d <= e)

Longest(p, limit, length) ==
  \A l \in MinMatch .. limit : Reaches(p, l) # {} => l <= length

Found(p, limit, length, d) ==
  /\ length \in Nat
  /\ length >= MinMatch => length <= limit /\ Right(p, length, d)
  /\ Sparse => Longest(p, limit, length)

Distances(p, length, sub) == \A l \in MinMatch .. length : Right(p, l, sub[l])

LEMMA SearchIs ==
  ASSUME NEW p, Here(p), NEW limit \in Nat, limit >= MinMatch, limit <= MaxMatch,
         p + limit <= Size, NEW r, r = Search(p, Visited(p, limit), limit)
  PROVE  /\ Found(p, limit, r.length, r.dist)
         /\ DOMAIN r.sublen = MinMatch .. r.length
         /\ Distances(p, r.length, r.sublen)
<1>1. PICK N : N = Visited(p, limit)  OBVIOUS
<1> DEFINE Reach(k) == Common(p, N[k].dist, limit)
           S == {1} \cup {Reach(k) : k \in DOMAIN N}
           best == Max(S)
           K(l) == {k \in DOMAIN N : Reach(k) >= l}
           First(l) == N[Min(K(l))].dist
<1>2. /\ p \in Nat /\ windowstart \in Nat /\ windowstart <= p /\ Size \in Nat /\ p < Size
  BY HereIs
<1>3. N \in Seq(Node) /\ Rising(N) /\ Alikes(p, N) /\ (Sparse => Covers(p, limit, N))
  BY <1>1, VisitedIs
<1>4. r = [length |-> best, dist |-> IF best > 1 THEN First(best) ELSE 0,
           sublen |-> [l \in MinMatch .. best |-> First(l)]]
  BY <1>1 DEF Search
<1>5. DOMAIN N = 1 .. Len(N) /\ Len(N) \in Nat  BY <1>3
<1>6. ASSUME NEW k \in 1 .. Len(N)
      PROVE  /\ Reach(k) \in 0 .. limit /\ N[k].dist \in Nat
             /\ \A l \in 0 .. limit : l <= Reach(k) <=> N[k].dist \in Reaches(p, l)
  <2>1. PICK e : e = N[k].dist  OBVIOUS
  <2>2. InWindow(p, e)  BY <1>3, <2>1 DEF Alikes
  <2>3. PICK c : c = Common(p, e, limit)  OBVIOUS
  <2>4. c \in 0 .. limit /\ \A m \in 0 .. limit : m <= c <=> e \in Reaches(p, m)
    BY <2>2, <2>3, CommonIs DEF InWindow
  <2>5. e \in Nat  BY <2>2 DEF InWindow
  <2>6. QED BY <2>1, <2>3, <2>4, <2>5
<1> HIDE DEF Reach
<1>7. best \in S /\ best \in 0 .. limit /\ \A k \in 1 .. Len(N) : Reach(k) <= best
  <2>1. S \in SUBSET (0 .. limit) /\ S # {}
    <3>1. 1 \in 0 .. limit  BY DEF MinMatch
    <3>2. QED BY <1>5, <1>6, <3>1
  <2>2. best \in S /\ \A y \in S : best >= y
    <3> HIDE DEF S
    <3>1. QED BY <2>1, MaxOf
  <2>3. \A k \in 1 .. Len(N) : Reach(k) \in S  BY <1>5
  <2>4. \A y \in S : y \in Nat  BY <2>1
  <2>5. best \in 0 .. limit  BY <2>1, <2>2
  <2>6. \A k \in 1 .. Len(N) : Reach(k) <= best
    <3> HIDE DEF S, best
    <3>1. QED BY <2>2, <2>3, <2>4, <2>5
  <2>7. QED BY <2>2, <2>5, <2>6
<1>8. ASSUME NEW l \in MinMatch .. limit, NEW d \in Reaches(p, l),
             \A e \in Reaches(p, l) : d <= e, Sparse
      PROVE  \E k \in 1 .. Len(N) : N[k].dist = d /\ l <= Reach(k)
  <2>1. PICK k \in 1 .. Len(N) : N[k].dist = d  BY <1>3, <1>8 DEF Covers
  <2>2. l \in 0 .. limit  BY DEF MinMatch
  <2>3. l <= Reach(k)  BY <1>6, <2>1, <2>2
  <2>4. QED BY <2>1, <2>3
<1>9. ASSUME NEW l \in MinMatch .. limit, Reaches(p, l) # {}
      PROVE  \E d \in Reaches(p, l) : \A e \in Reaches(p, l) : d <= e
  <2>1. Reaches(p, l) \in SUBSET Nat  BY <1>2 DEF Reaches
  <2>2. QED BY <1>9, <2>1, LeastOf
<1>10. ASSUME NEW l \in MinMatch .. best PROVE Right(p, l, First(l))
  <2>1. l \in MinMatch .. limit /\ l \in 0 .. limit /\ l > 1 /\ l \in Nat /\ l <= best
    BY <1>7 DEF MinMatch
  <2>2. K(l) \in SUBSET Nat /\ K(l) # {}
    <3>1. best # 1  BY <1>7, <2>1
    <3>2. PICK k \in DOMAIN N : best = Reach(k)  BY <1>7, <3>1
    <3>3. Reach(k) >= l  BY <1>7, <2>1, <3>2
    <3>4. QED BY <1>5, <3>2, <3>3
  <2>3. PICK f : f = Min(K(l))  OBVIOUS
  <2>4. f \in K(l) /\ \A k \in K(l) : f <= k
    <3> HIDE DEF K
    <3>1. QED BY <2>2, <2>3, MinOf
  <2>5. f \in 1 .. Len(N) /\ l <= Reach(f)
    <3>1. f \in 1 .. Len(N) /\ Reach(f) >= l  BY <1>5, <2>4
    <3>2. Reach(f) \in Nat  BY <1>6, <3>1
    <3>3. QED BY <2>1, <3>1, <3>2
  <2>6. N[f].dist \in Reaches(p, l)  BY <1>6, <2>1, <2>5
  <2>7. ASSUME Sparse PROVE \A e \in Reaches(p, l) : N[f].dist <= e
    <3>1. PICK d \in Reaches(p, l) : \A e \in Reaches(p, l) : d <= e  BY <1>9, <2>1, <2>6
    <3>2. PICK k \in 1 .. Len(N) : N[k].dist = d /\ l <= Reach(k)  BY <1>8, <2>1, <2>7, <3>1
    <3>3. k \in K(l)
      <4>1. Reach(k) \in Nat  BY <1>6
      <4>2. Reach(k) >= l  BY <2>1, <3>2, <4>1
      <4>3. QED BY <1>5, <4>2
    <3>4. f <= k  BY <2>4, <3>3
    <3>5. N[f].dist \in Nat /\ N[k].dist \in Nat  BY <1>6, <2>5
    <3>6. f < k => N[f].dist < N[k].dist  BY <1>3, <2>5 DEF Rising
    <3>7. f < k \/ f = k  BY <1>5, <2>5, <3>4
    <3>8. N[f].dist <= d  BY <3>2, <3>5, <3>6, <3>7
    <3>9. d <= N[f].dist  BY <2>6, <3>1
    <3>10. N[f].dist = d  BY <3>2, <3>5, <3>8, <3>9
    <3>11. QED BY <3>1, <3>10
  <2>8. First(l) = N[f].dist  BY <2>3
  <2> HIDE DEF First
  <2>9. QED BY <2>6, <2>7, <2>8 DEF Right
<1>11. ASSUME Sparse PROVE Longest(p, limit, best)
  <2>1. SUFFICES ASSUME NEW l \in MinMatch .. limit, Reaches(p, l) # {} PROVE l <= best
    BY DEF Longest
  <2>2. PICK d \in Reaches(p, l) : \A e \in Reaches(p, l) : d <= e  BY <1>9, <2>1
  <2>3. PICK k \in 1 .. Len(N) : l <= Reach(k)  BY <1>8, <1>11, <2>1, <2>2
  <2>4. Reach(k) \in Nat /\ best \in Nat /\ l \in Nat  BY <1>6, <1>7 DEF MinMatch
  <2>5. QED BY <1>7, <2>3, <2>4
<1>12. best >= MinMatch => best \in MinMatch .. best /\ best > 1 /\ best <= limit
  BY <1>7 DEF MinMatch
<1> HIDE DEF best, First
<1>13. /\ r.length = best /\ (best > 1 => r.dist = First(best))
       /\ r.sublen = [l \in MinMatch .. best |-> First(l)]
  BY <1>4
<1>14. best \in Nat  BY <1>7
<1>15. Found(p, limit, r.length, r.dist)  BY <1>10, <1>11, <1>12, <1>13, <1>14 DEF Found
<1>16. Distances(p, r.length, r.sublen)  BY <1>10, <1>13 DEF Distances
<1>17. QED BY <1>13, <1>15, <1>16

-----------------------------------------------------------------------------
(* The cache.                                                              *)
Enumerates(S, A) ==
  /\ A \in [1 .. Cardinality(S) -> S]
  /\ \A j \in 1 .. Cardinality(S) : Nearer(A[j], S) = j

LEMMA AscendingIs ==
  ASSUME NEW S \in SUBSET Nat, IsFiniteSet(S)
  PROVE  Enumerates(S, Ascending(S))
<1> DEFINE c == Cardinality(S)
           f == [l \in S |-> Nearer(l, S)]
<1>1. c \in Nat  BY FS_CardinalityType
<1>2. IsFiniteSet(1 .. c) /\ Cardinality(1 .. c) = c
  <2>1. 1 \in Int /\ c \in Int  BY <1>1
  <2> HIDE DEF c
  <2>2. IsFiniteSet(1 .. c) /\ Cardinality(1 .. c) = IF 1 <= c THEN c - 1 + 1 ELSE 0
    BY <2>1, FS_Interval
  <2>3. QED BY <1>1, <2>2
<1>3. f \in [S -> 1 .. c]  BY NearerFacts
<1>4. \A a, b \in S : f[a] = f[b] => a = b  BY SamePlace
<1>5. f \in Injection(S, 1 .. c)  BY <1>3, <1>4 DEF Injection, IsInjective
<1>6. f \in Surjection(S, 1 .. c)
  <2> HIDE DEF f
  <2>1. Cardinality(S) = Cardinality(1 .. c)  BY <1>2
  <2>2. QED BY <1>2, <1>5, <2>1, FS_Injection
<1>7. \A j \in 1 .. c : \E l \in S : f[l] = j  BY <1>6 DEF Surjection
<1>8. \A j \in 1 .. c : \E l \in S : Nearer(l, S) = j  BY <1>7
<1> HIDE DEF f
<1>9. Ascending(S) = [j \in 1 .. c |-> CHOOSE l \in S : Nearer(l, S) = j]  BY DEF Ascending
<1>10. \A j \in 1 .. c : LET a == CHOOSE l \in S : Nearer(l, S) = j
                         IN  a \in S /\ Nearer(a, S) = j
  BY <1>8
<1> HIDE DEF c
<1>11. Ascending(S) \in [1 .. c -> S] /\ \A j \in 1 .. c : Nearer(Ascending(S)[j], S) = j
  BY <1>9, <1>10
<1>12. QED BY <1>11 DEF Enumerates, c

(* The distances that were found come out of the cache as they went in, if *)
(* the longest length did.                                                 *)
Ends(sub, n) == {l \in MinMatch .. n : l = n \/ sub[l] # sub[l + 1]}

(* From a length to the next end the distance stays the same.              *)
LEMMA NextEnd ==
  ASSUME NEW n \in Nat, NEW sub, NEW l \in MinMatch .. n
  PROVE  \E x \in Ends(sub, n) : /\ l <= x /\ sub[x] = sub[l]
                                 /\ \A y \in Ends(sub, n) : l <= y => x <= y
<1> DEFINE E == Ends(sub, n)
           T == {y \in E : l <= y}
<1>1. \A y : y \in E <=> /\ y \in Nat /\ MinMatch <= y /\ y <= n
                         /\ y = n \/ sub[y] # sub[y + 1]
  BY DEF Ends, MinMatch
<1>2. l \in Nat /\ MinMatch <= l /\ l <= n /\ MinMatch \in Nat  BY DEF MinMatch
<1> HIDE DEF E
<1>3. T \in SUBSET Nat /\ n \in T  BY <1>1, <1>2
<1>4. PICK x \in T : \A y \in T : x <= y  BY <1>3, LeastOf
<1>5. x \in E /\ l <= x /\ x \in Nat /\ x <= n /\ \A y \in E : l <= y => x <= y  BY <1>1, <1>4
<1> HIDE DEF T
<1>6. sub[x] = sub[l]
  <2> DEFINE D == {y \in l .. x : sub[y] # sub[l]}
  <2>1. SUFFICES ASSUME D # {} PROVE FALSE
    <3>1. x \in l .. x  BY <1>2, <1>5
    <3>2. QED BY <3>1
  <2>2. D \in SUBSET Nat  BY <1>2
  <2>3. PICK y \in D : \A z \in D : y <= z  BY <2>1, <2>2, LeastOf
  <2>4. y \in Nat /\ l <= y /\ y <= x /\ sub[y] # sub[l]  BY <1>2, <1>5
  <2>5. y # l  BY <2>4
  <2>6. y - 1 \in l .. x /\ y - 1 \in Nat /\ ~(y <= y - 1) /\ ~(x <= y - 1) /\ y - 1 # n
        /\ (y - 1) + 1 = y /\ MinMatch <= y - 1 /\ y - 1 <= n /\ l <= y - 1
    BY <1>2, <1>5, <2>4, <2>5
  <2>7. sub[y - 1] = sub[l]  BY <2>3, <2>6
  <2>8. y - 1 \notin E  BY <1>5, <2>6
  <2>9. sub[y - 1] = sub[(y - 1) + 1]  BY <1>1, <2>6, <2>8
  <2>10. QED BY <2>4, <2>6, <2>7, <2>9
<1>7. QED BY <1>5, <1>6 DEF E

LEMMA StoredIs ==
  ASSUME NEW old, old = EmptyEntry, NEW found, NEW n \in Nat, n >= MinMatch, found.length = n,
         DOMAIN found.sublen = MinMatch .. n,
         NEW e, e.sublen = Stored(old, found)
  PROVE  /\ MaxCachedSublen(e) \in Nat
         /\ n <= MaxCachedSublen(e)
              => \A l \in MinMatch .. n : Restored(e, n)[l] = found.sublen[l]
<1> DEFINE sub == found.sublen
           E == Ends(sub, n)
           A == Ascending(E)
           c == Cardinality(E)
           m == Least(c, CacheLength)
<1>1. /\ E \in SUBSET Nat /\ IsFiniteSet(E) /\ n \in E /\ \A y \in E : y <= n /\ y \in Nat
  <2>1. E \in SUBSET (MinMatch .. n) /\ n \in E  BY DEF Ends, MinMatch
  <2>2. MinMatch \in Int  BY DEF MinMatch
  <2>3. IsFiniteSet(MinMatch .. n)  BY <2>2, FS_Interval
  <2>4. \A y \in MinMatch .. n : y <= n /\ y \in Nat  BY DEF MinMatch
  <2>5. QED BY <2>1, <2>3, <2>4, FS_Subset
<1>2. c \in Nat /\ CacheLength \in Nat /\ CacheLength >= 1
  BY <1>1, FS_CardinalityType, MatchAssumption
<1>3. A \in [1 .. c -> E] /\ \A j \in 1 .. c : Nearer(A[j], E) = j
  <2>1. Enumerates(E, A)  BY <1>1, AscendingIs
  <2>2. QED BY <2>1 DEF Enumerates
<1>4. Nearer(n, E) = c /\ c >= 1
  <2>1. Nearer(n, E) = c /\ Nearer(n, E) \in 1 .. c  BY <1>1, NearerFacts
  <2>2. QED BY <1>2, <2>1
<1>5. e.sublen = [j \in 1 .. CacheLength |->
                    IF j <= m THEN [length |-> A[j], dist |-> sub[A[j]]]
                    ELSE IF j = CacheLength THEN [old.sublen[j] EXCEPT !.length = n]
                    ELSE old.sublen[j]]
  <2>1. {l \in DOMAIN sub : l = found.length \/ sub[l] # sub[l + 1]} = E  BY DEF Ends
  <2>2. Ascending({l \in DOMAIN sub : l = found.length \/ sub[l] # sub[l + 1]}) = A
    BY <2>1
  <2>3. Len(A) = c
    <3> HIDE DEF A, E, c
    <3>1. QED BY <1>2, <1>3
  <2>4. Stored(old, found) = 
          [j \in 1 .. CacheLength |->
             IF j <= m THEN [length |-> A[j], dist |-> sub[A[j]]]
             ELSE IF j = CacheLength THEN [old.sublen[j] EXCEPT !.length = n]
             ELSE old.sublen[j]]
    BY <2>2, <2>3 DEF Stored
  <2>5. QED BY <2>4
<1> HIDE DEF sub, E, A, c
<1>6. m \in Nat /\ m <= c /\ m <= CacheLength /\ (c <= CacheLength => m = c)
      /\ (~(c <= CacheLength) => m = CacheLength)
  BY <1>2 DEF Least
<1> HIDE DEF m
<1>7. \A j \in 1 .. m : /\ e.sublen[j].length = A[j] /\ e.sublen[j].dist = sub[A[j]]
                        /\ A[j] \in E /\ A[j] \in Nat /\ Nearer(A[j], E) = j
                        /\ j \in 1 .. c /\ j \in 1 .. CacheLength
  <2>1. SUFFICES ASSUME NEW j \in 1 .. m
                 PROVE  /\ e.sublen[j].length = A[j] /\ e.sublen[j].dist = sub[A[j]]
                        /\ A[j] \in E /\ A[j] \in Nat /\ Nearer(A[j], E) = j
                        /\ j \in 1 .. c /\ j \in 1 .. CacheLength
    OBVIOUS
  <2>2. j \in 1 .. c /\ j \in 1 .. CacheLength /\ j <= m  BY <1>2, <1>6
  <2>3. e.sublen[j] = [length |-> A[j], dist |-> sub[A[j]]]  BY <1>5, <2>2
  <2>4. A[j] \in E /\ Nearer(A[j], E) = j  BY <1>3, <2>2
  <2>5. e.sublen[j].length = A[j] /\ e.sublen[j].dist = sub[A[j]]  BY <2>3
  <2>6. A[j] \in Nat  BY <1>1, <2>4
  <2>7. QED BY <2>2, <2>4, <2>5, <2>6
<1>8. e.sublen[CacheLength].length \in Nat
  <2>1. CASE m = CacheLength
    <3>1. CacheLength \in 1 .. m  BY <1>2, <2>1
    <3>2. QED BY <1>7, <3>1
  <2>2. CASE m # CacheLength
    <3>1. CacheLength \in 1 .. CacheLength /\ ~(CacheLength <= m)  BY <1>2, <1>6, <2>2
    <3>2. e.sublen[CacheLength] = [old.sublen[CacheLength] EXCEPT !.length = n]
      BY <1>5, <3>1
    <3>3. old.sublen[CacheLength] = [length |-> MinMatch, dist |-> 0]
      BY <3>1 DEF EmptyEntry
    <3>4. e.sublen[CacheLength].length = n  BY <3>2, <3>3
    <3>5. QED BY <3>4
  <2>3. QED BY <2>1, <2>2
<1>9. MaxCachedSublen(e) \in Nat  BY <1>8 DEF MaxCachedSublen
<1>10. ASSUME n <= MaxCachedSublen(e) PROVE c <= CacheLength
  <2>1. SUFFICES ASSUME ~(c <= CacheLength) PROVE FALSE  OBVIOUS
  <2>2. m = CacheLength /\ CacheLength \in 1 .. m  BY <1>2, <1>6, <2>1
  <2>3. PICK a : a = A[CacheLength]  OBVIOUS
  <2>4. e.sublen[CacheLength].length = a /\ a \in E /\ Nearer(a, E) = CacheLength /\ a \in Nat
    BY <1>7, <2>2, <2>3
  <2>5. n <= a
    <3>1. MaxCachedSublen(e) = 0 \/ MaxCachedSublen(e) = a  BY <2>4 DEF MaxCachedSublen
    <3>2. QED BY <1>10, <3>1 DEF MinMatch
  <2>6. a = n  BY <1>1, <2>4, <2>5
  <2>7. QED BY <1>2, <1>4, <2>1, <2>4, <2>6
<1>11. ASSUME n <= MaxCachedSublen(e), NEW l \in MinMatch .. n
       PROVE  Restored(e, n)[l] = sub[l]
  <2>1. m = c  BY <1>6, <1>10, <1>11
  <2>2. PICK x \in E : /\ l <= x /\ sub[x] = sub[l]
                       /\ \A y \in E : l <= y => x <= y
    BY NextEnd DEF E
  <2>3. PICK j0 : j0 = Nearer(x, E)  OBVIOUS
  <2>4. j0 \in 1 .. c  BY <1>1, <2>3, NearerFacts DEF c
  <2>5. A[j0] = x
    <3>1. A[j0] \in E /\ Nearer(A[j0], E) = Nearer(x, E)  BY <1>3, <2>3, <2>4
    <3>2. QED BY <1>1, <3>1, SamePlace
  <2> DEFINE reach == {j \in 1 .. CacheLength : e.sublen[j].length >= l}
  <2>6. l \in Nat /\ x \in Nat  BY <1>1 DEF MinMatch
  <2>7. j0 \in reach
    <3>1. e.sublen[j0].length = x /\ j0 \in 1 .. CacheLength  BY <1>7, <2>1, <2>4, <2>5
    <3>2. QED BY <2>2, <2>6, <3>1
  <2>8. ASSUME NEW j \in reach, j < j0 PROVE FALSE
    <3>1. j \in 1 .. m /\ j \in Nat  BY <1>2, <2>1, <2>4, <2>8
    <3>2. PICK a : a = A[j]  OBVIOUS
    <3>3. a \in E /\ a \in Nat /\ Nearer(a, E) = j /\ e.sublen[j].length = a  BY <1>7, <3>1, <3>2
    <3>4. l <= a  BY <2>6, <2>8, <3>3
    <3>5. x <= a  BY <2>2, <3>3, <3>4
    <3>6. x < a => Nearer(x, E) < Nearer(a, E)  BY <1>1, <3>3, NearerFacts
    <3>7. QED BY <1>2, <2>3, <2>4, <2>6, <2>8, <3>1, <3>3, <3>5, <3>6
  <2>9. Min(reach) = j0
    <3>1. reach \in SUBSET Nat  BY <1>2
    <3> HIDE DEF reach
    <3>2. Min(reach) \in reach /\ Min(reach) <= j0  BY <2>7, <3>1, MinOf
    <3>3. ~(Min(reach) < j0)  BY <2>8, <3>2
    <3>4. Min(reach) \in Nat /\ j0 \in Nat  BY <2>7, <3>1, <3>2
    <3>5. QED BY <3>2, <3>3, <3>4
  <2>10. Restored(e, n)[l] = e.sublen[j0].dist
    <3>1. Restored(e, n)[l] = IF reach = {} THEN Unset ELSE e.sublen[Min(reach)].dist
      BY DEF Restored
    <3> HIDE DEF reach
    <3>2. QED BY <2>7, <2>9, <3>1
  <2>11. e.sublen[j0].dist = sub[x]  BY <1>7, <2>1, <2>4, <2>5
  <2>12. QED BY <2>2, <2>10, <2>11
<1>12. QED BY <1>9, <1>11 DEF sub

(* An entry of the cache is empty, or what a search up to MaxMatch found,  *)
(* with its distances if there was room for them.                          *)
EntryOk(p, e) ==
  \/ e = EmptyEntry
  \/ /\ Available(e) /\ e.length \in Nat /\ e.length <= MaxMatch
     /\ e.length = 0 \/ e.length >= MinMatch
     /\ MaxCachedSublen(e) \in Nat
     /\ Found(p, MaxMatch, e.length, e.dist)
     /\ e.length <= MaxCachedSublen(e) => Distances(p, e.length, Restored(e, e.length))

CacheOk ==
  /\ lmc = [p \in instart .. Size - 1 |-> lmc[p]]
  /\ \A p \in instart .. Size - 1 : EntryOk(p, lmc[p])

AnswerFound(a) ==
  /\ a.pos \in Nat /\ windowstart <= a.pos /\ a.limit \in MinMatch .. MaxMatch
  /\ Found(a.pos, a.limit, a.length, a.dist)
  /\ a.sub => Distances(a.pos, a.length, a.sublen)

MInv == KInv /\ CacheOk /\ (answer # <<>> => AnswerFound(answer))

LEMMA EmptyIs == EmptyEntry.length = 1 /\ EmptyEntry.dist = 0 /\ ~Available(EmptyEntry)
BY DEF EmptyEntry, Available

(* Texts do not change.                                                    *)
LEMMA TextStays ==
  ASSUME text' = text, instart' = instart
  PROVE  /\ Size' = Size /\ windowstart' = windowstart
         /\ \A p, e : EntryOk(p, e)' <=> EntryOk(p, e)
         /\ \A a : AnswerFound(a)' <=> AnswerFound(a)
<1>1. Size' = Size /\ windowstart' = windowstart  BY DEF Size, windowstart
<1>2. \A p : At(p)' = At(p)  BY <1>1 DEF At
<1>3. V1' = V1 /\ V2' = V2
  <2>1. text' = text  OBVIOUS
  <2>2. QED BY <2>1 DEF V1, V2, val, Run, Exact, At, Size
<1>4. \A p, l : Reaches(p, l)' = Reaches(p, l)  BY <1>1, <1>2 DEF Reaches, Agree
<1>5. Sparse' <=> Sparse  BY <1>1, <1>3 DEF Sparse, Alike
<1>6. \A p, l, d : Right(p, l, d)' <=> Right(p, l, d)  BY <1>4, <1>5 DEF Right
<1>7. \A p, limit, l : Longest(p, limit, l)' <=> Longest(p, limit, l)  BY <1>4 DEF Longest
<1>8. \A p, limit, l, d : Found(p, limit, l, d)' <=> Found(p, limit, l, d)
  BY <1>5, <1>6, <1>7 DEF Found
<1>9. \A p, l, sub : Distances(p, l, sub)' <=> Distances(p, l, sub)  BY <1>6 DEF Distances
<1>10. \A p, e : EntryOk(p, e)' <=> EntryOk(p, e)
  BY <1>8, <1>9 DEF EntryOk, Available, MaxCachedSublen, Restored
<1>11. \A a : AnswerFound(a)' <=> AnswerFound(a)  BY <1>1, <1>8, <1>9 DEF AnswerFound
<1>12. QED BY <1>1, <1>10, <1>11

(* An answer from the cache is one that a search would give.               *)
LEMMA CacheAnswers ==
  ASSUME MInv, NEW p, Here(p), p >= instart, NEW limit \in MinMatch .. MaxMatch,
         NEW sub \in BOOLEAN, sub => limit = MaxMatch, FromCache(p, limit, sub)
  PROVE  AnswerFound(answer') /\ lmc' = lmc
<1>1. /\ p \in Nat /\ windowstart \in Nat /\ windowstart <= p /\ Size \in Nat /\ p < Size
  BY HereIs
<1>2. PICK e : e = lmc[p]  OBVIOUS
<1>3. EntryOk(p, e)
  <2>1. instart \in Nat  BY DEF MInv, KInv, SInv, Place
  <2>2. p \in instart .. Size - 1  BY <1>1, <2>1
  <2>3. QED BY <1>2, <2>2 DEF MInv, CacheOk
<1> DEFINE length == Least(e.length, limit)
           found == Restored(e, IF sub THEN length ELSE 0)
<1>4. /\ LimitOk(e, limit, sub) /\ Complete(e, sub) /\ lmc' = lmc
      /\ answer' = [pos |-> p, limit |-> limit, sub |-> sub, length |-> length,
                    dist |-> IF sub /\ length >= MinMatch THEN found[length] ELSE e.dist,
                    sublen |-> found]
  BY <1>2 DEF FromCache
<1>5. /\ Available(e) /\ e.length \in Nat /\ e.length <= MaxMatch
      /\ e.length = 0 \/ e.length >= MinMatch
      /\ MaxCachedSublen(e) \in Nat
      /\ Found(p, MaxMatch, e.length, e.dist)
      /\ e.length <= MaxCachedSublen(e) => Distances(p, e.length, Restored(e, e.length))
  BY <1>3, <1>4, EmptyIs DEF EntryOk, LimitOk
<1>6. limit \in Nat /\ limit <= MaxMatch /\ MaxMatch \in Nat /\ limit >= MinMatch
  BY MatchAssumption DEF MinMatch
<1>7. length = e.length /\ e.length <= limit
  <2>1. e.length <= limit  BY <1>4, <1>5, <1>6 DEF LimitOk
  <2>2. QED BY <1>5, <1>6, <2>1 DEF Least
<1>8. sub => Distances(p, length, found)
  <2>1. SUFFICES ASSUME sub PROVE Distances(p, length, found)  OBVIOUS
  <2>2. e.length <= MaxCachedSublen(e)  BY <1>4, <2>1 DEF Complete
  <2>3. found = Restored(e, e.length)  BY <1>7, <2>1
  <2>4. Distances(p, e.length, Restored(e, e.length))  BY <1>5, <2>2
  <2> HIDE DEF found, length
  <2>5. QED BY <1>7, <2>3, <2>4
<1> HIDE DEF found
<1>9. answer'.pos = p /\ answer'.limit = limit /\ answer'.sub = sub
      /\ answer'.length = length /\ answer'.sublen = found
      /\ answer'.dist = IF sub /\ length >= MinMatch THEN found[length] ELSE e.dist
  BY <1>4
<1> HIDE DEF length
<1>10. Found(p, limit, length, answer'.dist)
  <2>1. length >= MinMatch => Right(p, length, answer'.dist)
    <3>1. SUFFICES ASSUME length >= MinMatch PROVE Right(p, length, answer'.dist)  OBVIOUS
    <3>2. CASE sub
      <4>1. length \in MinMatch .. length  BY <1>5, <1>7, <3>1 DEF MinMatch
      <4>2. QED BY <1>8, <1>9, <3>1, <3>2, <4>1 DEF Distances
    <3>3. CASE ~sub  BY <1>5, <1>7, <1>9, <3>1, <3>3 DEF Found
    <3>4. QED BY <3>2, <3>3
  <2>2. Sparse => Longest(p, limit, length)
    <3>1. \A l \in MinMatch .. limit : l \in MinMatch .. MaxMatch  BY <1>6 DEF MinMatch
    <3>2. QED BY <1>5, <1>7, <3>1 DEF Found, Longest
  <2>3. QED BY <1>5, <1>7, <2>1, <2>2 DEF Found
<1>11. QED BY <1>1, <1>4, <1>8, <1>9, <1>10 DEF AnswerFound

(* No match goes beyond the end of the text.                               *)
LEMMA ReachesEnd ==
  ASSUME NEW p \in Nat, Size \in Nat, NEW l \in Nat, Reaches(p, l) # {}
  PROVE  l <= Size - p
BY DEF Reaches

(* Where a search stops: at the limit, at the end of the text, or at a     *)
(* length that is in the cache, which is then the longest.                 *)
StopsWell(p, limit, stop) ==
  /\ stop \in Nat /\ stop <= limit /\ p + stop <= Size
  /\ Size - p >= MinMatch => stop >= MinMatch
  /\ Sparse => \A l \in MinMatch .. limit : Reaches(p, l) # {} => l <= stop

LEMMA StopIs ==
  ASSUME MInv, NEW p, Here(p), p >= instart, NEW limit \in MinMatch .. MaxMatch,
         NEW sub \in BOOLEAN, sub => limit = MaxMatch,
         NEW e, e = lmc[p], ~(LimitOk(e, limit, sub) /\ Complete(e, sub))
  PROVE  StopsWell(p, limit,
                   Least(IF LimitOk(e, limit, sub) THEN e.length ELSE limit, Size - p))
<1> DEFINE known == IF LimitOk(e, limit, sub) THEN e.length ELSE limit
           stop  == Least(known, Size - p)
<1>1. /\ p \in Nat /\ windowstart \in Nat /\ windowstart <= p /\ Size \in Nat /\ p < Size
  BY HereIs
<1>2. limit \in Nat /\ limit <= MaxMatch /\ MaxMatch \in Nat /\ limit >= 3 /\ MinMatch = 3
  BY MatchAssumption DEF MinMatch
<1>3. /\ known \in Nat /\ known <= limit /\ known >= 3
      /\ Sparse => \A l \in MinMatch .. limit : Reaches(p, l) # {} => l <= known
  <2>1. CASE ~LimitOk(e, limit, sub)
    <3>1. known = limit  BY <2>1
    <3>2. QED BY <1>2, <3>1
  <2>2. CASE LimitOk(e, limit, sub)
    <3>1. known = e.length  BY <2>2
    <3>2. sub /\ ~(e.length <= MaxCachedSublen(e))  BY <2>2 DEF Complete
    <3>3. limit = MaxMatch  BY <3>2
    <3>4. EntryOk(p, e)
      <4>1. instart \in Nat  BY DEF MInv, KInv, SInv, Place
      <4>2. p \in instart .. Size - 1  BY <1>1, <4>1
      <4>3. QED BY <4>2 DEF MInv, CacheOk
    <3>5. Available(e)  BY <2>2 DEF LimitOk
    <3>6. /\ e.length \in Nat /\ e.length <= MaxMatch
          /\ e.length = 0 \/ e.length >= MinMatch
          /\ MaxCachedSublen(e) \in Nat
          /\ Found(p, MaxMatch, e.length, e.dist)
      BY <3>4, <3>5, EmptyIs DEF EntryOk
    <3>7. e.length >= 3  BY <1>2, <3>2, <3>6
    <3>8. Sparse => Longest(p, MaxMatch, e.length)  BY <3>6 DEF Found
    <3> HIDE DEF known
    <3>9. QED BY <3>1, <3>3, <3>6, <3>7, <3>8 DEF Longest
  <2>3. QED BY <2>1, <2>2
<1> HIDE DEF known
<1>4. /\ stop \in Nat /\ stop <= limit /\ p + stop <= Size
      /\ Size - p >= MinMatch => stop >= MinMatch
      /\ stop = known \/ stop = Size - p
  BY <1>1, <1>2, <1>3 DEF Least
<1> HIDE DEF stop
<1>5. ASSUME Sparse, NEW l \in MinMatch .. limit, Reaches(p, l) # {} PROVE l <= stop
  <2>1. l \in Nat /\ l <= known  BY <1>2, <1>3, <1>5
  <2>2. l <= Size - p  BY <1>1, <1>5, <2>1, ReachesEnd
  <2>3. QED BY <1>4, <2>1, <2>2
<1>6. StopsWell(p, limit, stop)  BY <1>4, <1>5 DEF StopsWell
<1>7. QED BY <1>6 DEF stop, known

(* What was found up to there is what there is up to the limit.            *)
LEMMA StopFinds ==
  ASSUME NEW p, Here(p), NEW limit \in Nat, limit <= MaxMatch,
         NEW stop, StopsWell(p, limit, stop),
         NEW found, found = IF Size - p < MinMatch THEN NotFound
                            ELSE Search(p, Visited(p, stop), stop)
  PROVE  /\ Found(p, limit, found.length, found.dist)
         /\ Distances(p, found.length, found.sublen)
         /\ found.length >= MinMatch => DOMAIN found.sublen = MinMatch .. found.length
<1>1. p \in Nat /\ Size \in Nat /\ MinMatch = 3 /\ MaxMatch \in Nat
  BY HereIs, MatchAssumption DEF MinMatch
<1>2. /\ Found(p, stop, found.length, found.dist)
      /\ Distances(p, found.length, found.sublen)
      /\ found.length >= MinMatch => DOMAIN found.sublen = MinMatch .. found.length
  <2>1. CASE Size - p < MinMatch
    <3>1. found.length = 0  BY <2>1 DEF NotFound
    <3>2. MinMatch .. stop = {} /\ MinMatch .. found.length = {} /\ ~(found.length >= MinMatch)
      BY <1>1, <2>1, <3>1 DEF StopsWell
    <3>3. Found(p, stop, found.length, found.dist)
      BY <3>1, <3>2 DEF Found, Longest
    <3>4. Distances(p, found.length, found.sublen)  BY <3>2 DEF Distances
    <3>5. QED BY <3>2, <3>3, <3>4
  <2>2. CASE ~(Size - p < MinMatch)
    <3>1. stop \in Nat /\ stop >= MinMatch /\ stop <= MaxMatch /\ p + stop <= Size
      BY <1>1, <2>2 DEF StopsWell
    <3>2. found = Search(p, Visited(p, stop), stop)  BY <2>2
    <3>3. QED BY <3>1, <3>2, SearchIs
  <2>3. QED BY <2>1, <2>2
<1>3. Found(p, limit, found.length, found.dist)
  <2>1. found.length \in Nat /\ stop \in Nat /\ stop <= limit  BY <1>2 DEF Found, StopsWell
  <2>2. found.length >= MinMatch => found.length <= limit /\ Right(p, found.length, found.dist)
    BY <1>2, <2>1 DEF Found
  <2>3. ASSUME Sparse, NEW l \in MinMatch .. limit, Reaches(p, l) # {}
        PROVE  l <= found.length
    <3>1. l <= stop  BY <2>3 DEF StopsWell
    <3>2. l \in MinMatch .. stop  BY <1>1, <2>1, <2>3, <3>1
    <3>3. QED BY <1>2, <2>3, <3>2 DEF Found, Longest
  <2>4. Sparse => Longest(p, limit, found.length)  BY <2>3 DEF Longest
  <2>5. QED BY <2>1, <2>2, <2>4 DEF Found
<1>4. QED BY <1>2, <1>3

(* What is put into the cache.                                             *)
Kept(old, found) ==
  IF found.length < MinMatch THEN [length |-> 0, dist |-> 0, sublen |-> old.sublen]
  ELSE [length |-> found.length, dist |-> found.dist, sublen |-> Stored(old, found)]

LEMMA KeptIs ==
  ASSUME NEW p, Here(p), NEW old, old = EmptyEntry, NEW found,
         Found(p, MaxMatch, found.length, found.dist),
         Distances(p, found.length, found.sublen),
         found.length >= MinMatch => DOMAIN found.sublen = MinMatch .. found.length
  PROVE  EntryOk(p, Kept(old, found))
<1>1. PICK e : e = Kept(old, found)  OBVIOUS
<1>2. PICK n : n = found.length  OBVIOUS
<1>3. n \in Nat /\ MinMatch = 3 /\ MaxMatch \in Nat /\ CacheLength \in Nat /\ CacheLength >= 1
  BY <1>2, MatchAssumption DEF Found, MinMatch
<1>4. CASE n < MinMatch
  <2>1. e = [length |-> 0, dist |-> 0, sublen |-> old.sublen]  BY <1>1, <1>2, <1>4 DEF Kept
  <2>2. e.length = 0 /\ e.dist = 0 /\ e.sublen = old.sublen  BY <2>1
  <2>3. MaxCachedSublen(e) = 0
    <3>1. 1 \in 1 .. CacheLength  BY <1>3
    <3>2. old.sublen[1].dist = 0  BY <3>1 DEF EmptyEntry
    <3>3. QED BY <2>2, <3>2 DEF MaxCachedSublen
  <2>4. MinMatch .. e.length = {} /\ ~(e.length >= MinMatch)  BY <1>3, <2>2
  <2>5. Sparse => Longest(p, MaxMatch, e.length)
    <3>1. \A l \in MinMatch .. MaxMatch : ~(l <= n)  BY <1>3, <1>4
    <3>2. QED BY <1>2, <3>1 DEF Found, Longest
  <2>6. Found(p, MaxMatch, e.length, e.dist)  BY <2>2, <2>4, <2>5 DEF Found
  <2>7. Distances(p, e.length, Restored(e, e.length))  BY <2>4 DEF Distances
  <2>8. Available(e) /\ e.length <= MaxMatch /\ e.length \in Nat
    BY <1>3, <2>2 DEF Available
  <2>9. MaxCachedSublen(e) \in Nat  BY <2>3
  <2>10. EntryOk(p, e)  BY <2>2, <2>6, <2>7, <2>8, <2>9 DEF EntryOk
  <2>11. QED BY <1>1, <2>10
<1>5. CASE ~(n < MinMatch)
  <2>1. e = [length |-> n, dist |-> found.dist, sublen |-> Stored(old, found)]
    BY <1>1, <1>2, <1>5 DEF Kept
  <2>2. e.length = n /\ e.dist = found.dist /\ e.sublen = Stored(old, found)  BY <2>1
  <2>3. n >= MinMatch  BY <1>3, <1>5
  <2>4. DOMAIN found.sublen = MinMatch .. n  BY <1>2, <2>3
  <2>5. /\ MaxCachedSublen(e) \in Nat
        /\ n <= MaxCachedSublen(e)
             => \A l \in MinMatch .. n : Restored(e, n)[l] = found.sublen[l]
    BY <1>2, <1>3, <2>2, <2>3, <2>4, StoredIs
  <2>6. Found(p, MaxMatch, n, e.dist)  BY <1>2, <2>2
  <2>7. n <= MaxMatch /\ Right(p, n, e.dist)  BY <2>3, <2>6 DEF Found
  <2>8. Available(e)
    <3>1. e.dist \in Reaches(p, n)  BY <2>7 DEF Right
    <3>2. e.dist >= 1
      <4>1. p \in Nat /\ windowstart \in Nat /\ windowstart <= p  BY HereIs
      <4>2. QED BY <1>3, <3>1, <4>1, ReachesIs
    <3>3. QED BY <3>2 DEF Available
  <2>9. n <= MaxCachedSublen(e) => Distances(p, n, Restored(e, n))
    BY <1>2, <2>5 DEF Distances
  <2>10. EntryOk(p, e)
    BY <1>3, <2>2, <2>3, <2>5, <2>6, <2>7, <2>8, <2>9 DEF EntryOk
  <2>11. QED BY <1>1, <2>10
<1>6. QED BY <1>4, <1>5

LEMMA SearchAnswers ==
  ASSUME MInv, NEW p, Here(p), p >= instart, NEW limit \in MinMatch .. MaxMatch,
         NEW sub \in BOOLEAN, sub => limit = MaxMatch, BySearch(p, limit, sub)
  PROVE  /\ AnswerFound(answer')
         /\ lmc' = lmc \/ \E e : EntryOk(p, e) /\ lmc' = [lmc EXCEPT ![p] = e]
<1>1. /\ p \in Nat /\ windowstart \in Nat /\ windowstart <= p /\ Size \in Nat /\ p < Size
  BY HereIs
<1>2. PICK old : old = lmc[p]  OBVIOUS
<1>3. PICK stop : stop = Least(IF LimitOk(old, limit, sub) THEN old.length ELSE limit, Size - p)
  OBVIOUS
<1>4. ~(LimitOk(old, limit, sub) /\ Complete(old, sub))  BY <1>2 DEF BySearch
<1>5. StopsWell(p, limit, stop)  BY <1>2, <1>3, <1>4, StopIs
<1>6. PICK found :
        /\ found = IF Size - p < MinMatch THEN NotFound ELSE Search(p, Visited(p, stop), stop)
        /\ answer' = [pos |-> p, limit |-> limit, sub |-> sub,
                      length |-> found.length, dist |-> found.dist,
                      sublen |-> IF sub THEN found.sublen ELSE <<>>]
        /\ lmc' = IF stop = MaxMatch /\ sub /\ ~Available(old)
                  THEN [lmc EXCEPT ![p] = Kept(old, found)]
                  ELSE lmc
  BY <1>2, <1>3 DEF BySearch, Kept
<1>7. limit \in Nat /\ limit <= MaxMatch  BY MatchAssumption DEF MinMatch
<1>8. /\ Found(p, limit, found.length, found.dist)
      /\ Distances(p, found.length, found.sublen)
      /\ found.length >= MinMatch => DOMAIN found.sublen = MinMatch .. found.length
  BY <1>5, <1>6, <1>7, StopFinds
<1>9. AnswerFound(answer')
  <2>1. /\ answer'.pos = p /\ answer'.limit = limit /\ answer'.sub = sub
        /\ answer'.length = found.length /\ answer'.dist = found.dist
        /\ sub => answer'.sublen = found.sublen
    BY <1>6
  <2>2. QED BY <1>1, <1>8, <2>1 DEF AnswerFound
<1>10. CASE stop = MaxMatch /\ sub /\ ~Available(old)
  <2>1. limit = MaxMatch  BY <1>10
  <2>2. EntryOk(p, old)
    <3>1. instart \in Nat  BY DEF MInv, KInv, SInv, Place
    <3>2. p \in instart .. Size - 1  BY <1>1, <3>1
    <3>3. QED BY <1>2, <3>2 DEF MInv, CacheOk
  <2>3. old = EmptyEntry  BY <1>10, <2>2 DEF EntryOk
  <2>4. EntryOk(p, Kept(old, found))  BY <1>8, <2>1, <2>3, KeptIs
  <2>5. lmc' = [lmc EXCEPT ![p] = Kept(old, found)]  BY <1>6, <1>10
  <2>6. QED BY <1>9, <2>4, <2>5
<1>11. CASE ~(stop = MaxMatch /\ sub /\ ~Available(old))  BY <1>6, <1>9, <1>11
<1>12. QED BY <1>10, <1>11

-----------------------------------------------------------------------------
(* The invariant, and what it says of answers.                             *)
LEMMA InitMatch == Init => MInv
<1> SUFFICES ASSUME Init PROVE MInv  OBVIOUS
<1>1. KInv  BY InitChain
<1>2. lmc = [p \in instart .. Size - 1 |-> EmptyEntry] /\ answer = <<>>  BY DEF Init, Size
<1>3. lmc = [p \in instart .. Size - 1 |-> lmc[p]]  BY <1>2
<1>4. \A p \in instart .. Size - 1 : EntryOk(p, lmc[p])  BY <1>2 DEF EntryOk
<1>5. CacheOk  BY <1>3, <1>4 DEF CacheOk
<1>6. QED BY <1>1, <1>2, <1>5 DEF MInv

(* Answers and entries are about the text alone.                           *)
LEMMA CacheStays ==
  ASSUME CacheOk, text' = text, instart' = instart,
         \/ lmc' = lmc
         \/ \E p, e : EntryOk(p, e) /\ lmc' = [lmc EXCEPT ![p] = e]
  PROVE  CacheOk'
<1>1. Size' = Size  BY TextStays
<1>2. ASSUME NEW p, NEW e PROVE EntryOk(p, e)' <=> EntryOk(p, e)  BY TextStays
<1> DEFINE D == instart .. Size - 1
<1>3. D' = D  BY <1>1
<1>4. lmc = [q \in D |-> lmc[q]] /\ \A q \in D : EntryOk(q, lmc[q])  BY DEF CacheOk
<1>5. lmc' = [q \in D |-> lmc'[q]] /\ \A q \in D : EntryOk(q, lmc'[q])
  <2>1. CASE lmc' = lmc  BY <1>4, <2>1
  <2>2. CASE \E p, e : EntryOk(p, e) /\ lmc' = [lmc EXCEPT ![p] = e]
    <3>1. PICK p, e : EntryOk(p, e) /\ lmc' = [lmc EXCEPT ![p] = e]  BY <2>2
    <3> HIDE DEF D
    <3>2. DOMAIN lmc = D  BY <1>4
    <3>3. lmc' = [q \in D |-> IF q = p THEN e ELSE lmc[q]]  BY <3>1, <3>2
    <3>4. lmc' = [q \in D |-> lmc'[q]]  BY <3>3
    <3>5. \A q \in D : lmc'[q] = IF q = p THEN e ELSE lmc[q]  BY <3>3
    <3>6. ASSUME NEW q \in D PROVE EntryOk(q, lmc'[q])
      <4>1. CASE q = p
        <5>1. lmc'[q] = e  BY <3>5, <4>1
        <5>2. QED BY <3>1, <4>1, <5>1
      <4>2. CASE q # p
        <5>1. lmc'[q] = lmc[q]  BY <3>5, <4>2
        <5>2. QED BY <1>4, <5>1
      <4>3. QED BY <4>1, <4>2
    <3>7. QED BY <3>4, <3>6
  <2>3. QED BY <2>1, <2>2
<1>6. \A q \in D : EntryOk(q, lmc[q])'
  <2>1. SUFFICES ASSUME NEW q \in D PROVE EntryOk(q, lmc[q])'  OBVIOUS
  <2>2. PICK e : e = lmc'[q]  OBVIOUS
  <2>3. EntryOk(q, e)'  BY <1>2, <1>5, <2>2
  <2>4. QED BY <2>2, <2>3
<1>7. QED BY <1>3, <1>5, <1>6 DEF CacheOk

LEMMA NextMatch == MInv /\ [Next]_vars => MInv'
<1> SUFFICES ASSUME MInv, [Next]_vars PROVE MInv'  OBVIOUS
<1>1. KInv /\ KInv'  BY NextChain DEF MInv
<1>2. text' = text /\ instart' = instart
  BY DEF Next, Update, Rewind, Find, vars
<1>3. CASE Update \/ Rewind
  <2>1. lmc' = lmc /\ answer' = <<>>  BY <1>3 DEF Update, Rewind
  <2>2. CacheOk'  BY <1>2, <2>1, CacheStays DEF MInv
  <2>3. QED BY <1>1, <2>1, <2>2 DEF MInv
<1>4. CASE Find
  <2>1. PICK p : p = i - 1  OBVIOUS
  <2>2. PICK limit \in MinMatch .. MaxMatch, sub \in BOOLEAN :
          /\ sub => limit = MaxMatch
          /\ FromCache(p, limit, sub) \/ BySearch(p, limit, sub)
    BY <1>4, <2>1 DEF Find
  <2>3. Here(p) /\ p >= instart
    <3>1. instart \in Nat /\ i \in Nat /\ i > instart /\ windowstart \in Nat
          /\ windowstart <= instart
      BY <1>1, <1>4, WindowStart DEF KInv, SInv, Place, Find
    <3>2. i > windowstart /\ p >= instart  BY <2>1, <3>1
    <3>3. QED BY <1>1, <2>1, <3>2 DEF Here
  <2>4. /\ AnswerFound(answer')
        /\ lmc' = lmc \/ \E e : EntryOk(p, e) /\ lmc' = [lmc EXCEPT ![p] = e]
    <3>1. CASE FromCache(p, limit, sub)  BY <2>2, <2>3, <3>1, CacheAnswers
    <3>2. CASE BySearch(p, limit, sub)  BY <2>2, <2>3, <3>2, SearchAnswers
    <3>3. QED BY <2>2, <3>1, <3>2
  <2>5. CacheOk'  BY <1>2, <2>4, CacheStays DEF MInv
  <2>6. AnswerFound(answer)'
    <3>1. PICK a : a = answer'  OBVIOUS
    <3>2. AnswerFound(a)' <=> AnswerFound(a)  BY <1>2, TextStays
    <3>3. QED BY <2>4, <3>1, <3>2
  <2>7. QED BY <1>1, <2>5, <2>6 DEF MInv
<1>5. CASE UNCHANGED vars
  <2>1. lmc' = lmc /\ answer' = answer  BY <1>5 DEF vars
  <2>2. CacheOk'  BY <1>2, <2>1, CacheStays DEF MInv
  <2>3. answer' # <<>> => AnswerFound(answer)'
    <3>1. PICK a : a = answer'  OBVIOUS
    <3>2. AnswerFound(a)' <=> AnswerFound(a)  BY <1>2, TextStays
    <3>3. QED BY <2>1, <3>1, <3>2 DEF MInv
  <2>4. QED BY <1>1, <2>2, <2>3 DEF MInv
<1>6. QED BY <1>3, <1>4, <1>5 DEF Next

(* Every answer is a match: at most as long as was asked for, and at the   *)
(* distance that goes with it the text agrees, for the length and, where   *)
(* all distances were asked for, for every smaller one.  This holds of any *)
(* text and any limit of the chains.                                       *)
AnswerMatches ==
  answer # <<>> /\ answer.length >= MinMatch =>
    /\ answer.length <= answer.limit
    /\ answer.dist \in Reaches(answer.pos, answer.length)
    /\ answer.sub => \A l \in MinMatch .. answer.length :
                       answer.sublen[l] \in Reaches(answer.pos, l)

LEMMA MatchInv == Spec => []MInv
BY InitMatch, NextMatch, PTL DEF Spec

(* ZopfliFindLongestMatch never gives a length and a distance that are not *)
(* a match, from the chains or from the cache.                             *)
THEOREM AlwaysMatches == Spec => []AnswerMatches
<1>1. ASSUME MInv PROVE AnswerMatches
  <2>1. SUFFICES ASSUME answer # <<>>, answer.length >= MinMatch
                 PROVE  /\ answer.length <= answer.limit
                        /\ answer.dist \in Reaches(answer.pos, answer.length)
                        /\ answer.sub => \A l \in MinMatch .. answer.length :
                                           answer.sublen[l] \in Reaches(answer.pos, l)
    BY DEF AnswerMatches
  <2>2. AnswerFound(answer)  BY <1>1, <2>1 DEF MInv
  <2>3. QED BY <2>1, <2>2 DEF AnswerFound, Found, Right, Distances
<1>2. QED BY <1>1, MatchInv, PTL

LEMMA LargestIs ==
  ASSUME NEW B \in Nat, NEW S \in SUBSET (0 .. B), NEW x \in S, \A y \in S : y <= x
  PROVE  Max(S) = x
<1>1. Max(S) \in S /\ \A y \in S : Max(S) >= y  BY MaxOf
<1>2. PICK m \in S : m = Max(S)  BY <1>1
<1>3. m \in Nat /\ x \in Nat /\ m >= x /\ m <= x  BY <1>1, <1>2
<1>4. QED BY <1>2, <1>3

LEMMA RightIsMin ==
  ASSUME Sparse, NEW p \in Nat, NEW l \in Nat, NEW d, Right(p, l, d), windowstart \in Nat
  PROVE  Min(Reaches(p, l)) = d /\ Reaches(p, l) # {}
<1>1. d \in Reaches(p, l) /\ \A e \in Reaches(p, l) : d <= e  BY DEF Right
<1>2. Reaches(p, l) \in SUBSET Nat  BY Sizes DEF Reaches, Least
<1>3. /\ Min(Reaches(p, l)) \in Reaches(p, l)
      /\ \A e \in Reaches(p, l) : Min(Reaches(p, l)) <= e
  BY <1>1, <1>2, MinOf
<1>4. Min(Reaches(p, l)) \in Nat /\ d \in Nat /\ Min(Reaches(p, l)) <= d
      /\ d <= Min(Reaches(p, l))
  BY <1>1, <1>2, <1>3
<1>5. QED BY <1>1, <1>4

(* Where no position has more positions of either hash in its window than  *)
(* ZOPFLI_MAX_CHAIN_HITS, ZopfliFindLongestMatch gives the longest match   *)
(* and the nearest distance of each length.                                *)
THEOREM AlwaysExact == Spec => [](Sparse => AnswerExact)
<1>1. ASSUME MInv, Sparse PROVE AnswerExact
  <2> DEFINE p == answer.pos
             n == answer.length
             best == {l \in MinMatch .. answer.limit : Reaches(p, l) # {}}
  <2>1. SUFFICES ASSUME answer # <<>>
                 PROVE  /\ n >= MinMatch <=> best # {}
                        /\ best # {} => /\ n = Max(best)
                                        /\ answer.dist = Min(Reaches(p, Max(best)))
                                        /\ answer.sub => \A l \in best :
                                             answer.sublen[l] = Min(Reaches(p, l))
    BY DEF AnswerExact
  <2>2. AnswerFound(answer)  BY <1>1, <2>1 DEF MInv
  <2>3. /\ p \in Nat /\ windowstart <= p /\ answer.limit \in MinMatch .. MaxMatch
        /\ n \in Nat /\ MinMatch = 3 /\ MaxMatch \in Nat /\ windowstart \in Nat
        /\ n >= MinMatch => n <= answer.limit /\ Right(p, n, answer.dist)
        /\ Longest(p, answer.limit, n)
        /\ answer.sub => Distances(p, n, answer.sublen)
    BY <1>1, <2>2, MatchAssumption, WindowStart
    DEF AnswerFound, Found, MinMatch, MInv, KInv, SInv, Place
  <2> HIDE DEF p, n
  <2>4. \A l \in best : l \in Nat /\ l >= MinMatch /\ l <= n
    BY <2>3 DEF Longest
  <2>5. ASSUME n >= MinMatch PROVE n \in best /\ answer.dist = Min(Reaches(p, n))
    <3>1. Min(Reaches(p, n)) = answer.dist /\ Reaches(p, n) # {}
      BY <1>1, <2>3, <2>5, RightIsMin
    <3>2. n \in MinMatch .. answer.limit  BY <2>3, <2>5
    <3>3. QED BY <3>1, <3>2
  <2>6. best \in SUBSET (0 .. MaxMatch)  BY <2>3
  <2>7. n >= MinMatch <=> best # {}
    <3>1. ASSUME best # {} PROVE n >= MinMatch
      <4>1. PICK l \in best : TRUE  BY <3>1
      <4> HIDE DEF best
      <4>2. QED BY <2>3, <2>4, <4>1
    <3>2. QED BY <2>5, <3>1
  <2>8. ASSUME best # {} PROVE n = Max(best)
    <3>1. n \in best  BY <2>5, <2>7, <2>8
    <3> HIDE DEF best
    <3>2. QED BY <2>3, <2>4, <2>6, <3>1, LargestIs
  <2>9. ASSUME answer.sub, NEW l \in best PROVE answer.sublen[l] = Min(Reaches(p, l))
    <3>1. l \in Nat /\ l \in MinMatch .. n
      <4> HIDE DEF best
      <4>1. QED BY <2>3, <2>4, <2>9
    <3>2. Right(p, l, answer.sublen[l])  BY <2>3, <2>9, <3>1 DEF Distances
    <3>3. QED BY <1>1, <2>3, <3>1, <3>2, RightIsMin
  <2> HIDE DEF best
  <2>10. QED BY <2>5, <2>7, <2>8, <2>9
<1>2. MInv => (Sparse => AnswerExact)  BY <1>1
<1>3. QED BY <1>2, MatchInv, PTL
=============================================================================
