------------------------------ MODULE NatLemmas ------------------------------
(***************************************************************************)
(* What the proofs of this project need to know of the natural numbers and *)
(* the provers do not: products and remainders by a number that is not a   *)
(* literal, the least element of a set, and induction over a set.          *)
(***************************************************************************)
EXTENDS Integers, FiniteSets, FiniteSetTheorems, TLAPS

(* A larger factor gives a larger product. *)
LEMMA MulMono ==
  ASSUME NEW a \in Nat, NEW b \in Nat, NEW c \in Nat, a <= b
  PROVE  a * c <= b * c /\ a * c \in Nat /\ b * c \in Nat
<1>1. PICK d \in Nat : b = a + d  BY b - a \in Nat
<1>2. b * c = a * c + d * c  BY <1>1
<1>3. d * c >= 0 /\ d * c \in Nat /\ a * c \in Nat  BY <1>1
<1>4. QED BY <1>1, <1>2, <1>3

(* Division with remainder. *)
LEMMA DivMod ==
  ASSUME NEW a \in Nat, NEW d \in Nat \ {0}
  PROVE  /\ a \div d \in Nat /\ a % d \in 0 .. d - 1
         /\ a = (a \div d) * d + (a % d)
<1>1. a \div d \in Nat /\ a % d \in 0 .. d - 1 /\ a = d * (a \div d) + (a % d)
  OBVIOUS
<1>2. \A q \in Nat : d * q = q * d  OBVIOUS
<1>3. QED BY <1>1, <1>2

(* There is one way to divide. *)
LEMMA DivModUnique ==
  ASSUME NEW d \in Nat \ {0}, NEW q \in Nat, NEW r \in 0 .. d - 1
  PROVE  (q * d + r) % d = r /\ (q * d + r) \div d = q
<1> DEFINE a == q * d + r
           p == a \div d
           s == a % d
<1>1. a \in Nat  BY MulMono
<1>2. p \in Nat /\ s \in 0 .. d - 1 /\ a = p * d + s  BY <1>1, DivMod
<1> HIDE DEF p, s
<1>3. CASE p < q
  <2>1. (p + 1) * d <= q * d  BY <1>2, <1>3, MulMono
  <2>2. (p + 1) * d = p * d + d  BY <1>2
  <2>3. q * d + r = p * d + s  BY <1>2
  <2>4. q * d \in Int /\ p * d \in Int  BY <1>2
  <2>5. FALSE  BY <1>2, <2>1, <2>2, <2>3, <2>4
  <2>6. QED BY <2>5
<1>4. CASE q < p
  <2>1. (q + 1) * d <= p * d  BY <1>2, <1>4, MulMono
  <2>2. (q + 1) * d = q * d + d  OBVIOUS
  <2>3. q * d + r = p * d + s  BY <1>2
  <2>4. q * d \in Int /\ p * d \in Int  BY <1>2
  <2>5. FALSE  BY <1>2, <2>1, <2>2, <2>3, <2>4
  <2>6. QED BY <2>5
<1>5. p = q  BY <1>2, <1>3, <1>4
<1>6. s = r
  <2>1. q * d + r = q * d + s /\ q * d \in Int  BY <1>2, <1>5
  <2>2. QED BY <1>2, <2>1
<1>7. QED BY <1>5, <1>6 DEF p, s

(* Remainders of numbers less than d apart differ. *)
LEMMA ModDiffer ==
  ASSUME NEW d \in Nat \ {0}, NEW a \in Nat, NEW b \in Nat, a < b, b - a < d
  PROVE  a % d # b % d
<1>1. SUFFICES ASSUME a % d = b % d PROVE FALSE  OBVIOUS
<1> DEFINE q == a \div d
           p == b \div d
           r == a % d
<1>2. q \in Nat /\ p \in Nat /\ r \in 0 .. d - 1 /\ a = q * d + r /\ b = p * d + r
  BY <1>1, DivMod
<1> HIDE DEF q, p, r
<1>3. q * d \in Int /\ p * d \in Int  BY <1>2
<1>4. CASE p <= q
  <2>1. p * d <= q * d  BY <1>2, <1>4, MulMono
  <2>2. QED BY <1>2, <1>3, <2>1
<1>5. CASE q < p
  <2>1. (q + 1) * d <= p * d  BY <1>2, <1>5, MulMono
  <2>2. (q + 1) * d = q * d + d  BY <1>2
  <2>3. QED BY <1>2, <1>3, <2>1, <2>2
<1>6. QED BY <1>2, <1>4, <1>5

(* A number less than d is its own remainder. *)
LEMMA ModSmall ==
  ASSUME NEW d \in Nat \ {0}, NEW a \in 0 .. d - 1
  PROVE  a % d = a /\ a \div d = 0
<1>1. 0 * d + a = a  OBVIOUS
<1>2. QED BY <1>1, DivModUnique

(* Once around. *)
LEMMA ModAround ==
  ASSUME NEW d \in Nat \ {0}, NEW a \in Nat
  PROVE  (a + d) % d = a % d
<1> DEFINE q == a \div d
           r == a % d
<1>1. q \in Nat /\ r \in 0 .. d - 1 /\ a = q * d + r  BY DivMod
<1> HIDE DEF q, r
<1>2. a + d = (q + 1) * d + r  BY <1>1
<1>3. (a + d) % d = r  BY <1>1, <1>2, DivModUnique
<1>4. QED BY <1>3 DEF r

(* One further. *)
LEMMA ModNext ==
  ASSUME NEW d \in Nat \ {0}, NEW a \in Nat
  PROVE  (a + 1) % d = IF (a % d) + 1 = d THEN 0 ELSE (a % d) + 1
<1> DEFINE q == a \div d
           r == a % d
<1>1. q \in Nat /\ r \in 0 .. d - 1 /\ a = q * d + r  BY DivMod
<1> HIDE DEF q, r
<1>2. CASE r + 1 = d
  <2>1. a + 1 = (q + 1) * d + 0  BY <1>1, <1>2
  <2>2. (a + 1) % d = 0  BY <1>1, <2>1, DivModUnique
  <2>3. QED BY <1>2, <2>2 DEF r
<1>3. CASE r + 1 # d
  <2>1. a + 1 = q * d + (r + 1) /\ r + 1 \in 0 .. d - 1  BY <1>1, <1>3
  <2>2. (a + 1) % d = r + 1  BY <1>1, <2>1, DivModUnique
  <2>3. QED BY <1>3, <2>2 DEF r
<1>4. QED BY <1>2, <1>3

(* A number that is increased by less than the divisor. *)
LEMMA ModPlus ==
  ASSUME NEW d \in Nat \ {0}, NEW a \in Nat, NEW e \in 0 .. d - 1
  PROVE  (a + e) % d = IF (a % d) + e < d THEN (a % d) + e ELSE (a % d) + e - d
<1> DEFINE q == a \div d
           r == a % d
<1>1. q \in Nat /\ r \in 0 .. d - 1 /\ a = q * d + r  BY DivMod
<1> HIDE DEF q, r
<1>2. q * d \in Nat /\ e \in Nat /\ r \in Nat  BY <1>1, MulMono
<1>3. CASE r + e < d
  <2> DEFINE s == r + e
  <2>1. s \in 0 .. d - 1 /\ a + e = q * d + s  BY <1>1, <1>2, <1>3
  <2> HIDE DEF s
  <2>2. (q * d + s) % d = s  BY <1>1, <2>1, DivModUnique
  <2>3. QED BY <1>3, <2>1, <2>2 DEF r, s
<1>4. CASE r + e >= d
  <2> DEFINE s == r + e - d
  <2>1. s \in 0 .. d - 1  BY <1>1, <1>2, <1>4
  <2>2. q + 1 \in Nat /\ (q + 1) * d = q * d + d  BY <1>1
  <2>3. a + e = (q + 1) * d + s  BY <1>1, <1>2, <2>2
  <2> HIDE DEF s
  <2>4. ((q + 1) * d + s) % d = s  BY <2>1, <2>2, DivModUnique
  <2>5. ~(r + e < d)  BY <1>2, <1>4
  <2>6. QED BY <2>3, <2>4, <2>5 DEF r, s
<1>5. QED BY <1>2, <1>3, <1>4

(* A term may be reduced before it is added. *)
LEMMA ModSum ==
  ASSUME NEW d \in Nat \ {0}, NEW a \in Nat, NEW b \in Nat
  PROVE  ((a % d) + b) % d = (a + b) % d /\ (a % d) \in Nat
<1> DEFINE q == a \div d
           r == a % d
           p == (r + b) \div d
           s == (r + b) % d
<1>1. q \in Nat /\ r \in 0 .. d - 1 /\ a = q * d + r  BY DivMod
<1> HIDE DEF q, r
<1>2. r \in Nat /\ r + b \in Nat  BY <1>1
<1>3. p \in Nat /\ s \in 0 .. d - 1 /\ r + b = p * d + s  BY <1>2, DivMod
<1> HIDE DEF p, s
<1>4. a + b = (q + p) * d + s
  <2>1. (q + p) * d = q * d + p * d /\ q * d \in Nat /\ p * d \in Nat  BY <1>1, <1>3
  <2>2. QED BY <1>1, <1>2, <1>3, <2>1
<1>5. q + p \in Nat  BY <1>1, <1>3
<1>6. (a + b) % d = s  BY <1>3, <1>4, <1>5, DivModUnique
<1>7. QED BY <1>2, <1>6 DEF r, s

(* Among as many numbers as the divisor says, one has any given remainder. *)
LEMMA ModBelow ==
  ASSUME NEW d \in Nat \ {0}, NEW a \in Nat, NEW b \in Nat, a <= b
  PROVE  \E r \in a .. b : r > b - d /\ r % d = a % d
<1> DEFINE c == b - a
           k == c \div d
           e == c % d
           q == a \div d
           s == a % d
<1>1. c \in Nat  OBVIOUS
<1>2. k \in Nat /\ e \in 0 .. d - 1 /\ c = k * d + e  BY <1>1, DivMod
<1>3. q \in Nat /\ s \in 0 .. d - 1 /\ a = q * d + s  BY DivMod
<1>4. b = a + c  BY <1>1
<1> HIDE DEF c, k, e, q, s
<1>5. k * d \in Nat /\ q * d \in Nat /\ e \in Nat /\ s \in Nat  BY <1>2, <1>3, MulMono
<1>6. q + k \in Nat /\ (q + k) * d = q * d + k * d  BY <1>2, <1>3
<1> DEFINE r == a + k * d
<1>7. r = (q + k) * d + s  BY <1>3, <1>5, <1>6
<1>8. ((q + k) * d + s) % d = s  BY <1>3, <1>6, DivModUnique
<1>9. r \in a .. b /\ r > b - d  BY <1>2, <1>4, <1>5
<1>10. r % d = a % d  BY <1>7, <1>8 DEF s
<1>11. QED BY <1>9, <1>10

-----------------------------------------------------------------------------
(* A set of natural numbers that is not empty has a least element. *)
LEMMA LeastOf ==
  ASSUME NEW S \in SUBSET Nat, S # {}
  PROVE  \E m \in S : \A k \in S : m <= k
<1> DEFINE Below == {0 .. k : k \in S}
<1>1. Below \subseteq FiniteSubsetsOf(Nat)
  <2>1. ASSUME NEW k \in S PROVE 0 .. k \in FiniteSubsetsOf(Nat)
    <3>1. IsFiniteSet(0 .. k)  BY FS_Interval
    <3>2. 0 .. k \subseteq Nat  OBVIOUS
    <3>3. QED BY <3>1, <3>2 DEF FiniteSubsetsOf
  <2>2. QED BY <2>1
<1>2. Below # {}  OBVIOUS
<1>3. IsWellFoundedOn(StrictSubsetOrdering(Nat), FiniteSubsetsOf(Nat))
  BY FS_StrictSubsetOrderingWellFounded
<1> HIDE DEF Below
<1>4. PICK x \in Below : \A y \in Below : ~(<<y, x>> \in StrictSubsetOrdering(Nat))
  BY <1>1, <1>2, <1>3, WFMin
<1>5. PICK m \in S : x = 0 .. m  BY DEF Below
<1>6. ASSUME NEW k \in S, k < m PROVE FALSE
  <2>1. 0 .. k \in Below  BY DEF Below
  <2>2. 0 .. k \subseteq 0 .. m /\ m \in 0 .. m /\ m \notin 0 .. k  BY <1>6
  <2>3. <<0 .. k, 0 .. m>> \in (SUBSET Nat) \X (SUBSET Nat)  OBVIOUS
  <2>4. <<0 .. k, 0 .. m>> \in StrictSubsetOrdering(Nat)
    BY <2>2, <2>3 DEF StrictSubsetOrdering
  <2>5. QED BY <1>4, <1>5, <2>1, <2>4
<1>7. QED BY <1>6

(* Induction, for the set of the numbers of which something holds. *)
LEMMA SetInduction ==
  ASSUME NEW S \in SUBSET Nat, 0 \in S, \A k \in S : k + 1 \in S
  PROVE  S = Nat
<1>1. SUFFICES ASSUME Nat \ S # {} PROVE FALSE  OBVIOUS
<1>2. PICK m \in Nat \ S : \A k \in Nat \ S : m <= k  BY <1>1, LeastOf
<1>3. m - 1 \in Nat /\ m - 1 \notin S  BY <1>2
<1>4. QED BY <1>2, <1>3

(* A function that is defined by recursion exists; step F may depend on    *)
(* the argument.                                                           *)
IsStep(n, D, F) == F \in [(1 .. n) \X D -> D]
IsRecursion(n, D, x, F, g) ==
  g \in [0 .. n -> D] /\ g[0] = x /\ \A k \in 1 .. n : g[k] = F[<<k, g[k - 1]>>]

LEMMA RecursionExists ==
  ASSUME NEW n \in Nat, NEW D, NEW x \in D, NEW F, IsStep(n, D, F)
  PROVE  \E g : IsRecursion(n, D, x, F, g)
<1> DEFINE Upto(m, g) == g[0] = x /\ \A k \in 1 .. m : g[k] = F[<<k, g[k - 1]>>]
           S == {m \in Nat : m <= n => \E g \in [0 .. m -> D] : Upto(m, g)}
<1>1. 0 \in S
  <2> DEFINE g == [k \in 0 .. 0 |-> x]
  <2>1. g \in [0 .. 0 -> D] /\ g[0] = x /\ 1 .. 0 = {}  OBVIOUS
  <2> HIDE DEF g
  <2>2. Upto(0, g)  BY <2>1
  <2>3. QED BY <2>1, <2>2
<1>2. ASSUME NEW m \in S PROVE m + 1 \in S
  <2>1. m \in Nat  OBVIOUS
  <2>0. F \in [(1 .. n) \X D -> D]  BY DEF IsStep
  <2>2. SUFFICES ASSUME m + 1 <= n PROVE \E g \in [0 .. m + 1 -> D] : Upto(m + 1, g)
    BY <2>1
  <2>3. m <= n  BY <2>1, <2>2
  <2>4. PICK g \in [0 .. m -> D] : Upto(m, g)  BY <2>3
  <2> DEFINE h == [k \in 0 .. m + 1 |-> IF k = m + 1 THEN F[<<m + 1, g[m]>>] ELSE g[k]]
  <2>5. F[<<m + 1, g[m]>>] \in D
    <3>1. m + 1 \in 1 .. n /\ m \in 0 .. m  BY <2>1, <2>2
    <3>2. g[m] \in D  BY <3>1
    <3>3. QED BY <2>0, <3>1, <3>2
  <2>6. \A k \in 0 .. m + 1 : k # m + 1 => k \in 0 .. m  BY <2>1
  <2>7. h \in [0 .. m + 1 -> D]  BY <2>5, <2>6
  <2>8. h[0] = x
    <3>1. 0 \in 0 .. m + 1 /\ 0 # m + 1  BY <2>1
    <3>2. QED BY <2>4, <3>1
  <2>9. ASSUME NEW k \in 1 .. m + 1 PROVE h[k] = F[<<k, h[k - 1]>>]
    <3>1. /\ k \in 0 .. m + 1 /\ k - 1 \in 0 .. m + 1 /\ k - 1 # m + 1 /\ m \in 0 .. m
          /\ k # m + 1 => k \in 1 .. m
      BY <2>1
    <3>2. h[k - 1] = g[k - 1]  BY <3>1
    <3>3. CASE k = m + 1  BY <2>1, <3>1, <3>2, <3>3
    <3>4. CASE k # m + 1
      <4>1. h[k] = g[k]  BY <3>1, <3>4
      <4>2. g[k] = F[<<k, g[k - 1]>>]  BY <2>4, <3>1, <3>4
      <4>3. QED BY <3>2, <4>1, <4>2
    <3>5. QED BY <3>3, <3>4
  <2> HIDE DEF h
  <2>10. QED BY <2>7, <2>8, <2>9
<1>3. S = Nat
  <2> HIDE DEF S
  <2>1. S \in SUBSET Nat  BY DEF S
  <2>2. QED BY <1>1, <1>2, <2>1, SetInduction
<1>4. n \in S  BY <1>3
<1>5. QED BY <1>4 DEF IsRecursion

(* The greatest one below a bound. *)
LEMMA GreatestBelow ==
  ASSUME NEW S \in SUBSET Nat, NEW p \in Nat, \E q \in S : q < p
  PROVE  \E q \in S : q < p /\ \A r \in S : ~(q < r /\ r < p)
<1> DEFINE D == {d \in Nat : d > 0 /\ p - d \in S}
<1>1. D # {}
  <2>1. PICK q \in S : q < p  OBVIOUS
  <2>2. p - q \in Nat /\ p - q > 0 /\ p - (p - q) = q  BY <2>1
  <2>3. QED BY <2>1, <2>2
<1>2. PICK d \in D : \A e \in D : d <= e  BY <1>1, LeastOf
<1>3. p - d \in S /\ p - d < p  BY <1>2
<1>4. ASSUME NEW r \in S, p - d < r, r < p PROVE FALSE
  <2>1. p - r \in Nat /\ p - r > 0 /\ p - (p - r) = r /\ p - r < d  BY <1>2, <1>4
  <2>2. p - r \in D  BY <2>1
  <2>3. QED BY <1>2, <2>1, <2>2
<1>5. QED BY <1>3, <1>4

(* Bounds on a quotient.                                                   *)
LEMMA DivAtMost ==
  ASSUME NEW a \in Nat, NEW d \in Nat \ {0}, NEW k \in Nat, a < (k + 1) * d
  PROVE  a \div d <= k
<1> DEFINE q == a \div d
<1>1. q \in Nat /\ a % d \in 0 .. d - 1 /\ a = q * d + (a % d)  BY DivMod
<1> HIDE DEF q
<1>2. SUFFICES ASSUME k + 1 <= q PROVE FALSE  BY <1>1 DEF q
<1>3. (k + 1) * d <= q * d /\ (k + 1) * d \in Nat /\ q * d \in Nat
  <2>1. k + 1 \in Nat  OBVIOUS
  <2>2. QED BY <1>1, <1>2, <2>1, MulMono
<1>4. a % d \in Nat  BY <1>1
<1>5. QED BY <1>1, <1>3, <1>4

LEMMA DivAtLeast ==
  ASSUME NEW a \in Nat, NEW d \in Nat \ {0}, NEW k \in Nat, k * d <= a
  PROVE  k <= a \div d
<1> DEFINE q == a \div d
<1>1. q \in Nat /\ a % d \in 0 .. d - 1 /\ a = q * d + (a % d)  BY DivMod
<1> HIDE DEF q
<1>2. SUFFICES ASSUME q + 1 <= k PROVE FALSE  BY <1>1 DEF q
<1>3. (q + 1) * d <= k * d /\ (q + 1) * d \in Nat /\ k * d \in Nat
  <2>1. q + 1 \in Nat  BY <1>1
  <2>2. QED BY <1>2, <2>1, MulMono
<1>4. (q + 1) * d = q * d + d  BY <1>1
<1>5. q * d \in Nat  BY <1>1, MulMono
<1>6. QED BY <1>1, <1>3, <1>4, <1>5

(* Powers of two count the subsets of a set.                               *)
LEMMA PowerOfTwo ==
  ASSUME NEW k \in Nat
  PROVE  2 ^ k \in Nat \ {0} /\ 2 ^ (k + 1) = 2 * 2 ^ k
<1> DEFINE S == SUBSET (1 .. k)
           T == SUBSET (1 .. k + 1)
           With == [s \in S |-> s \cup {k + 1}]
           E == {s \cup {k + 1} : s \in S}
<1>1. IsFiniteSet(S) /\ Cardinality(S) = 2 ^ k
  <2>1. IsFiniteSet(1 .. k) /\ Cardinality(1 .. k) = k  BY FS_Interval
  <2>2. QED BY <2>1, FS_SUBSET
<1>2. IsFiniteSet(T) /\ Cardinality(T) = 2 ^ (k + 1)
  <2>1. IsFiniteSet(1 .. k + 1) /\ Cardinality(1 .. k + 1) = k + 1  BY FS_Interval
  <2>2. QED BY <2>1, FS_SUBSET
<1>3. 2 ^ k \in Nat \ {0}  BY <1>1, {} \in S, FS_CardinalityType, FS_EmptySet
<1>4. With \in Bijection(S, E)
  <2>1. With \in [S -> E]  OBVIOUS
  <2>2. ASSUME NEW s \in S, NEW t \in S, With[s] = With[t] PROVE s = t
    <3>1. k + 1 \notin s /\ k + 1 \notin t  OBVIOUS
    <3>2. QED BY <2>2, <3>1
  <2>3. \A e \in E : \E s \in S : With[s] = e  OBVIOUS
  <2> HIDE DEF With, S, E
  <2>4. \A s, t \in S : With[s] = With[t] => s = t  BY <2>2
  <2>5. With \in Injection(S, E)  BY <2>1, <2>4 DEF Injection, IsInjective
  <2>6. With \in Surjection(S, E)  BY <2>1, <2>3 DEF Surjection
  <2>7. QED BY <2>5, <2>6 DEF Bijection
<1>5. IsFiniteSet(E) /\ Cardinality(E) = 2 ^ k
  <2>1. ExistsBijection(S, E)  BY <1>4 DEF ExistsBijection
  <2>2. QED BY <1>1, <2>1, FS_Bijection
<1>6. T = S \cup E /\ S \cap E = {}
  <2>1. T \subseteq S \cup E
    <3>1. SUFFICES ASSUME NEW t \in T PROVE t \in S \cup E  OBVIOUS
    <3>2. CASE k + 1 \in t
      <4>1. t \ {k + 1} \in S  OBVIOUS
      <4>2. t = (t \ {k + 1}) \cup {k + 1}  BY <3>2
      <4>3. QED BY <4>1, <4>2
    <3>3. CASE k + 1 \notin t
      <4>1. t \in S  BY <3>3
      <4>2. QED BY <4>1
    <3>4. QED BY <3>2, <3>3
  <2>2. S \cup E \subseteq T
    <3>1. 1 .. k \subseteq 1 .. k + 1 /\ k + 1 \in 1 .. k + 1  OBVIOUS
    <3>2. QED BY <3>1
  <2>3. S \cap E = {}
    <3>1. k + 1 \notin 1 .. k  OBVIOUS
    <3>2. QED BY <3>1
  <2>4. QED BY <2>1, <2>2, <2>3
<1>7. Cardinality(T) = Cardinality(S) + Cardinality(E) - Cardinality({})
  BY <1>1, <1>5, <1>6, FS_Union
<1>8. QED BY <1>1, <1>2, <1>3, <1>5, <1>7, FS_EmptySet

(* Remainders of the numbers around 0 .. d - 1. *)
LEMMA ModAbout ==
  ASSUME NEW d \in Nat \ {0}, NEW a \in Int, -d <= a, a < 2 * d
  PROVE  a % d = IF a < 0 THEN a + d ELSE IF a < d THEN a ELSE a - d
<1>1. CASE a < 0
  <2>1. PICK b \in 1 .. d : a = -b  BY <1>1, -a \in 1 .. d, a = -(-a)
  <2>2. (-b) % d = d - b  OBVIOUS
  <2>3. QED BY <1>1, <2>1, <2>2
<1>2. CASE 0 <= a /\ a < d  BY <1>2, ModSmall
<1>3. CASE d <= a
  <2>1. PICK b \in 0 .. d - 1 : a = b + d  BY <1>3, a - d \in 0 .. d - 1
  <2>2. (b + d) % d = b  BY ModAround, ModSmall
  <2>3. QED BY <1>3, <2>1, <2>2
<1>4. QED BY <1>1, <1>2, <1>3

(* A digit more, and the place of the rest moved. *)
LEMMA HalfDiv ==
  ASSUME NEW c \in Nat, NEW y \in {0, 1}, NEW k \in Nat
  PROVE  (2 * c + y) \div 2 ^ (k + 1) = c \div 2 ^ k
<1>1. PICK D \in Nat \ {0} : D = 2 ^ k /\ 2 ^ (k + 1) = 2 * D  BY PowerOfTwo
<1>2. PICK q \in Nat, r \in 0 .. D - 1 : c = q * D + r /\ c \div D = q  BY <1>1, DivMod
<1>3. 2 * D \in Nat \ {0} /\ 2 * r + y \in 0 .. 2 * D - 1  BY <1>1
<1>4. 2 * c + y = q * (2 * D) + (2 * r + y)
  <2>1. PICK z \in Int : z = q * D  BY <1>1, <1>2
  <2>2. q * (2 * D) = 2 * z  BY <2>1
  <2>3. QED BY <1>2, <2>1, <2>2
<1>5. (q * (2 * D) + (2 * r + y)) \div (2 * D) = q  BY <1>3, DivModUnique
<1>6. QED BY <1>1, <1>2, <1>4, <1>5
=============================================================================
