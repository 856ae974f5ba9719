-------------------------- MODULE CacmCoder_proofs --------------------------
(***************************************************************************)
(* The adaptive model and the arithmetic coder of cacm-87.shar, for every  *)
(* alphabet and every width of the code values: the model stays            *)
(* consistent, every symbol has a part of the region, the decoder's value  *)
(* never leaves its region, and the decoder of a complete archive passes   *)
(* the states of the encoder and ends with its input.                      *)
(***************************************************************************)
EXTENDS CacmCoder, NatLemmas, SequenceTheorems

N == No_of_symbols

LEMMA IndexFacts ==
  /\ N \in Nat /\ N >= 2 /\ No_of_chars \in Nat /\ N = No_of_chars + 1 /\ Index = 0 .. N
  /\ Symbol = 1 .. N /\ EOF_symbol = N /\ Max_frequency \in Nat /\ Max_frequency > N
BY ModelAssumption DEF N, No_of_symbols, Index, Symbol, EOF_symbol

-----------------------------------------------------------------------------
(* The totals of frequencies. *)
Adds(c, f) ==
  c[N] = 0 /\ \A i \in 0 .. N - 1 : c[i] = c[i + 1] + f[i + 1]

LEMMA TotalsAre ==
  ASSUME NEW f \in [Index -> Nat], NEW c \in [Index -> Nat], Adds(c, f)
  PROVE  Totals(f) = c
<1> DEFINE Next_(d) == [i \in Index |-> IF i = No_of_symbols THEN 0 ELSE d[i + 1] + f[i + 1]]
           g == CHOOSE d : d = Next_(d)
<1>1. c = Next_(c)
  <2>1. \A i \in Index : c[i] = Next_(c)[i]  BY IndexFacts DEF Adds, N
  <2>2. QED BY <2>1
<1>2. g = Next_(g)  BY <1>1
<1>3. Totals(f) = g  BY DEF Totals
<1> HIDE DEF g
<1> DEFINE S == {k \in Nat : k > N \/ g[N - k] = c[N - k]}
<1>4. 0 \in S  BY <1>2, IndexFacts DEF Adds, N
<1>5. ASSUME NEW k \in S PROVE k + 1 \in S
  <2>1. CASE k + 1 > N  BY <2>1
  <2>2. CASE k + 1 <= N
    <3> DEFINE i == N - (k + 1)
    <3>1. i \in 0 .. N - 1 /\ i + 1 = N - k /\ i \in Index /\ ~(k > N)
      BY <2>2, IndexFacts
    <3>2. g[i + 1] = c[i + 1]  BY <1>5, <3>1
    <3>3. c[i] = c[i + 1] + f[i + 1]  BY <3>1 DEF Adds
    <3>4. g[i] = g[i + 1] + f[i + 1]
      <4>1. g[i] = Next_(g)[i]  BY <1>2
      <4>2. i # No_of_symbols  BY <3>1, IndexFacts DEF N
      <4>3. QED BY <3>1, <4>1, <4>2
    <3>5. QED BY <3>2, <3>3, <3>4
  <2>3. QED BY <2>1, <2>2, IndexFacts
<1>6. S = Nat  BY <1>4, <1>5, SetInduction
<1>7. ASSUME NEW i \in Index PROVE g[i] = c[i]
  <2>1. N - i \in Nat /\ ~(N - i > N) /\ N - (N - i) = i  BY IndexFacts
  <2>2. N - i \in S  BY <1>6, <2>1
  <2>3. QED BY <2>1, <2>2
<1>8. g = c
  <2>1. g = [i \in Index |-> g[i]]  BY <1>2
  <2>2. QED BY <1>7, <2>1
<1>9. QED BY <1>3, <1>8

LEMMA TotalsExist ==
  ASSUME NEW f \in [Index -> Nat]
  PROVE  \E c \in [Index -> Nat] : Adds(c, f)
<1> DEFINE From(k) == \E c \in [N - k .. N -> Nat] :
                        /\ c[N] = 0
                        /\ \A i \in N - k .. N - 1 : c[i] = c[i + 1] + f[i + 1]
           S == {k \in Nat : k > N \/ From(k)}
<1>1. 0 \in S
  <2>1. From(0)
    <3>1. [i \in N - 0 .. N |-> 0] \in [N - 0 .. N -> Nat]  OBVIOUS
    <3>2. \A c \in [N - 0 .. N -> Nat] :
             c = [i \in N - 0 .. N |-> 0]
               => c[N] = 0 /\ \A i \in N - 0 .. N - 1 : c[i] = c[i + 1] + f[i + 1]
      BY IndexFacts
    <3>3. QED BY <3>1, <3>2
  <2>2. QED BY <2>1
<1>2. ASSUME NEW k \in S PROVE k + 1 \in S
  <2>1. CASE k + 1 > N  BY <2>1
  <2>2. CASE k + 1 <= N
    <3> DEFINE l == N - (k + 1)
    <3>1. PICK c \in [N - k .. N -> Nat] :
            /\ c[N] = 0
            /\ \A i \in N - k .. N - 1 : c[i] = c[i + 1] + f[i + 1]
      BY <1>2, <2>2, IndexFacts
    <3>2. l \in 0 .. N - 1 /\ l + 1 = N - k /\ l + 1 \in Index /\ l + 1 \in N - k .. N
      BY <2>2, IndexFacts
    <3> DEFINE d == [i \in l .. N |-> IF i = l THEN c[l + 1] + f[l + 1] ELSE c[i]]
    <3>3. d \in [l .. N -> Nat]
      <4>1. c[l + 1] + f[l + 1] \in Nat  BY <3>2
      <4>2. ASSUME NEW i \in l .. N, i # l PROVE c[i] \in Nat
        <5>1. i \in N - k .. N  BY <3>2, <4>2, IndexFacts
        <5>2. QED BY <5>1
      <4>3. QED BY <4>1, <4>2
    <3>4. d[N] = 0
      <4>1. N \in l .. N /\ N # l  BY <3>2, IndexFacts
      <4>2. QED BY <3>1, <4>1
    <3>5. ASSUME NEW i \in l .. N - 1 PROVE d[i] = d[i + 1] + f[i + 1]
      <4>1. i + 1 \in l .. N /\ i + 1 # l /\ i \in l .. N  BY <3>2, IndexFacts
      <4>2. d[i + 1] = c[i + 1]  BY <4>1
      <4>3. CASE i = l  BY <4>1, <4>2, <4>3
      <4>4. CASE i # l
        <5>1. i \in N - k .. N - 1  BY <3>2, <4>4, IndexFacts
        <5>2. QED BY <3>1, <4>1, <4>2, <4>4, <5>1
      <4>5. QED BY <4>3, <4>4
    <3> HIDE DEF d
    <3>6. From(k + 1)  BY <3>3, <3>4, <3>5
    <3> HIDE DEF From
    <3>7. QED BY <3>6
  <2> HIDE DEF From
  <2>3. QED BY <2>1, <2>2, IndexFacts
<1> HIDE DEF From
<1>3. S = Nat  BY <1>1, <1>2, SetInduction
<1>4. From(N)
  <2>1. N \in S /\ ~(N > N)  BY <1>3, IndexFacts
  <2>2. QED BY <2>1
<1>5. N - N = 0 /\ 0 .. N = Index  BY IndexFacts
<1>6. QED BY <1>4, <1>5 DEF From, Adds

LEMMA TotalsAdd ==
  ASSUME NEW f \in [Index -> Nat]
  PROVE  Totals(f) \in [Index -> Nat] /\ Adds(Totals(f), f)
BY TotalsExist, TotalsAre

(* The totals go down from index to index. *)
LEMMA TotalsFall ==
  ASSUME NEW f \in [Index -> Nat], NEW c \in [Index -> Nat], Adds(c, f)
  PROVE  \A s \in Index : c[s] <= c[0]
<1> DEFINE S == {k \in Nat : k > N \/ c[k] <= c[0]}
<1>1. 0 \in S  BY IndexFacts
<1>2. ASSUME NEW k \in S PROVE k + 1 \in S
  <2>1. CASE k + 1 > N  BY <2>1
  <2>2. CASE k + 1 <= N
    <3>1. k \in 0 .. N - 1 /\ k \in Index /\ k + 1 \in Index /\ ~(k > N) /\ 0 \in Index
      BY <2>2, IndexFacts
    <3>2. c[k] = c[k + 1] + f[k + 1] /\ c[k] <= c[0]  BY <1>2, <3>1 DEF Adds
    <3>3. c[k] \in Nat /\ c[k + 1] \in Nat /\ f[k + 1] \in Nat /\ c[0] \in Nat  BY <3>1
    <3>4. c[k + 1] <= c[0]  BY <3>2, <3>3
    <3>5. QED BY <3>4
  <2>3. QED BY <2>1, <2>2, IndexFacts
<1>3. S = Nat  BY <1>1, <1>2, SetInduction
<1>4. ASSUME NEW s \in Index PROVE c[s] <= c[0]
  <2>1. s \in Nat /\ ~(s > N)  BY IndexFacts
  <2>2. s \in S  BY <1>3, <2>1
  <2>3. QED BY <2>1, <2>2
<1>5. QED BY <1>4

(* Rounding up adds at most one half for every symbol. *)
LEMMA HalvesTotal ==
  ASSUME NEW f \in [Index -> Nat], NEW h \in [Index -> Nat],
         \A i \in Index : 2 * h[i] <= f[i] + 1
  PROVE  2 * Totals(h)[0] <= Totals(f)[0] + N
<1> DEFINE c == Totals(f)
           d == Totals(h)
           S == {k \in Nat : k > N \/ 2 * d[N - k] <= c[N - k] + k}
<1>1. c \in [Index -> Nat] /\ Adds(c, f) /\ d \in [Index -> Nat] /\ Adds(d, h)
  BY TotalsAdd
<1> HIDE DEF c, d
<1>2. 0 \in S  BY <1>1, IndexFacts DEF Adds
<1>3. ASSUME NEW k \in S PROVE k + 1 \in S
  <2>1. CASE k + 1 > N  BY <2>1
  <2>2. CASE k + 1 <= N
    <3> DEFINE i == N - (k + 1)
    <3>1. i \in 0 .. N - 1 /\ i + 1 = N - k /\ i \in Index /\ i + 1 \in Index /\ ~(k > N)
      BY <2>2, IndexFacts
    <3>2. 2 * d[i + 1] <= c[i + 1] + k  BY <1>3, <3>1
    <3>3. c[i] = c[i + 1] + f[i + 1] /\ d[i] = d[i + 1] + h[i + 1]  BY <1>1, <3>1 DEF Adds
    <3>4. 2 * h[i + 1] <= f[i + 1] + 1  BY <3>1
    <3>5. /\ c[i] \in Nat /\ c[i + 1] \in Nat /\ d[i] \in Nat /\ d[i + 1] \in Nat
          /\ f[i + 1] \in Nat /\ h[i + 1] \in Nat
      BY <1>1, <3>1
    <3>6. 2 * d[i] <= c[i] + (k + 1)  BY <3>2, <3>3, <3>4, <3>5
    <3>7. QED BY <3>6
  <2>3. QED BY <2>1, <2>2, IndexFacts
<1>4. S = Nat  BY <1>2, <1>3, SetInduction
<1>5. N \in Nat /\ N - N = 0 /\ ~(N > N)  BY IndexFacts
<1>6. N \in S  BY <1>4, <1>5
<1>7. 2 * d[0] <= c[0] + N  BY <1>5, <1>6
<1>8. QED BY <1>7 DEF c, d

-----------------------------------------------------------------------------
(* The model. *)
Model ==
  [freq : [Index -> Nat], cum_freq : [Index -> Nat],
   char_to_index : [Char -> 1 .. No_of_chars], index_to_char : [1 .. No_of_chars -> Char]]

LEMMA ModelFields ==
  ASSUME NEW a \in Model
  PROVE  /\ a.freq \in [Index -> Nat] /\ a.cum_freq \in [Index -> Nat]
         /\ a.char_to_index \in [Char -> 1 .. No_of_chars]
         /\ a.index_to_char \in [1 .. No_of_chars -> Char]
BY DEF Model

(* What the coder needs of the totals. *)
LEMMA TotalsOrder ==
  ASSUME NEW a \in Model, Consistent(a)
  PROVE  /\ a.cum_freq[0] \in Nat \ {0} /\ a.cum_freq[0] <= Max_frequency
         /\ a.cum_freq[N] = 0
         /\ \A s \in Symbol : /\ a.cum_freq[s] \in Nat /\ a.cum_freq[s - 1] \in Nat
                              /\ a.cum_freq[s] + 1 <= a.cum_freq[s - 1]
                              /\ a.cum_freq[s - 1] <= a.cum_freq[0]
<1> DEFINE f == a.freq
           c == a.cum_freq
<1>1. f \in [Index -> Nat] /\ c \in [Index -> Nat] /\ c = Totals(f)
  BY ModelFields DEF Consistent
<1>2. Adds(c, f)  BY <1>1, TotalsAdd
<1>3. \A s \in Symbol : f[s] >= 1  BY DEF Consistent
<1> HIDE DEF f, c
<1>4. ASSUME NEW s \in Symbol
      PROVE  c[s] \in Nat /\ c[s - 1] \in Nat /\ c[s] + 1 <= c[s - 1] /\ c[s - 1] <= c[0]
  <2>1. s - 1 \in 0 .. N - 1 /\ s - 1 \in Index /\ s \in Index /\ (s - 1) + 1 = s
    BY IndexFacts
  <2>2. c[s - 1] = c[s] + f[s]  BY <1>2, <2>1 DEF Adds
  <2>3. c[s - 1] <= c[0]  BY <1>1, <1>2, <2>1, TotalsFall
  <2>4. c[s] \in Nat /\ c[s - 1] \in Nat /\ f[s] \in Nat /\ f[s] >= 1  BY <1>1, <1>3, <2>1
  <2>5. QED BY <2>2, <2>3, <2>4
<1>5. c[0] \in Nat \ {0}
  <2>1. 1 \in Symbol /\ 0 \in Index /\ 1 - 1 = 0  BY IndexFacts
  <2>2. c[1] \in Nat /\ c[0] \in Nat /\ c[1] + 1 <= c[0]  BY <1>4, <2>1
  <2>3. QED BY <2>2
<1>6. c[N] = 0 /\ c[0] <= Max_frequency  BY <1>2 DEF Adds, Consistent, c
<1>7. QED BY <1>4, <1>5, <1>6 DEF c

LEMMA StartModel == start_model \in Model /\ Consistent(start_model)
<1> DEFINE f == [i \in Index |-> IF i = 0 THEN 0 ELSE 1]
           c == [i \in Index |-> No_of_symbols - i]
<1>1. f \in [Index -> Nat] /\ c \in [Index -> Nat]  BY IndexFacts DEF N
<1>2. Adds(c, f)
  <2>1. N \in Index /\ c[N] = 0  BY IndexFacts DEF N
  <2>2. ASSUME NEW i \in 0 .. N - 1 PROVE c[i] = c[i + 1] + f[i + 1]
    <3>1. i \in Index /\ i + 1 \in Index /\ i + 1 # 0  BY IndexFacts
    <3>2. c[i] = N - i /\ c[i + 1] = N - (i + 1) /\ f[i + 1] = 1  BY <3>1 DEF N
    <3>3. QED BY <3>2, IndexFacts
  <2>3. QED BY <2>1, <2>2 DEF Adds
<1>3. c = Totals(f)  BY <1>1, <1>2, TotalsAre
<1>4. [d \in Char |-> d + 1] \in [Char -> 1 .. No_of_chars]
      /\ [i \in 1 .. No_of_chars |-> i - 1] \in [1 .. No_of_chars -> Char]
  BY IndexFacts DEF Char
<1>5. start_model \in Model  BY <1>1, <1>4 DEF start_model, Model
<1>6. /\ start_model.freq = f /\ start_model.cum_freq = c
      /\ start_model.char_to_index = [d \in Char |-> d + 1]
      /\ start_model.index_to_char = [i \in 1 .. No_of_chars |-> i - 1]
  BY DEF start_model
<1>7. f[0] = 0 /\ (\A i \in Symbol : f[i] >= 1) /\ c[0] <= Max_frequency
      /\ \A i \in 2 .. N : f[i - 1] >= f[i]
  <2>1. 0 \in Index /\ f[0] = 0  BY IndexFacts
  <2>2. ASSUME NEW i \in Symbol PROVE f[i] = 1
    <3>1. i \in Index /\ i # 0  BY IndexFacts
    <3>2. QED BY <3>1
  <2>3. c[0] = N  BY <2>1, IndexFacts DEF N
  <2>4. ASSUME NEW i \in 2 .. N PROVE f[i - 1] >= f[i]
    <3>1. i \in Symbol /\ i - 1 \in Symbol  BY IndexFacts
    <3>2. QED BY <2>2, <3>1
  <2> HIDE DEF f, c
  <2>5. QED BY <2>1, <2>2, <2>3, <2>4, IndexFacts
<1>8. /\ \A d \in Char : start_model.index_to_char[start_model.char_to_index[d]] = d
      /\ \A i \in 1 .. No_of_chars :
           start_model.char_to_index[start_model.index_to_char[i]] = i
  <2>1. ASSUME NEW d \in Char
        PROVE  start_model.index_to_char[start_model.char_to_index[d]] = d
    <3>1. d + 1 \in 1 .. No_of_chars /\ (d + 1) - 1 = d  BY IndexFacts DEF Char
    <3>2. QED BY <1>6, <3>1
  <2>2. ASSUME NEW i \in 1 .. No_of_chars
        PROVE  start_model.char_to_index[start_model.index_to_char[i]] = i
    <3>1. i - 1 \in Char /\ (i - 1) + 1 = i  BY IndexFacts DEF Char
    <3>2. QED BY <1>6, <3>1
  <2>3. QED BY <2>1, <2>2
<1> HIDE DEF f, c
<1>9. QED BY <1>3, <1>5, <1>6, <1>7, <1>8 DEF Consistent, N

LEMMA HalvedConsistent ==
  ASSUME NEW a \in Model, Consistent(a)
  PROVE  /\ Halved(a) \in Model /\ Consistent(Halved(a))
         /\ Halved(a).cum_freq[0] < Max_frequency
         /\ Halved(a).char_to_index = a.char_to_index
         /\ Halved(a).index_to_char = a.index_to_char
<1>1. CASE a.cum_freq[0] # Max_frequency
  <2>1. a.cum_freq[0] \in Nat /\ a.cum_freq[0] <= Max_frequency  BY TotalsOrder
  <2>2. Halved(a) = a  BY <1>1 DEF Halved
  <2>3. QED BY <1>1, <2>1, <2>2, IndexFacts
<1>2. CASE a.cum_freq[0] = Max_frequency
  <2> DEFINE f == a.freq
             h == [i \in Index |-> (a.freq[i] + 1) \div 2]
  <2>1. Halved(a) = [a EXCEPT !.freq = h, !.cum_freq = Totals(h)]  BY <1>2 DEF Halved
  <2>2. f \in [Index -> Nat]  BY ModelFields
  <2>3. h \in [Index -> Nat]  BY <2>2
  <2>4. \A i \in Index : h[i] = (f[i] + 1) \div 2  OBVIOUS
  <2>5. a.cum_freq = Totals(f)  BY DEF Consistent
  <2>6. f[0] = 0 /\ (\A i \in Symbol : f[i] >= 1) /\ \A i \in 2 .. N : f[i - 1] >= f[i]
    BY DEF Consistent, N
  <2> HIDE DEF f, h
  <2>7. \A i \in Index : 2 * h[i] <= f[i] + 1  BY <2>2, <2>4
  <2>8. 2 * Totals(h)[0] <= Max_frequency + N  BY <1>2, <2>2, <2>3, <2>5, <2>7, HalvesTotal
  <2>9. Totals(h) \in [Index -> Nat]  BY <2>3, TotalsAdd
  <2>10. Totals(h)[0] < Max_frequency
    <3>1. Totals(h)[0] \in Nat  BY <2>9, IndexFacts
    <3>2. QED BY <2>8, <3>1, IndexFacts
  <2>11. /\ Halved(a) \in Model /\ Halved(a).freq = h /\ Halved(a).cum_freq = Totals(h)
         /\ Halved(a).char_to_index = a.char_to_index
         /\ Halved(a).index_to_char = a.index_to_char
    BY <2>1, <2>3, <2>9 DEF Model
  <2>12. h[0] = 0 /\ \A i \in Symbol : h[i] >= 1
    <3>1. 0 \in Index /\ Symbol \subseteq Index  BY IndexFacts
    <3>2. \A i \in Symbol : f[i] \in Nat /\ f[i] >= 1 /\ h[i] = (f[i] + 1) \div 2
      BY <2>2, <2>4, <2>6, <3>1
    <3>3. QED BY <2>4, <2>6, <3>1, <3>2
  <2>13. ASSUME NEW i \in 2 .. N PROVE h[i - 1] >= h[i]
    <3>1. i \in Index /\ i - 1 \in Index  BY IndexFacts
    <3>2. f[i] \in Nat /\ f[i - 1] \in Nat /\ f[i - 1] >= f[i]  BY <2>2, <2>6, <3>1
    <3>3. QED BY <2>4, <3>1, <3>2
  <2>14. Totals(h)[0] <= Max_frequency
    <3>1. Totals(h)[0] \in Nat  BY <2>9, IndexFacts
    <3>2. QED BY <2>10, <3>1, IndexFacts
  <2>15. /\ \A d \in Char : a.index_to_char[a.char_to_index[d]] = d
         /\ \A i \in 1 .. No_of_chars : a.char_to_index[a.index_to_char[i]] = i
    BY DEF Consistent
  <2>16. Consistent(Halved(a))
    BY <2>11, <2>12, <2>13, <2>14, <2>15 DEF Consistent, N
  <2>17. QED BY <2>10, <2>11, <2>16
<1>3. QED BY <1>1, <1>2

(* The search for the new index ends, at index 1 at the latest. *)
LEMMA NewIndexFound ==
  ASSUME NEW a \in Model, Consistent(a), NEW s \in 1 .. No_of_chars
  PROVE  /\ NewIndex(a.freq, s) \in 1 .. s
         /\ a.freq[NewIndex(a.freq, s) - 1] # a.freq[NewIndex(a.freq, s)]
         /\ \A j \in NewIndex(a.freq, s) .. s : a.freq[j] = a.freq[s]
<1> DEFINE f == a.freq
           S == {i \in 1 .. s : \A j \in i .. s : f[j] = f[s]}
<1>1. s \in S /\ S \in SUBSET Nat  BY IndexFacts
<1>2. PICK i \in S : \A k \in S : i <= k  BY <1>1, LeastOf
<1>3. f[i - 1] # f[i]
  <2>1. SUFFICES ASSUME f[i - 1] = f[i] PROVE FALSE  OBVIOUS
  <2>2. f[i] = f[s] /\ i \in 1 .. s  BY <1>2
  <2>3. CASE i = 1
    <3>1. f[1] >= 1 /\ f[0] = 0  BY IndexFacts DEF Consistent
    <3>2. QED BY <2>1, <2>3, <3>1
  <2>4. CASE i # 1
    <3>1. i - 1 \in 1 .. s  BY <2>2, <2>4
    <3>2. \A j \in i - 1 .. s : j = i - 1 \/ j \in i .. s  BY <2>2
    <3>3. \A j \in i - 1 .. s : f[j] = f[s]  BY <1>2, <2>1, <2>2, <3>2
    <3>4. i - 1 \in S  BY <3>1, <3>3
    <3>5. QED BY <1>2, <2>2, <3>4
  <2>5. QED BY <2>3, <2>4
<1>4. \E k \in 1 .. s : f[k - 1] # f[k] /\ \A j \in k .. s : f[j] = f[s]
  BY <1>2, <1>3
<1>5. QED BY <1>4 DEF NewIndex

LEMMA SwappedConsistent ==
  ASSUME NEW a \in Model, Consistent(a),
         NEW i \in 1 .. No_of_chars, NEW s \in 1 .. No_of_chars
  PROVE  /\ Swapped(a, i, s) \in Model
         /\ Swapped(a, i, s).freq = a.freq /\ Swapped(a, i, s).cum_freq = a.cum_freq
         /\ \A d \in Char : Swapped(a, i, s).index_to_char[Swapped(a, i, s).char_to_index[d]] = d
         /\ \A j \in 1 .. No_of_chars :
              Swapped(a, i, s).char_to_index[Swapped(a, i, s).index_to_char[j]] = j
<1> DEFINE t == a.index_to_char
           u == a.char_to_index
           K == 1 .. No_of_chars
           t2 == [[t EXCEPT ![i] = t[s]] EXCEPT ![s] = t[i]]
           u2 == [[u EXCEPT ![t[i]] = s] EXCEPT ![t[s]] = i]
<1>1. t \in [K -> Char] /\ u \in [Char -> K]  BY ModelFields
<1>2. (\A d \in Char : t[u[d]] = d) /\ (\A j \in K : u[t[j]] = j)  BY DEF Consistent
<1>3. CASE i = s
  <2>1. Swapped(a, i, s) = a  BY <1>3 DEF Swapped
  <2>2. QED BY <1>2, <2>1
<1>4. CASE i # s
  <2>1. Swapped(a, i, s) = [a EXCEPT !.index_to_char = t2, !.char_to_index = u2]
    BY <1>4 DEF Swapped
  <2> HIDE DEF t, u, K
  <2>2. t[i] \in Char /\ t[s] \in Char /\ i \in K /\ s \in K  BY <1>1 DEF K
  <2>3. t[i] # t[s]  BY <1>2, <1>4, <2>2
  <2>4. t2 \in [K -> Char] /\ t2 = [j \in K |-> IF j = s THEN t[i] ELSE IF j = i THEN t[s] ELSE t[j]]
    BY <1>1, <2>2
  <2>5. u2 \in [Char -> K] /\ u2 = [d \in Char |-> IF d = t[s] THEN i ELSE IF d = t[i] THEN s ELSE u[d]]
    BY <1>1, <2>2
  <2> HIDE DEF t2, u2
  <2>6. ASSUME NEW d \in Char PROVE t2[u2[d]] = d
    <3>1. CASE d = t[s]  BY <1>4, <2>2, <2>4, <2>5, <3>1
    <3>2. CASE d # t[s] /\ d = t[i]  BY <2>2, <2>4, <2>5, <3>2
    <3>3. CASE d # t[s] /\ d # t[i]
      <4>1. u2[d] = u[d] /\ u[d] \in K /\ t[u[d]] = d  BY <1>1, <1>2, <2>5, <3>3
      <4>2. u[d] # s /\ u[d] # i  BY <3>3, <4>1
      <4>3. QED BY <2>4, <4>1, <4>2
    <3>4. QED BY <3>1, <3>2, <3>3
  <2>7. ASSUME NEW j \in K PROVE u2[t2[j]] = j
    <3>1. CASE j = s  BY <2>2, <2>3, <2>4, <2>5, <3>1
    <3>2. CASE j # s /\ j = i  BY <2>2, <2>4, <2>5, <3>2
    <3>3. CASE j # s /\ j # i
      <4>1. t2[j] = t[j] /\ t[j] \in Char /\ u[t[j]] = j  BY <1>1, <1>2, <2>4, <3>3
      <4>2. t[j] # t[s] /\ t[j] # t[i]  BY <1>2, <2>2, <3>3, <4>1
      <4>3. QED BY <2>5, <4>1, <4>2
    <3>4. QED BY <3>1, <3>2, <3>3
  <2>8. /\ Swapped(a, i, s) \in Model
        /\ Swapped(a, i, s).freq = a.freq /\ Swapped(a, i, s).cum_freq = a.cum_freq
        /\ Swapped(a, i, s).index_to_char = t2 /\ Swapped(a, i, s).char_to_index = u2
    BY <2>1, <2>4, <2>5 DEF Model, K
  <2>9. QED BY <2>6, <2>7, <2>8 DEF K
<1>5. QED BY <1>3, <1>4

(* Halving, moving and counting preserve the consistency of the model.  A  *)
(* count goes up at the first index that has it, so the order stays.       *)
LEMMA UpdateConsistent ==
  ASSUME NEW a \in Model, Consistent(a), NEW s \in 1 .. No_of_chars
  PROVE  update_model(a, s) \in Model /\ Consistent(update_model(a, s))
<1> DEFINE h == Halved(a)
           i == NewIndex(h.freq, s)
           w == Swapped(h, i, s)
           f == h.freq
           c == h.cum_freq
           f2 == [f EXCEPT ![i] = @ + 1]
           c2 == [j \in Index |-> IF j < i THEN c[j] + 1 ELSE c[j]]
           b == update_model(a, s)
<1>1. h \in Model /\ Consistent(h) /\ h.cum_freq[0] < Max_frequency  BY HalvedConsistent
<1> HIDE DEF h
<1>2. i \in 1 .. s /\ f[i - 1] # f[i]  BY <1>1, NewIndexFound
<1>3. i \in 1 .. No_of_chars /\ i \in Index /\ i \in Symbol /\ i - 1 \in Index
  BY <1>2, IndexFacts
<1> HIDE DEF i
<1>4. /\ w \in Model /\ w.freq = f /\ w.cum_freq = c
      /\ \A d \in Char : w.index_to_char[w.char_to_index[d]] = d
      /\ \A j \in 1 .. No_of_chars : w.char_to_index[w.index_to_char[j]] = j
  BY <1>1, <1>3, SwappedConsistent
<1>5. b = [w EXCEPT !.freq = f2, !.cum_freq = c2]
  <2>1. b = [w EXCEPT !.freq[i] = @ + 1,
                      !.cum_freq = [j \in Index |-> IF j < i THEN @[j] + 1 ELSE @[j]]]
    BY DEF update_model, h, i
  <2>2. QED BY <1>4, <2>1 DEF Model
<1> HIDE DEF w, b
<1>6. f \in [Index -> Nat] /\ c \in [Index -> Nat]  BY <1>1, ModelFields
<1>7. c = Totals(f) /\ Adds(c, f)
  <2>1. c = Totals(f)  BY <1>1 DEF Consistent
  <2>2. QED BY <1>6, <2>1, TotalsAdd
<1>8. f[0] = 0 /\ (\A j \in Symbol : f[j] >= 1) /\ \A j \in 2 .. N : f[j - 1] >= f[j]
  BY <1>1 DEF Consistent, N
<1> HIDE DEF f, c
<1>9. f2 \in [Index -> Nat] /\ f2 = [j \in Index |-> IF j = i THEN f[i] + 1 ELSE f[j]]
  <2>1. f[i] \in Nat /\ f[i] + 1 \in Nat  BY <1>3, <1>6
  <2>2. f2 = [f EXCEPT ![i] = f[i] + 1]  OBVIOUS
  <2> HIDE DEF f2
  <2>3. QED BY <1>3, <1>6, <2>1, <2>2
<1>10. c2 \in [Index -> Nat]  BY <1>6
<1>11. \A j \in Index : c2[j] = IF j < i THEN c[j] + 1 ELSE c[j]  OBVIOUS
<1> HIDE DEF f2, c2
<1>12. Adds(c2, f2)
  <2>1. c2[N] = 0
    <3>1. N \in Index /\ ~(N < i)  BY <1>3, IndexFacts
    <3>2. QED BY <1>7, <1>11, <3>1 DEF Adds
  <2>2. ASSUME NEW j \in 0 .. N - 1 PROVE c2[j] = c2[j + 1] + f2[j + 1]
    <3>1. j \in Index /\ j + 1 \in Index /\ i \in Nat /\ j \in Nat  BY <1>3, IndexFacts
    <3>2. c[j] = c[j + 1] + f[j + 1]  BY <1>7 DEF Adds
    <3>3. c[j] \in Nat /\ c[j + 1] \in Nat /\ f[j + 1] \in Nat  BY <1>6, <3>1
    <3>4. c2[j] = IF j < i THEN c[j] + 1 ELSE c[j]  BY <1>11, <3>1
    <3>5. c2[j + 1] = IF j + 1 < i THEN c[j + 1] + 1 ELSE c[j + 1]  BY <1>11, <3>1
    <3>6. f2[j + 1] = IF j + 1 = i THEN f[j + 1] + 1 ELSE f[j + 1]  BY <1>9, <3>1
    <3>7. QED BY <3>1, <3>2, <3>3, <3>4, <3>5, <3>6
  <2>3. QED BY <2>1, <2>2 DEF Adds
<1>13. c2 = Totals(f2)  BY <1>9, <1>10, <1>12, TotalsAre
<1>14. c2[0] <= Max_frequency
  <2>1. 0 \in Index /\ 0 < i  BY <1>3, IndexFacts
  <2>2. c2[0] = c[0] + 1 /\ c[0] \in Nat /\ c[0] < Max_frequency
    BY <1>1, <1>6, <1>11, <2>1 DEF c
  <2>3. QED BY <2>2, IndexFacts
<1>15. f2[0] = 0
  <2>1. 0 \in Index /\ 0 # i  BY <1>3, IndexFacts
  <2>2. QED BY <1>8, <1>9, <2>1
<1>16. ASSUME NEW j \in Symbol PROVE f2[j] >= 1
  <2>1. j \in Index /\ f[j] \in Nat /\ f[j] >= 1  BY <1>6, <1>8, IndexFacts
  <2>2. QED BY <1>9, <2>1
<1>17. ASSUME NEW j \in 2 .. N PROVE f2[j - 1] >= f2[j]
  <2>1. j \in Index /\ j - 1 \in Index  BY IndexFacts
  <2>2. f[j] \in Nat /\ f[j - 1] \in Nat /\ f[j - 1] >= f[j]  BY <1>6, <1>8, <2>1
  <2>3. CASE j = i
    <3>1. f[j - 1] # f[j]  BY <1>2, <2>3 DEF f
    <3>2. j - 1 # i  BY <2>3, <1>3
    <3>3. QED BY <1>9, <2>1, <2>2, <2>3, <3>1, <3>2
  <2>4. CASE j # i
    <3>1. f2[j] = f[j]  BY <1>9, <2>1, <2>4
    <3>2. f2[j - 1] = f[j - 1] \/ f2[j - 1] = f[j - 1] + 1  BY <1>9, <2>1
    <3>3. QED BY <2>2, <3>1, <3>2
  <2>5. QED BY <2>3, <2>4
<1>18. /\ b \in Model /\ b.freq = f2 /\ b.cum_freq = c2
       /\ b.char_to_index = w.char_to_index /\ b.index_to_char = w.index_to_char
  BY <1>4, <1>5, <1>9, <1>10 DEF Model
<1>19. Consistent(b)
  BY <1>4, <1>13, <1>14, <1>15, <1>16, <1>17, <1>18 DEF Consistent, N
<1>20. QED BY <1>18, <1>19 DEF b

-----------------------------------------------------------------------------
(* The coder. *)
LEMMA CodeFacts ==
  /\ First_qtr \in Nat \ {0} /\ Top_value = 4 * First_qtr - 1 /\ Top_value \in Nat
  /\ Half = 2 * First_qtr /\ Third_qtr = 3 * First_qtr /\ Max_frequency < First_qtr
  /\ Code_value_bits \in Nat \ {0} /\ 2 ^ Code_value_bits = 4 * First_qtr
  /\ ByteBits \in Nat \ {0} /\ MaxLost \in Nat
BY CodeAssumption, IndexFacts DEF Top_value, Half, Third_qtr

IType ==
  /\ phase \in {"encode", "encode_loop", "start_decoding", "decode", "decode_loop",
                "done", "bad"}
  /\ low \in 0 .. Top_value /\ high \in 0 .. Top_value /\ low <= high
  /\ bits_to_follow \in Nat /\ value \in Nat /\ input \in Nat
  /\ archive \in Seq({0, 1})
  /\ phase \in {"encode_loop", "decode_loop"} => symbol \in Symbol

(* After the loop the region spans more than a quarter of the values.      *)
Wide == phase \in {"encode", "decode"} => high - low + 1 > First_qtr

(* The decoder's value is in its region from its first bit on.             *)
ValueInside ==
  /\ phase = "start_decoding" =>
       /\ low = 0 /\ high = Top_value /\ input < Code_value_bits
       /\ value < 2 ^ input
  /\ phase \in {"decode", "decode_loop"} => low <= value /\ value <= high

CInv == IType /\ m \in Model /\ Consistent(m) /\ Wide /\ ValueInside

(* The part of a symbol is not empty and is within the region.             *)
LEMMA RegionInside ==
  ASSUME m \in Model, Consistent(m), low \in Nat, high \in Nat, low <= high,
         high - low + 1 > First_qtr, NEW s \in Symbol
  PROVE  /\ Region(s)[1] \in Nat /\ Region(s)[2] \in Nat
         /\ low <= Region(s)[1] /\ Region(s)[1] <= Region(s)[2] /\ Region(s)[2] <= high
<1> DEFINE c == m.cum_freq
           R == high - low + 1
           d == c[0]
           l == (R * c[s]) \div d
           u == (R * c[s - 1]) \div d
<1>1. /\ d \in Nat \ {0} /\ d <= Max_frequency
      /\ c[s] \in Nat /\ c[s - 1] \in Nat /\ c[s] + 1 <= c[s - 1] /\ c[s - 1] <= d
  BY TotalsOrder
<1>2. R \in Nat \ {0} /\ d <= R  BY <1>1, CodeFacts, IndexFacts
<1>3. Region(s) = <<low + l, low + u - 1>>  BY DEF Region
<1>4. R + low - 1 = high  OBVIOUS
<1> HIDE DEF R, d, c
<1>5. /\ R * c[s] \in Nat /\ R * c[s - 1] \in Nat
      /\ R * c[s - 1] >= R * c[s] + R /\ R * c[s - 1] <= R * d
  <2>1. c[s] + 1 \in Nat /\ d \in Nat /\ R \in Nat  BY <1>1, <1>2
  <2>2. (c[s] + 1) * R <= c[s - 1] * R /\ c[s - 1] * R <= d * R
        /\ c[s] * R \in Nat /\ c[s - 1] * R \in Nat
    BY <1>1, <2>1, MulMono
  <2>3. \A x \in Nat : x * R = R * x /\ (x + 1) * R = R * x + R  BY <2>1
  <2>4. QED BY <1>1, <2>1, <2>2, <2>3
<1>6. l \in Nat /\ l * d <= R * c[s]
  <2>1. l \in Nat /\ (R * c[s]) % d \in 0 .. d - 1 /\ R * c[s] = l * d + ((R * c[s]) % d)
    BY <1>1, <1>5, DivMod
  <2>2. l * d \in Nat  BY <1>1, <2>1, MulMono
  <2> HIDE DEF l
  <2>3. QED BY <1>1, <2>1, <2>2
<1>7. u \in Nat  BY <1>1, <1>5, DivMod
<1>8. l + 1 <= u
  <2>1. (l + 1) * d <= R * c[s - 1]
    <3>1. (l + 1) * d = l * d + d /\ l * d \in Nat
      <4>1. l * d \in Nat  BY <1>1, <1>6, MulMono
      <4> HIDE DEF l
      <4>2. QED BY <1>1, <1>6, <4>1
    <3> HIDE DEF l
    <3>2. QED BY <1>1, <1>2, <1>5, <1>6, <3>1
  <2>2. l + 1 \in Nat  BY <1>6
  <2>3. QED BY <1>1, <1>5, <2>1, <2>2, DivAtLeast
<1>9. u <= R
  <2>1. R * d + d = (R + 1) * d /\ R * d \in Nat
    <3>1. R * d \in Nat  BY <1>1, <1>2, MulMono
    <3>2. QED BY <1>1, <1>2, <3>1
  <2>2. R * c[s - 1] < (R + 1) * d  BY <1>1, <1>5, <2>1
  <2>3. QED BY <1>1, <1>2, <1>5, <2>2, DivAtMost
<1> HIDE DEF l, u
<1>10. QED BY <1>2, <1>3, <1>4, <1>6, <1>7, <1>8, <1>9

(* The least symbol that the value has reached has the value in its part.  *)
LEMMA SymbolOfValue ==
  ASSUME m \in Model, Consistent(m), low \in Nat, high \in Nat, value \in Nat,
         low <= value, value <= high, high - low + 1 > First_qtr
  PROVE  /\ \E s \in Symbol : /\ m.cum_freq[s] <= CumOfValue
                              /\ \A r \in 1 .. s - 1 : m.cum_freq[r] > CumOfValue
         /\ \A s \in Symbol :
              /\ m.cum_freq[s] <= CumOfValue
              /\ \A r \in 1 .. s - 1 : m.cum_freq[r] > CumOfValue
              => Region(s)[1] <= value /\ value <= Region(s)[2]
<1> DEFINE c == m.cum_freq
           R == high - low + 1
           v == value - low
           d == c[0]
           p == (v + 1) * d
           q == CumOfValue
<1>1. /\ d \in Nat \ {0} /\ d <= Max_frequency /\ c[N] = 0
      /\ \A s \in Symbol : c[s] \in Nat /\ c[s - 1] \in Nat
  BY TotalsOrder
<1>2. R \in Nat \ {0} /\ v \in Nat /\ v < R /\ low + v = value  BY CodeFacts
<1>3. q = (p - 1) \div R  BY DEF CumOfValue
<1> HIDE DEF R, v, d, c
<1>4. p \in Nat /\ p >= 1 /\ p - 1 \in Nat
  <2>1. p = v * d + d /\ v * d \in Nat
    <3>1. v * d \in Nat  BY <1>1, <1>2, MulMono
    <3>2. QED BY <1>1, <1>2, <3>1
  <2> HIDE DEF p
  <2>2. QED BY <1>1, <2>1
<1> HIDE DEF p, q
<1>5. q \in Nat /\ q * R <= p - 1 /\ p - 1 < (q + 1) * R
      /\ q * R \in Nat /\ (q + 1) * R = q * R + R
  <2>1. q \in Nat /\ (p - 1) % R \in 0 .. R - 1 /\ p - 1 = q * R + ((p - 1) % R)
    BY <1>2, <1>3, <1>4, DivMod
  <2>2. q * R \in Nat  BY <1>2, <2>1, MulMono
  <2>3. (q + 1) * R = q * R + R  BY <1>2, <2>1
  <2>4. QED BY <1>2, <1>4, <2>1, <2>2, <2>3
<1>6. q < d
  <2>1. p <= R * d /\ R * d \in Nat
    <3>1. v + 1 \in Nat /\ v + 1 <= R /\ d \in Nat /\ R \in Nat  BY <1>1, <1>2
    <3>2. QED BY <3>1, MulMono DEF p
  <2>2. SUFFICES ASSUME d <= q PROVE FALSE  BY <1>1, <1>5
  <2>3. d * R <= q * R  BY <1>1, <1>2, <1>5, <2>2, MulMono
  <2>4. d * R = R * d  BY <1>1, <1>2
  <2>5. QED BY <1>4, <1>5, <2>1, <2>3, <2>4
<1>7. \E s \in Symbol : c[s] <= q /\ \A r \in 1 .. s - 1 : c[r] > q
  <2> DEFINE S == {s \in Symbol : c[s] <= q}
  <2>1. N \in S /\ S \in SUBSET Nat  BY <1>1, <1>5, IndexFacts
  <2>2. PICK s \in S : \A r \in S : s <= r  BY <2>1, LeastOf
  <2>3. ASSUME NEW r \in 1 .. s - 1 PROVE c[r] > q
    <3>1. r \in Symbol /\ r < s  BY IndexFacts
    <3>2. r \notin S  BY <2>1, <2>2, <3>1
    <3>3. QED BY <1>1, <1>5, <3>1, <3>2
  <2>4. QED BY <2>2, <2>3
<1>8. ASSUME NEW s \in Symbol, c[s] <= q, \A r \in 1 .. s - 1 : c[r] > q
      PROVE  Region(s)[1] <= value /\ value <= Region(s)[2]
  <2> DEFINE l == (R * c[s]) \div d
             u == (R * c[s - 1]) \div d
  <2>1. Region(s) = <<low + l, low + u - 1>>  BY DEF Region, R, c, d
  <2>2. c[s] \in Nat /\ c[s - 1] \in Nat /\ q + 1 <= c[s - 1]
    <3>1. CASE s = 1
      <4>1. c[s - 1] = d  BY <3>1 DEF d
      <4>2. QED BY <1>1, <1>5, <1>6, <4>1
    <3>2. CASE s # 1
      <4>1. s - 1 \in 1 .. s - 1  BY <3>2, IndexFacts
      <4>2. QED BY <1>1, <1>5, <1>8, <4>1
    <3>3. QED BY <3>1, <3>2
  <2>3. R * c[s] \in Nat /\ R * c[s] <= p - 1
    <3>1. c[s] * R <= q * R /\ c[s] * R \in Nat  BY <1>2, <1>5, <1>8, <2>2, MulMono
    <3>2. c[s] * R = R * c[s]  BY <1>2, <2>2
    <3>3. QED BY <1>4, <1>5, <3>1, <3>2
  <2>4. R * c[s - 1] \in Nat /\ p <= R * c[s - 1]
    <3>1. q + 1 \in Nat  BY <1>5
    <3>2. (q + 1) * R <= c[s - 1] * R /\ c[s - 1] * R \in Nat
      BY <1>2, <2>2, <3>1, MulMono
    <3>3. c[s - 1] * R = R * c[s - 1]  BY <1>2, <2>2
    <3>4. QED BY <1>2, <1>4, <1>5, <3>2, <3>3
  <2>5. l <= v
    <3>1. R * c[s] < (v + 1) * d  BY <1>4, <2>3 DEF p
    <3>2. QED BY <1>1, <1>2, <2>3, <3>1, DivAtMost
  <2>6. v + 1 <= u
    <3>1. (v + 1) * d <= R * c[s - 1]  BY <2>4 DEF p
    <3>2. v + 1 \in Nat  BY <1>2
    <3>3. QED BY <1>1, <2>4, <3>1, <3>2, DivAtLeast
  <2>7. l \in Nat /\ u \in Nat  BY <1>1, <2>3, <2>4, DivMod
  <2> HIDE DEF l, u
  <2>8. QED BY <1>2, <2>1, <2>5, <2>6, <2>7
<1>9. QED BY <1>7, <1>8 DEF c, q

(* The last bits fill whole bytes, with zeros. *)
LEMMA BitsTyped ==
  /\ \A b \in {0, 1}, n \in Nat : BitPlusFollow(b, n) \in Seq({0, 1})
  /\ \A t \in Seq({0, 1}) : Filled(t) \in Seq({0, 1})
  /\ \A t \in Seq({0, 1}), u \in Seq({0, 1}) : t \o u \in Seq({0, 1})
<1>1. ASSUME NEW b \in {0, 1}, NEW n \in Nat PROVE Repeat(b, n) \in Seq({0, 1})
  BY <1>1 DEF Repeat
<1>2. ASSUME NEW b \in {0, 1}, NEW n \in Nat
      PROVE  BitPlusFollow(b, n) \in Seq({0, 1})
  <2>1. Opposite(b) \in {0, 1}  BY DEF Opposite
  <2>2. Repeat(Opposite(b), n) \in Seq({0, 1})  BY <1>1, <2>1
  <2>3. <<b>> \in Seq({0, 1})  OBVIOUS
  <2>4. QED BY <2>2, <2>3 DEF BitPlusFollow
<1>3. ASSUME NEW t \in Seq({0, 1}) PROVE Filled(t) \in Seq({0, 1})
  <2>1. Len(t) \in Nat /\ ByteBits \in Nat \ {0}  BY CodeFacts
  <2>2. Len(t) % ByteBits \in 0 .. ByteBits - 1  BY <2>1, DivMod
  <2>3. ByteBits - (Len(t) % ByteBits) \in Nat  BY <2>1, <2>2
  <2>4. Repeat(0, ByteBits - (Len(t) % ByteBits)) \in Seq({0, 1})  BY <1>1, <2>3
  <2>5. QED BY <2>4 DEF Filled
<1>4. QED BY <1>2, <1>3, ConcatProperties

(* What is left of the region after the loop. *)
LEMMA SettledIsWide ==
  ASSUME low \in 0 .. Top_value, high \in 0 .. Top_value, low <= high, Settled
  PROVE  high - low + 1 > First_qtr
BY CodeFacts DEF Settled, Middle, LowHalf, HighHalf

(* One turn of the loop keeps the region and a value that is in it.        *)
LEMMA ExpandInside ==
  ASSUME low \in 0 .. Top_value, high \in 0 .. Top_value, low <= high, ~Settled, Expand
  PROVE  /\ low' \in 0 .. Top_value /\ high' \in 0 .. Top_value /\ low' <= high'
         /\ \A v \in Nat, b \in {0, 1} :
              low <= v /\ v <= high
                => /\ 2 * (v - Offset) + b \in Nat
                   /\ low' <= 2 * (v - Offset) + b /\ 2 * (v - Offset) + b <= high'
<1>1. /\ Offset \in Nat /\ Offset <= low
      /\ 2 * (high - Offset) + 1 <= Top_value
  BY CodeFacts DEF Settled, Middle, LowHalf, HighHalf, Offset
<1>2. low' = 2 * (low - Offset) /\ high' = 2 * (high - Offset) + 1  BY DEF Expand
<1>3. QED BY <1>1, <1>2, CodeFacts

LEMMA CharIndex ==
  ASSUME m \in Model
  PROVE  /\ \A ch \in Char : m.char_to_index[ch] \in Symbol
         /\ EOF_symbol \in Symbol
         /\ \A s \in Symbol : s # EOF_symbol => s \in 1 .. No_of_chars
BY ModelFields, IndexFacts

LEMMA InputBit ==
  ASSUME input \in Nat, archive \in Seq({0, 1})
  PROVE  input_bit \in {0, 1}
BY DEF input_bit, AtEnd

LEMMA InitCInv == Init => CInv
<1> SUFFICES ASSUME Init PROVE CInv  OBVIOUS
<1> USE DEF Init
<1>1. IType  BY CodeFacts DEF IType
<1>2. Wide  BY CodeFacts DEF Wide
<1>3. ValueInside  BY DEF ValueInside
<1>4. QED BY <1>1, <1>2, <1>3, StartModel DEF CInv

LEMMA NextCInv == CInv /\ [Next]_vars => CInv'
<1> SUFFICES ASSUME CInv, [Next]_vars PROVE CInv'  OBVIOUS
<1>0. IType /\ m \in Model /\ Consistent(m) /\ Wide /\ ValueInside  BY DEF CInv
<1>a. /\ low \in Nat /\ high \in Nat /\ low <= high /\ high <= Top_value
      /\ low \in 0 .. Top_value /\ high \in 0 .. Top_value
      /\ bits_to_follow \in Nat /\ value \in Nat /\ input \in Nat /\ archive \in Seq({0, 1})
  BY <1>0, CodeFacts DEF IType
<1>b. ASSUME NEW s \in Symbol, Narrow(s), phase \in {"encode", "decode"}
      PROVE  /\ low' \in 0 .. Top_value /\ high' \in 0 .. Top_value /\ low' <= high'
  <2>1. high - low + 1 > First_qtr  BY <1>0, <1>b DEF Wide
  <2>2. QED BY <1>0, <1>a, <1>b, <2>1, RegionInside, CodeFacts DEF Narrow
<1>1. ASSUME NEW ch \in Char, EncodeChar(ch) PROVE CInv'
  <2> USE DEF EncodeChar
  <2>1. symbol' \in Symbol /\ Narrow(symbol') /\ phase = "encode"
    BY <1>0, <1>1, CharIndex
  <2>2. IType'  BY <1>0, <1>1, <1>b, <2>1 DEF IType
  <2>3. Wide' /\ ValueInside'  BY <1>1 DEF Wide, ValueInside
  <2>4. (m \in Model /\ Consistent(m))'  BY <1>0, <1>1 DEF Consistent
  <2>5. QED BY <2>2, <2>3, <2>4 DEF CInv
<1>2. CASE EncodeEOF
  <2> USE DEF EncodeEOF
  <2>1. symbol' \in Symbol /\ Narrow(symbol') /\ phase = "encode"
    BY <1>0, <1>2, CharIndex
  <2>2. IType'  BY <1>0, <1>2, <1>b, <2>1 DEF IType
  <2>3. Wide' /\ ValueInside'  BY <1>2 DEF Wide, ValueInside
  <2>4. (m \in Model /\ Consistent(m))'  BY <1>0, <1>2 DEF Consistent
  <2>5. QED BY <2>2, <2>3, <2>4 DEF CInv
<1>3. CASE EncodeBits
  <2> USE DEF EncodeBits
  <2>1. low' \in 0 .. Top_value /\ high' \in 0 .. Top_value /\ low' <= high'
    BY <1>3, <1>a, ExpandInside
  <2>2. archive' \in Seq({0, 1}) /\ bits_to_follow' \in Nat
    <3>1. BitPlusFollow(IF LowHalf THEN 0 ELSE 1, bits_to_follow) \in Seq({0, 1})
      BY <1>a, BitsTyped
    <3>2. archive \o BitPlusFollow(IF LowHalf THEN 0 ELSE 1, bits_to_follow) \in Seq({0, 1})
      BY <1>a, <3>1, BitsTyped
    <3> DEFINE longer == archive \o BitPlusFollow(IF LowHalf THEN 0 ELSE 1, bits_to_follow)
    <3>3. \/ archive' = longer /\ bits_to_follow' = 0
          \/ archive' = archive /\ bits_to_follow' = bits_to_follow + 1
      BY <1>3
    <3>4. longer \in Seq({0, 1})  BY <3>2
    <3> HIDE DEF longer
    <3>5. QED BY <1>a, <3>3, <3>4
  <2>3. IType'  BY <1>0, <1>3, <2>1, <2>2 DEF IType
  <2>4. Wide' /\ ValueInside'  BY <1>3 DEF Wide, ValueInside
  <2>5. (m \in Model /\ Consistent(m))'  BY <1>0, <1>3 DEF Consistent
  <2>6. QED BY <2>3, <2>4, <2>5 DEF CInv
<1>4. CASE EncodeNext
  <2> USE DEF EncodeNext
  <2>1. IType'  BY <1>0, <1>4 DEF IType
  <2>2. Wide'  BY <1>4, <1>a, SettledIsWide DEF Wide
  <2>3. ValueInside'  BY <1>4 DEF ValueInside
  <2>4. symbol \in 1 .. No_of_chars  BY <1>0, <1>4, CharIndex DEF IType
  <2>5. update_model(m, symbol) \in Model /\ Consistent(update_model(m, symbol))
    BY <1>0, <2>4, UpdateConsistent
  <2>6. m' = update_model(m, symbol)  BY <1>4
  <2>7. (m \in Model)' /\ Consistent(m)'  BY <2>5, <2>6
  <2>8. QED BY <2>1, <2>2, <2>3, <2>7 DEF CInv
<1>5. CASE EncodeDone
  <2> DEFINE file == Filled(archive \o BitPlusFollow(IF low < First_qtr THEN 0 ELSE 1,
                                                     bits_to_follow + 1))
  <2>1. file \in Seq({0, 1})
    <3> DEFINE last == IF low < First_qtr THEN 0 ELSE 1
               tail == BitPlusFollow(last, bits_to_follow + 1)
    <3>1. last \in {0, 1} /\ bits_to_follow + 1 \in Nat  BY <1>a
    <3>2. tail \in Seq({0, 1})  BY <3>1, BitsTyped
    <3> HIDE DEF tail
    <3>3. archive \o tail \in Seq({0, 1})  BY <1>a, <3>2, BitsTyped
    <3>4. Filled(archive \o tail) \in Seq({0, 1})  BY <3>3, BitsTyped
    <3>5. QED BY <3>4 DEF tail
  <2>2. archive' \in Seq({0, 1})
    <3>1. /\ lost' \in 0 .. MaxLost /\ lost' * ByteBits <= Len(file)
          /\ archive' = SubSeq(file, 1, Len(file) - lost' * ByteBits)
      BY <1>5 DEF EncodeDone
    <3> HIDE DEF file
    <3>2. lost' \in Nat /\ lost' * ByteBits \in Nat
      <4>1. lost' \in Nat /\ ByteBits \in Nat  BY <3>1, CodeFacts
      <4>2. ByteBits * lost' = lost' * ByteBits /\ lost' <= lost'  BY <4>1
      <4>3. \A x \in Nat : x * ByteBits \in Nat  BY <4>1, MulMono
      <4>4. QED BY <4>1, <4>3
    <3>3. \A i \in 1 .. Len(file) - lost' * ByteBits : file[i] \in {0, 1}
      BY <2>1, <3>2
    <3>4. Len(file) - lost' * ByteBits \in Int  BY <2>1, <3>2
    <3>5. QED BY <3>1, <3>3, <3>4, SubSeqProperties
  <2>3. /\ phase' = "start_decoding" /\ low' = 0 /\ high' = Top_value /\ value' = 0
        /\ bits_to_follow' = 0 /\ m' = start_model /\ input' = 0
    BY <1>5 DEF EncodeDone
  <2>4. IType'  BY <2>2, <2>3, CodeFacts DEF IType
  <2>5. Wide'  BY <2>3 DEF Wide
  <2>6. ValueInside'
    <3>1. 0 < 2 ^ 0 /\ 0 < Code_value_bits
      <4>1. 2 ^ 0 \in Nat \ {0}  BY PowerOfTwo
      <4>2. QED BY <4>1, CodeFacts
    <3>2. QED BY <2>3, <3>1 DEF ValueInside
  <2>7. (m \in Model)' /\ Consistent(m)'  BY <2>3, StartModel
  <2>8. QED BY <2>4, <2>5, <2>6, <2>7 DEF CInv
<1>6. CASE start_decoding
  <2> USE DEF start_decoding, CountInput
  <2>1. /\ low = 0 /\ high = Top_value /\ input < Code_value_bits /\ value < 2 ^ input
    BY <1>0, <1>6 DEF ValueInside
  <2>2. value' \in Nat /\ value' < 2 ^ (input + 1) /\ input' = input + 1
    <3>1. 2 ^ input \in Nat /\ 2 ^ (input + 1) = 2 * 2 ^ input  BY <1>a, PowerOfTwo
    <3>2. input_bit \in {0, 1}  BY <1>a, InputBit
    <3>3. value' = 2 * value + input_bit /\ input' = input + 1  BY <1>6
    <3>4. QED BY <1>a, <2>1, <3>1, <3>2, <3>3
  <2>3. IType'  BY <1>0, <1>6, <2>2 DEF IType
  <2>4. Wide' /\ ValueInside'
    <3>1. CASE input + 1 = Code_value_bits
      <4>1. phase' = "decode" /\ low' = 0 /\ high' = Top_value  BY <1>6, <2>1, <3>1
      <4>2. value' <= Top_value  BY <2>2, <3>1, CodeFacts
      <4>3. QED BY <2>2, <4>1, <4>2, CodeFacts DEF Wide, ValueInside
    <3>2. CASE input + 1 # Code_value_bits
      <4>1. phase' = "start_decoding" /\ low' = 0 /\ high' = Top_value
        BY <1>6, <2>1, <3>2
      <4>2. input' < Code_value_bits  BY <1>a, <2>1, <2>2, <3>2, CodeFacts
      <4>3. value' < 2 ^ input'  BY <2>2
      <4>4. QED BY <4>1, <4>2, <4>3 DEF Wide, ValueInside
    <3>3. QED BY <3>1, <3>2
  <2>5. (m \in Model /\ Consistent(m))'  BY <1>0, <1>6 DEF Consistent
  <2>6. QED BY <2>3, <2>4, <2>5 DEF CInv
<1>7. CASE DecodeSymbol
  <2> USE DEF DecodeSymbol
  <2>1. high - low + 1 > First_qtr /\ low <= value /\ value <= high
    BY <1>0, <1>7 DEF Wide, ValueInside
  <2>2. /\ symbol' \in Symbol
        /\ m.cum_freq[symbol'] <= CumOfValue
        /\ \A r \in 1 .. symbol' - 1 : m.cum_freq[r] > CumOfValue
    <3>1. \E s \in Symbol : /\ m.cum_freq[s] <= CumOfValue
                            /\ \A r \in 1 .. s - 1 : m.cum_freq[r] > CumOfValue
      BY <1>0, <1>a, <2>1, SymbolOfValue
    <3>2. QED BY <1>7, <3>1
  <2>3. Region(symbol')[1] <= value /\ value <= Region(symbol')[2]
    BY <1>0, <1>a, <2>1, <2>2, SymbolOfValue
  <2>4. Narrow(symbol')  BY <1>7
  <2>5. IType'  BY <1>0, <1>7, <1>b, <2>2, <2>4 DEF IType
  <2>6. Wide' /\ ValueInside'  BY <1>7, <2>3 DEF Wide, ValueInside, Narrow
  <2>7. (m \in Model /\ Consistent(m))'  BY <1>0, <1>7 DEF Consistent
  <2>8. QED BY <2>5, <2>6, <2>7 DEF CInv
<1>8. CASE DecodeBits
  <2> USE DEF DecodeBits, CountInput
  <2>1. low <= value /\ value <= high  BY <1>0, <1>8 DEF ValueInside
  <2>2. input_bit \in {0, 1}  BY <1>a, InputBit
  <2>3. /\ low' \in 0 .. Top_value /\ high' \in 0 .. Top_value /\ low' <= high'
        /\ value' \in Nat /\ low' <= value' /\ value' <= high'
    BY <1>8, <1>a, <2>1, <2>2, ExpandInside
  <2>4. input' \in Nat  BY <1>8, <1>a
  <2>5. IType'  BY <1>0, <1>8, <2>3, <2>4 DEF IType
  <2>6. Wide' /\ ValueInside'  BY <1>8, <2>3 DEF Wide, ValueInside
  <2>7. (m \in Model /\ Consistent(m))'  BY <1>0, <1>8 DEF Consistent
  <2>8. QED BY <2>5, <2>6, <2>7 DEF CInv
<1>9. CASE DecodeNext
  <2> USE DEF DecodeNext
  <2>1. IType'  BY <1>0, <1>9 DEF IType
  <2>2. low <= value /\ value <= high  BY <1>0, <1>9 DEF ValueInside
  <2>3. Wide' /\ ValueInside'  BY <1>9, <1>a, <2>2, SettledIsWide DEF Wide, ValueInside
  <2>4. CASE symbol = EOF_symbol
    <3>1. (m \in Model /\ Consistent(m))'  BY <1>0, <1>9, <2>4 DEF Consistent
    <3>2. QED BY <2>1, <2>3, <3>1 DEF CInv
  <2>5. CASE symbol # EOF_symbol
    <3>1. symbol \in 1 .. No_of_chars  BY <1>0, <1>9, <2>5, CharIndex DEF IType
    <3>2. update_model(m, symbol) \in Model /\ Consistent(update_model(m, symbol))
      BY <1>0, <3>1, UpdateConsistent
    <3>3. m' = update_model(m, symbol)  BY <1>9, <2>5
    <3>4. (m \in Model)' /\ Consistent(m)'  BY <3>2, <3>3
    <3>5. QED BY <2>1, <2>3, <3>4 DEF CInv
  <2>6. QED BY <2>4, <2>5
<1>10. CASE BadInput
  <2> USE DEF BadInput
  <2>1. IType' /\ Wide' /\ ValueInside'  BY <1>0, <1>10 DEF IType, Wide, ValueInside
  <2>2. (m \in Model /\ Consistent(m))'  BY <1>0, <1>10 DEF Consistent
  <2>3. QED BY <2>1, <2>2 DEF CInv
<1>11. CASE UNCHANGED vars
  <2> USE DEF vars
  <2>1. IType' /\ Wide' /\ ValueInside'  BY <1>0, <1>11 DEF IType, Wide, ValueInside
  <2>2. (m \in Model /\ Consistent(m))'  BY <1>0, <1>11 DEF Consistent
  <2>3. QED BY <2>1, <2>2 DEF CInv
<1>12. QED
  BY <1>1, <1>2, <1>3, <1>4, <1>5, <1>6, <1>7, <1>8, <1>9, <1>10, <1>11 DEF Next

(* The invariant of both programs with their models.                       *)
THEOREM CoderInvariant == Spec => []CInv
BY InitCInv, NextCInv, PTL DEF Spec

(* Halving and reordering keep the model of the program that is running    *)
(* consistent: totals, order, limit and translation tables.                *)
THEOREM AlwaysConsistent == Spec => []ModelConsistent
<1>1. CInv => ModelConsistent  BY DEF CInv, ModelConsistent
<1>2. QED BY <1>1, CoderInvariant, PTL

(* Every symbol has a part of the region when one is coded, and the        *)
(* decoder's value is in its region whatever the archive has lost.         *)
THEOREM AlwaysFits == Spec => []EverySymbolFits
<1>1. CInv => EverySymbolFits
  <2> SUFFICES ASSUME CInv PROVE EverySymbolFits  OBVIOUS
  <2>1. /\ m \in Model /\ Consistent(m) /\ low \in Nat /\ high \in Nat /\ low <= high
    BY CodeFacts DEF CInv, IType
  <2>2. phase \in {"encode", "decode"} => high - low + 1 > First_qtr
    BY DEF CInv, Wide
  <2>3. ASSUME phase \in {"encode", "decode"}, NEW s \in Symbol
        PROVE  Region(s)[1] <= Region(s)[2]
    BY <2>1, <2>2, <2>3, RegionInside
  <2>4. phase \in {"decode", "decode_loop"} => low <= value /\ value <= high
    BY DEF CInv, ValueInside
  <2>5. QED BY <2>1, <2>2, <2>3, <2>4 DEF EverySymbolFits
<1>2. QED BY <1>1, CoderInvariant, PTL

-----------------------------------------------------------------------------
(* What the decoder reads, as a function: P[k] is the number that the      *)
(* first k bits form.                                                      *)
Stream(P, M) ==
  /\ P \in [0 .. M -> Nat] /\ P[0] = 0
  /\ \A k \in 1 .. M : P[k] - 2 * P[k - 1] \in {0, 1}
BitOf(P, k) == P[k] - 2 * P[k - 1]

LEMMA StreamNext ==
  ASSUME NEW M \in Nat, NEW P, Stream(P, M), NEW k \in Nat, k < M
  PROVE  /\ P[k] \in Nat /\ P[k + 1] \in Nat /\ BitOf(P, k + 1) \in {0, 1}
         /\ P[k + 1] = 2 * P[k] + BitOf(P, k + 1)
<1>1. k \in 0 .. M /\ k + 1 \in 0 .. M /\ k + 1 \in 1 .. M /\ (k + 1) - 1 = k  OBVIOUS
<1>2. P[k] \in Nat /\ P[k + 1] \in Nat  BY <1>1 DEF Stream
<1>3. P[k + 1] - 2 * P[k] \in {0, 1}  BY <1>1 DEF Stream
<1>4. QED BY <1>1, <1>2, <1>3 DEF BitOf

(* There is one for every sequence of bits. *)
LEMMA StreamExists ==
  ASSUME NEW M \in Nat, NEW f, \A k \in 1 .. M : f[k] \in {0, 1}
  PROVE  \E P : Stream(P, M) /\ \A k \in 1 .. M : BitOf(P, k) = f[k]
<1> DEFINE F == [kv \in (1 .. M) \X Nat |-> 2 * kv[2] + f[kv[1]]]
<1>1. F \in [(1 .. M) \X Nat -> Nat]
  <2>1. ASSUME NEW kv \in (1 .. M) \X Nat PROVE 2 * kv[2] + f[kv[1]] \in Nat
    <3>1. kv[2] \in Nat /\ f[kv[1]] \in {0, 1}  OBVIOUS
    <3>2. QED BY <3>1
  <2>2. QED BY <2>1
<1>2. \A k \in 1 .. M, v \in Nat : F[<<k, v>>] = 2 * v + f[k]  OBVIOUS
<1>3. IsStep(M, Nat, F)  BY <1>1 DEF IsStep
<1> HIDE DEF F
<1>4. PICK P : IsRecursion(M, Nat, 0, F, P)  BY <1>3, RecursionExists
<1>5. P \in [0 .. M -> Nat] /\ P[0] = 0 /\ \A k \in 1 .. M : P[k] = F[<<k, P[k - 1]>>]
  BY <1>4 DEF IsRecursion
<1>6. ASSUME NEW k \in 1 .. M PROVE P[k] - 2 * P[k - 1] = f[k]
  <2>1. k - 1 \in 0 .. M /\ k \in 0 .. M  OBVIOUS
  <2>2. P[k - 1] \in Nat /\ f[k] \in {0, 1}  BY <1>5, <2>1
  <2>3. P[k] = 2 * P[k - 1] + f[k]  BY <1>2, <1>5, <2>2
  <2>4. QED BY <2>2, <2>3
<1>7. QED BY <1>5, <1>6 DEF Stream, BitOf

(* L more bits make a number 2^L times as large, and less than that more.  *)
LEMMA StreamBound ==
  ASSUME NEW M \in Nat, NEW P, Stream(P, M), NEW j \in Nat, NEW L \in Nat, j + L <= M
  PROVE  /\ P[j] \in Nat /\ P[j + L] \in Nat
         /\ 2 ^ L * P[j] <= P[j + L] /\ P[j + L] < 2 ^ L * P[j] + 2 ^ L
<1> DEFINE S == {l \in Nat : j + l <= M =>
                   /\ P[j + l] \in Nat
                   /\ 2 ^ l * P[j] <= P[j + l] /\ P[j + l] < 2 ^ l * P[j] + 2 ^ l}
<1>0. P[j] \in Nat
  <2>1. j \in 0 .. M  OBVIOUS
  <2>2. QED BY <2>1 DEF Stream
<1>1. 0 \in S
  <2>1. 2 ^ 0 = 1  OBVIOUS
  <2>2. j + 0 = j /\ 1 * P[j] = P[j]  BY <1>0
  <2>3. QED BY <1>0, <2>1, <2>2
<1>2. ASSUME NEW l \in S PROVE l + 1 \in S
  <2>1. SUFFICES ASSUME j + (l + 1) <= M
                 PROVE  /\ P[j + (l + 1)] \in Nat
                        /\ 2 ^ (l + 1) * P[j] <= P[j + (l + 1)]
                        /\ P[j + (l + 1)] < 2 ^ (l + 1) * P[j] + 2 ^ (l + 1)
    OBVIOUS
  <2> DEFINE q == 2 ^ l
             a == P[j + l]
             b == P[(j + l) + 1]
  <2>2. q \in Nat /\ 2 ^ (l + 1) = 2 * q  BY PowerOfTwo
  <2>3. q * P[j] <= a /\ a < q * P[j] + q  BY <1>2, <2>1
  <2>4. j + l \in Nat /\ j + l < M /\ j + (l + 1) = (j + l) + 1  BY <2>1
  <2>5. a \in Nat /\ b \in Nat /\ (b = 2 * a \/ b = 2 * a + 1)
    <3>1. /\ a \in Nat /\ b \in Nat /\ BitOf(P, (j + l) + 1) \in {0, 1}
          /\ b = 2 * a + BitOf(P, (j + l) + 1)
      BY <2>4, StreamNext
    <3>2. QED BY <3>1
  <2> HIDE DEF q, a, b
  <2>6. (2 * q) * P[j] = 2 * (q * P[j]) /\ q * P[j] \in Nat  BY <1>0, <2>2
  <2>7. 2 * (q * P[j]) <= b /\ b < 2 * (q * P[j]) + 2 * q
    BY <2>2, <2>3, <2>5, <2>6
  <2>8. P[j + (l + 1)] = b  BY <2>4 DEF b
  <2>9. QED BY <2>2, <2>5, <2>6, <2>7, <2>8
<1>3. S = Nat
  <2>1. S \in SUBSET Nat  OBVIOUS
  <2> HIDE DEF S
  <2>2. QED BY <1>1, <1>2, <2>1, SetInduction
<1>4. L \in S
  <2> HIDE DEF S
  <2>1. QED BY <1>3
<1>5. QED BY <1>0, <1>4

(* The trail of the encoder: its states, before a symbol and in the loop   *)
(* that gets rid of bits (loop).  shifts counts the turns of the loop and  *)
(* code is what they have told: that many halves of the code values are    *)
(* below the region.                                                       *)
Settles(s) == ~(s.high < Half) /\ ~(s.low >= Half) /\ ~(s.low >= First_qtr /\ s.high < Third_qtr)
Part(s, r) ==
  LET range == s.high - s.low + 1
      cum == s.m.cum_freq
  IN  <<s.low + (range * cum[r]) \div cum[0],
        s.low + (range * cum[r - 1]) \div cum[0] - 1>>

Start(s) ==
  /\ ~s.loop /\ s.low = 0 /\ s.high = Top_value /\ s.m = start_model
  /\ s.shifts = 0 /\ s.code = 0 /\ s.count = 0

Typed(s) ==
  /\ s.loop \in BOOLEAN /\ s.low \in Nat /\ s.high \in Nat
  /\ s.shifts \in Nat /\ s.code \in Nat /\ s.count \in Nat

CodesSymbol(s, t) ==
  /\ ~s.loop /\ t.loop /\ t.symbol \in Symbol
  /\ t.low = Part(s, t.symbol)[1] /\ t.high = Part(s, t.symbol)[2]
  /\ s.low <= t.low /\ t.high <= s.high
  /\ t.m = s.m /\ t.shifts = s.shifts /\ t.code = s.code /\ t.count = s.count

(* The lower half, the upper one or the middle is expanded: quarter is the *)
(* first quarter of it.                                                    *)
Expands(s, t, quarter) ==
  /\ t.low = 2 * (s.low - quarter * First_qtr)
  /\ t.high = 2 * (s.high - quarter * First_qtr) + 1
  /\ t.code = 2 * s.code + quarter

ShiftsBit(s, t) ==
  /\ s.loop /\ ~Settles(s) /\ t.loop /\ t.symbol = s.symbol
  /\ t.m = s.m /\ t.shifts = s.shifts + 1 /\ t.count = s.count
  /\ Expands(s, t, IF s.high < Half THEN 0 ELSE IF s.low >= Half THEN 2 ELSE 1)

AdaptsModel(s, t) ==
  /\ s.loop /\ Settles(s) /\ s.symbol # EOF_symbol /\ ~t.loop
  /\ t.m = update_model(s.m, s.symbol) /\ t.count = s.count + 1
  /\ t.low = s.low /\ t.high = s.high /\ t.shifts = s.shifts /\ t.code = s.code

Follows(s, t) == CodesSymbol(s, t) \/ ShiftsBit(s, t) \/ AdaptsModel(s, t)

(* The symbol is the one of the next character, or the end.                *)
Due(s) ==
  s.loop => IF s.symbol = EOF_symbol THEN s.count = Len(sent)
            ELSE /\ s.count < Len(sent)
                 /\ s.symbol = s.m.char_to_index[sent[s.count + 1]]

Trail(T, n) ==
  /\ n \in Nat \ {0} /\ Start(T[1])
  /\ \A k \in 1 .. n : Typed(T[k]) /\ T[k].shifts <= T[n].shifts /\ Due(T[k])
  /\ \A k \in 1 .. n - 1 : Follows(T[k], T[k + 1])

(* What a decoder has for its value after as many shifts, and that it is   *)
(* inside the region.                                                      *)
ValueAt(P, s) == P[Code_value_bits + s.shifts] - Half * s.code
Inside(P, s) == s.low <= ValueAt(P, s) /\ ValueAt(P, s) <= s.high

(* A shift takes the next bit, as DecodeBits does. *)
LEMMA ValueShifts ==
  ASSUME NEW s, NEW t, Typed(s), ShiftsBit(s, t), NEW M \in Nat, NEW P, Stream(P, M),
         Code_value_bits + s.shifts < M
  PROVE  \E offset \in {0, First_qtr, Half} :
           /\ offset = (IF s.high < Half THEN 0 ELSE IF s.low >= Half THEN Half ELSE First_qtr)
           /\ t.low = 2 * (s.low - offset) /\ t.high = 2 * (s.high - offset) + 1
           /\ ValueAt(P, t) = 2 * (ValueAt(P, s) - offset)
                                + BitOf(P, Code_value_bits + s.shifts + 1)
           /\ ValueAt(P, s) \in Int
           /\ BitOf(P, Code_value_bits + s.shifts + 1) \in {0, 1}
<1> DEFINE quarter == IF s.high < Half THEN 0 ELSE IF s.low >= Half THEN 2 ELSE 1
           offset == IF s.high < Half THEN 0 ELSE IF s.low >= Half THEN Half ELSE First_qtr
           k == Code_value_bits + s.shifts
           h == Half * s.code
<1>1. /\ s.low \in Nat /\ s.high \in Nat /\ s.code \in Nat /\ k \in Nat /\ k < M
      /\ Half \in Nat /\ Half = 2 * First_qtr /\ First_qtr \in Nat
  BY CodeFacts DEF Typed
<1>2. /\ t.low = 2 * (s.low - quarter * First_qtr) /\ t.code = 2 * s.code + quarter
      /\ t.high = 2 * (s.high - quarter * First_qtr) + 1
      /\ t.shifts = s.shifts + 1
  BY DEF ShiftsBit, Expands
<1>3. quarter * First_qtr = offset /\ 2 * offset = Half * quarter /\ quarter \in Nat
      /\ offset \in {0, First_qtr, Half}
  BY <1>1
<1>4. P[k] \in Nat /\ BitOf(P, k + 1) \in {0, 1} /\ P[k + 1] = 2 * P[k] + BitOf(P, k + 1)
  BY <1>1, StreamNext
<1> HIDE DEF quarter
<1>5. h \in Nat /\ Half * t.code = 2 * h + 2 * offset
  <2>1. Half * (2 * s.code + quarter) = 2 * (Half * s.code) + Half * quarter
        /\ Half * s.code \in Nat
    BY <1>1, <1>3
  <2>2. QED BY <1>2, <1>3, <2>1
<1>6. ValueAt(P, t) = P[k + 1] - Half * t.code
  <2>1. Code_value_bits + t.shifts = k + 1  BY <1>2, CodeFacts DEF Typed
  <2>2. QED BY <2>1 DEF ValueAt
<1>7. ValueAt(P, s) = P[k] - h  BY DEF ValueAt
<1>8. offset \in Nat  BY <1>1
<1> HIDE DEF h, k, offset
<1>9. ValueAt(P, t) = 2 * (ValueAt(P, s) - offset) + BitOf(P, k + 1)
  BY <1>4, <1>5, <1>6, <1>7, <1>8
<1>10. ValueAt(P, s) \in Int  BY <1>4, <1>5, <1>7
<1>11. t.low = 2 * (s.low - offset) /\ t.high = 2 * (s.high - offset) + 1  BY <1>2, <1>3
<1>12. WITNESS offset \in {0, First_qtr, Half}
<1>13. QED BY <1>4, <1>9, <1>10, <1>11 DEF k, offset

(* A value that is inside after a step was inside before it. *)
LEMMA InsideBefore ==
  ASSUME NEW s, NEW t, Typed(s), Typed(t), Follows(s, t),
         NEW M \in Nat, NEW P, Stream(P, M), Code_value_bits + t.shifts <= M, Inside(P, t)
  PROVE  Inside(P, s)
<1>1. CASE ShiftsBit(s, t)
  <2>1. Code_value_bits + s.shifts < M  BY <1>1, CodeFacts DEF ShiftsBit, Typed
  <2>2. PICK offset \in {0, First_qtr, Half} :
           /\ t.low = 2 * (s.low - offset) /\ t.high = 2 * (s.high - offset) + 1
           /\ ValueAt(P, t) = 2 * (ValueAt(P, s) - offset)
                                + BitOf(P, Code_value_bits + s.shifts + 1)
           /\ ValueAt(P, s) \in Int
           /\ BitOf(P, Code_value_bits + s.shifts + 1) \in {0, 1}
    BY <1>1, <2>1, ValueShifts
  <2> DEFINE v == ValueAt(P, s)
             b == BitOf(P, Code_value_bits + s.shifts + 1)
  <2>3. v \in Int /\ b \in {0, 1} /\ offset \in Nat /\ s.low \in Nat /\ s.high \in Nat
    BY <2>2, CodeFacts DEF Typed
  <2>4. 2 * (s.low - offset) <= 2 * (v - offset) + b
        /\ 2 * (v - offset) + b <= 2 * (s.high - offset) + 1
    BY <2>2 DEF Inside
  <2> HIDE DEF v, b
  <2>5. s.low <= v /\ v <= s.high  BY <2>3, <2>4
  <2>6. QED BY <2>5 DEF Inside, v
<1>2. CASE ~ShiftsBit(s, t)
  <2>1. /\ t.shifts = s.shifts /\ t.code = s.code
        /\ s.low <= t.low /\ t.high <= s.high
    BY <1>2, CodeFacts DEF Follows, CodesSymbol, AdaptsModel, Typed
  <2>2. ValueAt(P, t) = ValueAt(P, s)  BY <2>1 DEF ValueAt
  <2>3. ValueAt(P, t) \in Int
    <3>1. Code_value_bits + t.shifts \in 0 .. M  BY CodeFacts DEF Typed
    <3>2. P[Code_value_bits + t.shifts] \in Nat  BY <3>1 DEF Stream
    <3>3. Half \in Nat /\ t.code \in Nat  BY CodeFacts DEF Typed
    <3>4. Half * t.code \in Nat  BY <3>3
    <3>5. QED BY <3>2, <3>4 DEF ValueAt
  <2>4. QED BY <2>1, <2>2, <2>3 DEF Inside, Typed
<1>3. QED BY <1>1, <1>2

(* So a value that is inside at the end of the trail was always inside.    *)
LEMMA AlwaysInside ==
  ASSUME NEW n, NEW T, Trail(T, n), NEW M \in Nat, NEW P, Stream(P, M),
         Code_value_bits + T[n].shifts <= M, Inside(P, T[n])
  PROVE  \A k \in 1 .. n : Inside(P, T[k])
<1> DEFINE S == {j \in Nat : j < n => Inside(P, T[n - j])}
<1>0. n \in Nat \ {0}  BY DEF Trail
<1>1. 0 \in S
  <2>1. n - 0 = n  BY <1>0
  <2>2. QED BY <2>1
<1>2. ASSUME NEW j \in S PROVE j + 1 \in S
  <2>1. SUFFICES ASSUME j + 1 < n PROVE Inside(P, T[n - (j + 1)])  OBVIOUS
  <2> DEFINE k == n - (j + 1)
  <2>2. k \in 1 .. n - 1 /\ k \in 1 .. n /\ k + 1 \in 1 .. n /\ k + 1 = n - j
    BY <1>0, <2>1
  <2>3. Inside(P, T[k + 1])  BY <1>0, <1>2, <2>1, <2>2
  <2>4. Typed(T[k]) /\ Typed(T[k + 1]) /\ Follows(T[k], T[k + 1])
        /\ T[k + 1].shifts <= T[n].shifts
    BY <2>2 DEF Trail
  <2>5. Code_value_bits + T[k + 1].shifts <= M
    <3>1. n \in 1 .. n  BY <1>0
    <3>2. T[n].shifts \in Nat /\ T[k + 1].shifts \in Nat
      BY <2>4, <3>1 DEF Typed, Trail
    <3>3. QED BY <2>4, <3>2, CodeFacts
  <2> HIDE DEF k
  <2>6. Inside(P, T[k])  BY <2>3, <2>4, <2>5, InsideBefore
  <2>7. QED BY <2>6 DEF k
<1>3. S = Nat
  <2>1. S \in SUBSET Nat  OBVIOUS
  <2> HIDE DEF S
  <2>2. QED BY <1>1, <1>2, <2>1, SetInduction
<1>4. ASSUME NEW k \in 1 .. n PROVE Inside(P, T[k])
  <2>1. n - k \in Nat /\ n - k < n /\ n - (n - k) = k  BY <1>0
  <2>2. n - k \in S
    <3> HIDE DEF S
    <3>1. QED BY <1>3, <2>1
  <2>3. QED BY <2>1, <2>2
<1>5. QED BY <1>4

(* The state of the trail at which the running program stands.             *)
Stands(s) == low = s.low /\ high = s.high /\ m = s.m

(* A reader finds a, the bit b and n opposite ones. *)
Finds(P, a, b, n) ==
  /\ \A i \in 1 .. Len(a) : BitOf(P, i) = a[i]
  /\ BitOf(P, Len(a) + 1) = b
  /\ \A i \in 1 .. n : BitOf(P, Len(a) + 1 + i) = Opposite(b)

(* What the archive has of the code: with any next bit, and the opposite   *)
(* bits that are due after it, it is the code or one more.                 *)
Written(code) ==
  \A M \in Nat, b \in {0, 1} : \A P :
    Stream(P, M) /\ Len(archive) + 1 + bits_to_follow <= M
      /\ Finds(P, archive, b, bits_to_follow)
    => P[Len(archive) + 1 + bits_to_follow] = code + b

(* The encoder is at the end of the trail of n states T.                   *)
Coded(T, n) ==
  /\ Trail(T, n) /\ Stands(T[n])
  /\ T[n].loop = (phase = "encode_loop")
  /\ T[n].loop => T[n].symbol = symbol
  /\ T[n].count = (IF T[n].loop /\ symbol # EOF_symbol THEN Len(sent) - 1 ELSE Len(sent))
  /\ T[n].shifts = Len(archive) + bits_to_follow
  /\ Written(T[n].code)
  /\ \A k \in 1 .. n : T[k].loop /\ T[k].symbol = EOF_symbol
                         => phase = "encode_loop" /\ symbol = EOF_symbol

Coding == \E n, T : Coded(T, n)

LEMMA TrailGrows ==
  ASSUME NEW T, NEW n, Trail(T, n), NEW t, Typed(t), T[n].shifts <= t.shifts,
         Follows(T[n], t), Due(t)', \A k \in 1 .. n : Due(T[k])'
  PROVE  \E U : /\ Trail(U, n + 1)' /\ U[n + 1] = t
                /\ \A k \in 1 .. n : U[k] = T[k]
<1> DEFINE U == [k \in 1 .. n + 1 |-> IF k <= n THEN T[k] ELSE t]
<1>1. n \in Nat \ {0} /\ n + 1 \in Nat \ {0} /\ n \in 1 .. n /\ 1 \in 1 .. n  BY DEF Trail
<1>2. U[n + 1] = t /\ \A k \in 1 .. n : U[k] = T[k]  BY <1>1
<1>3. U' = U  OBVIOUS
<1> HIDE DEF U
<1>4. Start(U[1])  BY <1>1, <1>2 DEF Trail
<1>5. ASSUME NEW k \in 1 .. n + 1
      PROVE  Typed(U[k]) /\ U[k].shifts <= U[n + 1].shifts /\ Due(U[k])'
  <2>1. CASE k = n + 1  BY <1>2, <2>1 DEF Typed
  <2>2. CASE k # n + 1
    <3>1. k \in 1 .. n  BY <1>1, <2>2
    <3>2. Typed(T[k]) /\ T[k].shifts <= T[n].shifts /\ Typed(T[n])  BY <1>1, <3>1 DEF Trail
    <3>3. T[k].shifts <= t.shifts  BY <3>2 DEF Typed
    <3>4. QED BY <1>2, <3>1, <3>2, <3>3
  <2>3. QED BY <2>1, <2>2
<1>6. ASSUME NEW k \in 1 .. n PROVE Follows(U[k], U[k + 1])
  <2>1. CASE k = n  BY <1>1, <1>2, <2>1
  <2>2. CASE k # n
    <3>1. k \in 1 .. n - 1 /\ k + 1 \in 1 .. n  BY <1>1, <2>2
    <3>2. QED BY <1>2, <3>1 DEF Trail
  <2>3. QED BY <2>1, <2>2
<1>7. Trail(U, n + 1)'
  <2>1. (n + 1) - 1 = n  BY <1>1
  <2>2. QED BY <1>1, <1>3, <1>4, <1>5, <1>6, <2>1 DEF Trail, Start, Typed, Follows
<1>8. QED BY <1>2, <1>7

(* As long as the end is not coded, more characters change no symbol.      *)
LEMMA DueStays ==
  ASSUME NEW T, NEW n, Trail(T, n), sent \in Seq(Char),
         \/ sent' = sent
         \/ /\ \A k \in 1 .. n : ~(T[k].loop /\ T[k].symbol = EOF_symbol)
            /\ \E ch \in Char : sent' = Append(sent, ch)
  PROVE  \A k \in 1 .. n : Due(T[k])'
<1>1. SUFFICES ASSUME NEW k \in 1 .. n PROVE Due(T[k])'  OBVIOUS
<1>2. Typed(T[k]) /\ Due(T[k])  BY DEF Trail
<1>3. CASE sent' = sent  BY <1>2, <1>3 DEF Due
<1>4. ASSUME ~(T[k].loop /\ T[k].symbol = EOF_symbol),
             NEW ch \in Char, sent' = Append(sent, ch)
      PROVE  Due(T[k])'
  <2>1. SUFFICES ASSUME T[k].loop
                 PROVE  /\ T[k].count < Len(sent')
                        /\ T[k].symbol = T[k].m.char_to_index[sent'[T[k].count + 1]]
    BY <1>4 DEF Due
  <2>2. T[k].count < Len(sent)
        /\ T[k].symbol = T[k].m.char_to_index[sent[T[k].count + 1]]
    BY <1>2, <1>4, <2>1 DEF Due
  <2>3. T[k].count \in Nat  BY <1>2 DEF Typed
  <2>4. T[k].count + 1 \in 1 .. Len(sent) /\ Len(sent') = Len(sent) + 1
    BY <1>4, <2>2, <2>3
  <2>5. sent'[T[k].count + 1] = sent[T[k].count + 1]  BY <1>4, <2>4
  <2>6. QED BY <2>2, <2>3, <2>4, <2>5
<1>5. QED BY <1>1, <1>3, <1>4

LEMMA CodedGrows ==
  ASSUME NEW T, NEW n, Coded(T, n), NEW t, Typed(t), T[n].shifts <= t.shifts,
         Follows(T[n], t), \A k \in 1 .. n : Due(T[k])', Due(t)', Stands(t)',
         t.loop = (phase' = "encode_loop"), t.loop => t.symbol = symbol',
         t.count = (IF t.loop /\ symbol' # EOF_symbol THEN Len(sent') - 1 ELSE Len(sent')),
         t.shifts = Len(archive') + bits_to_follow', Written(t.code)',
         \A k \in 1 .. n : T[k].loop /\ T[k].symbol = EOF_symbol
                             => phase' = "encode_loop" /\ symbol' = EOF_symbol
  PROVE  Coding'
<1>1. n \in Nat \ {0} /\ Trail(T, n)  BY DEF Coded, Trail
<1>2. PICK U : /\ Trail(U, n + 1)' /\ U[n + 1] = t
               /\ \A k \in 1 .. n : U[k] = T[k]
  BY <1>1, TrailGrows
<1>3. ASSUME NEW k \in 1 .. n + 1, U[k].loop, U[k].symbol = EOF_symbol
      PROVE  phase' = "encode_loop" /\ symbol' = EOF_symbol
  <2>1. CASE k = n + 1  BY <1>2, <1>3, <2>1
  <2>2. CASE k # n + 1
    <3>1. k \in 1 .. n  BY <1>1, <2>2
    <3>2. QED BY <1>2, <1>3, <3>1
  <2>3. QED BY <2>1, <2>2
<1>4. Coded(U, n + 1)'  BY <1>2, <1>3 DEF Coded
<1>5. QED BY <1>4 DEF Coding

LEMMA EncodeTrail ==
  ASSUME CInv, Coding, sent \in Seq(Char),
         EncodeEOF \/ \E ch \in Char : EncodeChar(ch)
  PROVE  Coding'
<1>1. PICK n, T : Coded(T, n)  BY DEF Coding
<1>2. /\ phase = "encode" /\ phase' = "encode_loop"
      /\ Narrow(symbol') /\ UNCHANGED <<bits_to_follow, m, archive>>
  BY DEF EncodeEOF, EncodeChar
<1>3. /\ m \in Model /\ Consistent(m) /\ low \in Nat /\ high \in Nat /\ low <= high
      /\ high - low + 1 > First_qtr
  BY <1>2, CodeFacts DEF CInv, IType, Wide
<1>4. \/ symbol' = EOF_symbol /\ sent' = sent
      \/ \E ch \in Char : symbol' = m.char_to_index[ch] /\ sent' = Append(sent, ch)
  BY DEF EncodeEOF, EncodeChar
<1>5. symbol' \in Symbol  BY <1>3, <1>4, CharIndex
<1>6. n \in Nat \ {0} /\ n \in 1 .. n /\ Typed(T[n]) /\ Trail(T, n)  BY <1>1 DEF Coded, Trail
<1> DEFINE s == T[n]
<1>7. /\ Region(symbol')[1] \in Nat /\ Region(symbol')[2] \in Nat
      /\ low <= Region(symbol')[1] /\ Region(symbol')[2] <= high
  BY <1>3, <1>5, RegionInside
<1>8. low' = Region(symbol')[1] /\ high' = Region(symbol')[2]  BY <1>2 DEF Narrow
<1>9. PICK t : t = [loop |-> TRUE, low |-> low', high |-> high', m |-> s.m, symbol |-> symbol',
                    shifts |-> s.shifts, code |-> s.code, count |-> s.count]
  OBVIOUS
<1>10. ~s.loop /\ s.low = low /\ s.high = high /\ s.m = m /\ s.count = Len(sent)
       /\ s.shifts = Len(archive) + bits_to_follow /\ Written(s.code)
  BY <1>1, <1>2 DEF Coded, Stands
<1>11. /\ t.loop = TRUE /\ t.symbol = symbol' /\ t.low = low' /\ t.high = high' /\ t.m = m
       /\ t.shifts = s.shifts /\ t.code = s.code /\ t.count = Len(sent)
  BY <1>9, <1>10
<1>12. Typed(t)  BY <1>6, <1>7, <1>8, <1>10, <1>11 DEF Typed
<1>13. Follows(s, t)
  <2>1. Region(symbol') = Part(s, symbol')  BY <1>10 DEF Region, Part
  <2>2. CodesSymbol(s, t)
    BY <1>5, <1>7, <1>8, <1>10, <1>11, <2>1 DEF CodesSymbol
  <2>3. QED BY <2>2 DEF Follows
<1>14. \A k \in 1 .. n : ~(T[k].loop /\ T[k].symbol = EOF_symbol)
  BY <1>1, <1>2 DEF Coded
<1>15. Len(sent) \in Nat  OBVIOUS
<1>16. Due(t)' /\ t.count = (IF symbol' # EOF_symbol THEN Len(sent') - 1 ELSE Len(sent'))
  <2>1. CASE symbol' = EOF_symbol /\ sent' = sent
    BY <1>11, <2>1 DEF Due
  <2>2. ASSUME NEW ch \in Char, symbol' = m.char_to_index[ch], sent' = Append(sent, ch)
        PROVE  Due(t)' /\ t.count = (IF symbol' # EOF_symbol THEN Len(sent') - 1 ELSE Len(sent'))
    <3>1. symbol' # EOF_symbol
      <4>1. m.char_to_index[ch] \in 1 .. No_of_chars  BY <1>3, ModelFields
      <4>2. QED BY <2>2, <4>1, IndexFacts
    <3>2. Len(sent') = Len(sent) + 1 /\ sent'[Len(sent) + 1] = ch  BY <2>2
    <3>3. t.count = Len(sent') - 1 /\ t.count < Len(sent')  BY <1>11, <1>15, <3>2
    <3>4. t.symbol = t.m.char_to_index[sent'[t.count + 1]]  BY <1>11, <2>2, <3>2
    <3>5. QED BY <1>11, <3>1, <3>3, <3>4 DEF Due
  <2>3. QED BY <1>4, <2>1, <2>2
<1>17. \A k \in 1 .. n : Due(T[k])'
  <2>1. sent' = sent \/ \E ch \in Char : sent' = Append(sent, ch)  BY <1>4
  <2>2. QED BY <1>6, <1>14, <2>1, DueStays
<1>18. T[n].shifts <= t.shifts  BY <1>6, <1>11 DEF Typed
<1>19. Written(t.code)'  BY <1>2, <1>10, <1>11 DEF Written
<1>20. Stands(t)'  BY <1>2, <1>11 DEF Stands
<1>21. t.shifts = Len(archive') + bits_to_follow'  BY <1>2, <1>10, <1>11
<1>22. QED
  BY <1>1, <1>2, <1>11, <1>12, <1>13, <1>14, <1>16, <1>17, <1>18, <1>19, <1>20, <1>21,
     CodedGrows

LEMMA EncodeNextTrail ==
  ASSUME CInv, Coding, sent \in Seq(Char), EncodeNext
  PROVE  Coding'
<1>1. PICK n, T : Coded(T, n)  BY DEF Coding
<1>2. /\ phase = "encode_loop" /\ phase' = "encode" /\ Settled /\ symbol # EOF_symbol
      /\ m' = update_model(m, symbol)
      /\ UNCHANGED <<low, high, bits_to_follow, archive, sent>>
  BY DEF EncodeNext
<1>3. n \in Nat \ {0} /\ n \in 1 .. n /\ Typed(T[n]) /\ Trail(T, n)  BY <1>1 DEF Coded, Trail
<1> DEFINE s == T[n]
<1>4. /\ s.loop /\ s.symbol = symbol /\ s.low = low /\ s.high = high /\ s.m = m
      /\ s.count = Len(sent) - 1
      /\ s.shifts = Len(archive) + bits_to_follow /\ Written(s.code)
  BY <1>1, <1>2 DEF Coded, Stands
<1>5. PICK t : t = [loop |-> FALSE, low |-> s.low, high |-> s.high, m |-> m',
                    shifts |-> s.shifts, code |-> s.code, count |-> s.count + 1]
  OBVIOUS
<1>6. /\ t.loop = FALSE /\ t.low = s.low /\ t.high = s.high /\ t.m = m'
      /\ t.shifts = s.shifts /\ t.code = s.code /\ t.count = s.count + 1
  BY <1>5
<1>7. Typed(t)
  <2>1. /\ s.low \in Nat /\ s.high \in Nat /\ s.shifts \in Nat /\ s.code \in Nat
        /\ s.count \in Nat /\ s.count + 1 \in Nat
    BY <1>3 DEF Typed
  <2>2. QED BY <1>6, <2>1 DEF Typed
<1>8. Follows(s, t)
  <2>1. Settles(s)  BY <1>2, <1>4 DEF Settles, Settled, LowHalf, HighHalf, Middle
  <2>2. AdaptsModel(s, t)  BY <1>2, <1>4, <1>6, <2>1 DEF AdaptsModel
  <2>3. QED BY <2>2 DEF Follows
<1>9. \A k \in 1 .. n : ~(T[k].loop /\ T[k].symbol = EOF_symbol)
  BY <1>1, <1>2 DEF Coded
<1>10. Due(t)'  BY <1>6 DEF Due
<1>11. \A k \in 1 .. n : Due(T[k])'  BY <1>2, <1>3, DueStays
<1>12. T[n].shifts <= t.shifts  BY <1>3, <1>6 DEF Typed
<1>13. t.count = Len(sent')
  <2>1. Len(sent) \in Nat  OBVIOUS
  <2>2. QED BY <1>2, <1>4, <1>6, <2>1
<1>14. Written(t.code)'  BY <1>2, <1>4, <1>6 DEF Written
<1>15. Stands(t)'  BY <1>2, <1>4, <1>6 DEF Stands
<1>16. t.shifts = Len(archive') + bits_to_follow'  BY <1>2, <1>4, <1>6
<1>17. QED
  BY <1>1, <1>2, <1>6, <1>7, <1>8, <1>9, <1>10, <1>11, <1>12, <1>13, <1>14, <1>15, <1>16,
     CodedGrows

LEMMA RepeatIs ==
  ASSUME NEW b \in {0, 1}, NEW n \in Nat
  PROVE  /\ Len(BitPlusFollow(b, n)) = n + 1
         /\ BitPlusFollow(b, n)[1] = b
         /\ \A i \in 1 .. n : BitPlusFollow(b, n)[i + 1] = Opposite(b)
<1> DEFINE r == Repeat(Opposite(b), n)
<1>1. r = [i \in 1 .. n |-> Opposite(b)]  BY DEF Repeat
<1>2. r \in Seq({Opposite(b)}) /\ Len(r) = n /\ \A i \in 1 .. n : r[i] = Opposite(b)
  BY <1>1
<1> HIDE DEF r
<1>3. <<b>> \in Seq({b}) /\ Len(<<b>>) = 1  OBVIOUS
<1>4. <<b>> \o r \in Seq({b, Opposite(b)}) /\ Len(<<b>> \o r) = 1 + n
  BY <1>2, <1>3
<1>5. (<<b>> \o r)[1] = b  BY <1>2, <1>3
<1>6. ASSUME NEW i \in 1 .. n PROVE (<<b>> \o r)[i + 1] = Opposite(b)
  <2>1. i + 1 \in 1 .. Len(<<b>> \o r)  BY <1>4
  <2>2. (<<b>> \o r)[i + 1] = r[(i + 1) - 1]  BY <1>2, <1>3, <2>1
  <2>3. QED BY <1>2, <2>2
<1>7. BitPlusFollow(b, n) = <<b>> \o r  BY DEF BitPlusFollow, r
<1>8. QED BY <1>4, <1>5, <1>6, <1>7

(* What a reader finds where bit_plus_follow wrote. *)
LEMMA FollowRead ==
  ASSUME NEW a \in Seq({0, 1}), NEW b \in {0, 1}, NEW n \in Nat,
         NEW w, w = a \o BitPlusFollow(b, n)
  PROVE  /\ w \in Seq({0, 1}) /\ Len(w) = Len(a) + 1 + n
         /\ \A P : (\A i \in 1 .. Len(w) : BitOf(P, i) = w[i]) => Finds(P, a, b, n)
<1> DEFINE d == BitPlusFollow(b, n)
<1>1. /\ d \in Seq({0, 1}) /\ Len(d) = n + 1 /\ d[1] = b
      /\ \A i \in 1 .. n : d[i + 1] = Opposite(b)
  BY BitsTyped, RepeatIs
<1>2. w = a \o d  OBVIOUS
<1> HIDE DEF d
<1>3. w \in Seq({0, 1}) /\ Len(w) = Len(a) + (n + 1)
  <2>1. a \o d \in Seq({0, 1}) /\ Len(a \o d) = Len(a) + Len(d)
    BY <1>1, ConcatProperties
  <2>2. QED BY <1>1, <1>2, <2>1
<1>4. Len(a) \in Nat  OBVIOUS
<1>5. \A i \in 1 .. Len(a) : w[i] = a[i]  BY <1>1, <1>2
<1>6. w[Len(a) + 1] = b
  <2>1. Len(a) + 1 \in 1 .. Len(a) + Len(d)  BY <1>1, <1>4
  <2>2. w[Len(a) + 1] = d[(Len(a) + 1) - Len(a)]  BY <1>1, <1>2, <2>1
  <2>3. QED BY <1>1, <1>4, <2>2
<1>7. ASSUME NEW i \in 1 .. n PROVE w[Len(a) + 1 + i] = Opposite(b)
  <2>1. Len(a) + 1 + i \in 1 .. Len(a) + Len(d)  BY <1>1, <1>4
  <2>2. w[Len(a) + 1 + i] = d[(Len(a) + 1 + i) - Len(a)]  BY <1>1, <1>2, <1>4, <2>1
  <2>3. (Len(a) + 1 + i) - Len(a) = i + 1  BY <1>4
  <2>4. QED BY <1>1, <2>2, <2>3
<1>8. ASSUME NEW P, \A i \in 1 .. Len(w) : BitOf(P, i) = w[i]
      PROVE  Finds(P, a, b, n)
  <2>1. \A i \in 1 .. Len(a) : i \in 1 .. Len(w)  BY <1>3, <1>4
  <2>2. Len(a) + 1 \in 1 .. Len(w)  BY <1>3, <1>4
  <2>3. \A i \in 1 .. n : Len(a) + 1 + i \in 1 .. Len(w)  BY <1>3, <1>4
  <2>4. QED BY <1>5, <1>6, <1>7, <1>8, <2>1, <2>2, <2>3 DEF Finds
<1>9. Len(w) = Len(a) + 1 + n  BY <1>3, <1>4
<1>10. QED BY <1>3, <1>8, <1>9

(* A bit that is put with those that are due doubles the code and adds     *)
(* twice the bit; a bit that is put off doubles it and adds one.           *)
LEMMA WrittenBit ==
  ASSUME archive \in Seq({0, 1}), bits_to_follow \in Nat, NEW code \in Nat, Written(code),
         NEW bit \in {0, 1},
         archive' = archive \o BitPlusFollow(bit, bits_to_follow), bits_to_follow' = 0
  PROVE  Written(2 * code + 2 * bit)' /\ Len(archive') = Len(archive) + 1 + bits_to_follow
<1> DEFINE A == Len(archive)
           F == bits_to_follow
<1>1. PICK w : w = archive'  OBVIOUS
<1> DEFINE B == Len(w)
<1>2. /\ B = A + 1 + F
      /\ \A P : (\A i \in 1 .. B : BitOf(P, i) = w[i]) => Finds(P, archive, bit, F)
  <2>1. w = archive \o BitPlusFollow(bit, F)  BY <1>1
  <2>2. QED BY <2>1, FollowRead
<1>3. A \in Nat /\ F \in Nat /\ B \in Nat  BY <1>2
<1>4. ASSUME NEW M \in Nat, NEW b \in {0, 1}, NEW P,
             Stream(P, M), B + 1 + 0 <= M, Finds(P, w, b, 0)
      PROVE  P[B + 1 + 0] = 2 * code + 2 * bit + b
  <2>1. A + 1 + F <= M /\ B < M  BY <1>2, <1>3, <1>4
  <2>2. Finds(P, archive, bit, F)  BY <1>2, <1>4 DEF Finds
  <2>3. P[A + 1 + F] = code + bit  BY <1>4, <2>1, <2>2 DEF Written
  <2>4. P[B + 1] = 2 * P[B] + BitOf(P, B + 1) /\ P[B] \in Nat
    BY <1>3, <1>4, <2>1, StreamNext
  <2>5. BitOf(P, B + 1) = b  BY <1>4 DEF Finds
  <2>6. P[B] = code + bit /\ B + 1 + 0 = B + 1  BY <1>2, <1>3, <2>3
  <2>7. QED BY <2>4, <2>5, <2>6
<1>5. Written(2 * code + 2 * bit)'
  BY <1>1, <1>4 DEF Written
<1>6. QED BY <1>1, <1>2, <1>5

LEMMA WrittenMiddle ==
  ASSUME archive \in Seq({0, 1}), bits_to_follow \in Nat, NEW code \in Nat, Written(code),
         archive' = archive, bits_to_follow' = bits_to_follow + 1
  PROVE  Written(2 * code + 1)'
<1> DEFINE A == Len(archive)
           F == bits_to_follow
<1>1. A \in Nat /\ F \in Nat  OBVIOUS
<1>2. ASSUME NEW M \in Nat, NEW b \in {0, 1}, NEW P,
             Stream(P, M), A + 1 + (F + 1) <= M, Finds(P, archive, b, F + 1)
      PROVE  P[A + 1 + (F + 1)] = 2 * code + 1 + b
  <2>1. Finds(P, archive, b, F)
    <3>1. \A i \in 1 .. F : i \in 1 .. F + 1  BY <1>1
    <3>2. QED BY <1>2, <3>1 DEF Finds
  <2>2. A + 1 + F <= M  BY <1>1, <1>2
  <2>3. P[A + 1 + F] = code + b  BY <1>2, <2>1, <2>2 DEF Written
  <2>4. A + 1 + F \in Nat /\ A + 1 + F < M  BY <1>1, <1>2
  <2>5. P[(A + 1 + F) + 1] = 2 * P[A + 1 + F] + BitOf(P, (A + 1 + F) + 1)
    BY <1>2, <2>4, StreamNext
  <2>6. BitOf(P, A + 1 + (F + 1)) = Opposite(b)
    <3>1. F + 1 \in 1 .. F + 1  BY <1>1
    <3>2. QED BY <1>2, <3>1 DEF Finds
  <2>7. A + 1 + (F + 1) = (A + 1 + F) + 1  BY <1>1
  <2>8. QED BY <2>3, <2>5, <2>6, <2>7 DEF Opposite
<1>3. QED BY <1>2 DEF Written

LEMMA EncodeBitsTrail ==
  ASSUME CInv, Coding, sent \in Seq(Char), EncodeBits
  PROVE  Coding'
<1>1. PICK n, T : Coded(T, n)  BY DEF Coding
<1>2. /\ phase = "encode_loop" /\ phase' = phase /\ ~Settled
      /\ symbol' = symbol /\ m' = m /\ sent' = sent
      /\ low' = 2 * (low - Offset) /\ high' = 2 * (high - Offset) + 1
  BY DEF EncodeBits, Expand
<1>3. n \in Nat \ {0} /\ n \in 1 .. n /\ Typed(T[n]) /\ Trail(T, n) /\ Due(T[n])
  BY <1>1 DEF Coded, Trail
<1> DEFINE s == T[n]
           quarter == IF s.high < Half THEN 0 ELSE IF s.low >= Half THEN 2 ELSE 1
<1>4. /\ s.loop /\ s.symbol = symbol /\ s.low = low /\ s.high = high /\ s.m = m
      /\ s.count = (IF symbol # EOF_symbol THEN Len(sent) - 1 ELSE Len(sent))
      /\ s.shifts = Len(archive) + bits_to_follow /\ Written(s.code)
  BY <1>1, <1>2 DEF Coded, Stands
<1>5. PICK t : t = [loop |-> TRUE, low |-> low', high |-> high', m |-> m, symbol |-> symbol,
                    shifts |-> s.shifts + 1, code |-> 2 * s.code + quarter, count |-> s.count]
  OBVIOUS
<1>6. /\ t.loop = TRUE /\ t.low = low' /\ t.high = high' /\ t.m = m /\ t.symbol = symbol
      /\ t.shifts = s.shifts + 1 /\ t.code = 2 * s.code + quarter /\ t.count = s.count
  BY <1>5
<1>7. /\ low \in 0 .. Top_value /\ high \in 0 .. Top_value /\ low <= high
      /\ archive \in Seq({0, 1}) /\ bits_to_follow \in Nat
  BY CodeFacts DEF CInv, IType
<1>8. low' \in Nat /\ high' \in Nat
  <2>1. low' \in 0 .. Top_value /\ high' \in 0 .. Top_value
    BY <1>2, <1>7, ExpandInside DEF Expand
  <2>2. QED BY <2>1, CodeFacts
<1>9. /\ s.shifts \in Nat /\ s.code \in Nat /\ s.count \in Nat
      /\ s.shifts + 1 \in Nat /\ 2 * s.code + quarter \in Nat
  BY <1>3 DEF Typed
<1>10. Typed(t)  BY <1>6, <1>8, <1>9 DEF Typed
<1>11. Offset = quarter * First_qtr
  BY <1>4, CodeFacts DEF Offset, LowHalf, HighHalf
<1>12. Follows(s, t)
  <2>1. ~Settles(s)  BY <1>2, <1>4 DEF Settles, Settled, LowHalf, HighHalf, Middle
  <2>2. Expands(s, t, quarter)
    <3> HIDE DEF quarter
    <3>1. QED BY <1>2, <1>4, <1>6, <1>11 DEF Expands
  <2>3. ShiftsBit(s, t)  BY <1>4, <1>6, <2>1, <2>2 DEF ShiftsBit
  <2>4. QED BY <2>3 DEF Follows
<1>13. Written(t.code)' /\ t.shifts = Len(archive') + bits_to_follow'
  <2>1. Len(archive) \in Nat  BY <1>7
  <2>2. ASSUME NEW bit \in {0, 1}, quarter = 2 * bit,
               archive' = archive \o BitPlusFollow(bit, bits_to_follow), bits_to_follow' = 0
        PROVE  Written(t.code)' /\ t.shifts = Len(archive') + bits_to_follow'
    <3>1. Written(2 * s.code + 2 * bit)' /\ Len(archive') = Len(archive) + 1 + bits_to_follow
      BY <1>4, <1>7, <1>9, <2>2, WrittenBit
    <3>2. QED BY <1>4, <1>6, <1>7, <2>1, <2>2, <3>1
  <2>3. CASE Middle
    <3>1. bits_to_follow' = bits_to_follow + 1 /\ archive' = archive
      BY <2>3 DEF EncodeBits
    <3>2. quarter = 1  BY <1>4, <2>3 DEF Middle, LowHalf, HighHalf
    <3>3. Written(2 * s.code + 1)'  BY <1>4, <1>7, <1>9, <3>1, WrittenMiddle
    <3>4. QED BY <1>4, <1>6, <1>7, <2>1, <3>1, <3>2, <3>3
  <2>4. CASE ~Middle
    <3>1. /\ archive' = archive \o BitPlusFollow(IF LowHalf THEN 0 ELSE 1, bits_to_follow)
          /\ bits_to_follow' = 0
      BY <2>4 DEF EncodeBits
    <3>2. quarter = 2 * (IF LowHalf THEN 0 ELSE 1)
      BY <1>2, <1>4, <1>7, <2>4, CodeFacts DEF LowHalf, HighHalf, Settled
    <3>3. CASE LowHalf  BY <2>2, <3>1, <3>2, <3>3
    <3>4. CASE ~LowHalf  BY <2>2, <3>1, <3>2, <3>4
    <3>5. QED BY <3>3, <3>4
  <2>5. QED BY <2>3, <2>4
<1>14. Due(t)'  BY <1>2, <1>3, <1>4, <1>6 DEF Due
<1>15. \A k \in 1 .. n : Due(T[k])'  BY <1>2, <1>3, DueStays
<1>16. T[n].shifts <= t.shifts  BY <1>6, <1>9
<1>17. t.count = (IF symbol' # EOF_symbol THEN Len(sent') - 1 ELSE Len(sent'))
  BY <1>2, <1>4, <1>6
<1>18. Stands(t)'  BY <1>2, <1>6 DEF Stands
<1>19. \A k \in 1 .. n : T[k].loop /\ T[k].symbol = EOF_symbol
                            => phase' = "encode_loop" /\ symbol' = EOF_symbol
  BY <1>1, <1>2 DEF Coded
<1>20. t.loop = (phase' = "encode_loop") /\ t.symbol = symbol'  BY <1>2, <1>6
<1> HIDE DEF quarter
<1>21. QED
  BY <1>1, <1>6, <1>10, <1>12, <1>13, <1>14, <1>15, <1>16, <1>17, <1>18, <1>19, <1>20,
     CodedGrows

(* The bits that the decoder reads: the archive's, then ones.              *)
ReadBit(i) == IF i > Len(archive) THEN 1 ELSE archive[i]

(* The whole trail, and the numbers that the bits read form along it.      *)
Archived(T, n, P) ==
  /\ Trail(T, n)
  /\ T[n].loop /\ T[n].symbol = EOF_symbol /\ Settles(T[n])
  /\ Stream(P, Code_value_bits + T[n].shifts)
  /\ \A i \in 1 .. Code_value_bits + T[n].shifts : BitOf(P, i) = ReadBit(i)
  /\ \A k \in 1 .. n : Inside(P, T[k])
  /\ T[n].shifts + 3 <= Len(archive)

(* The decoder is where the encoder was.                                   *)
StandsWith(s, P) ==
  /\ Stands(s) /\ s.loop = (phase = "decode_loop") /\ (s.loop => s.symbol = symbol)
  /\ input = Code_value_bits + s.shifts /\ value = ValueAt(P, s) /\ Len(got) = s.count

Retraces(T, n, P) ==
  \/ phase = "start_decoding" /\ m = start_model /\ value = P[input] /\ got = <<>>
  \/ phase \in {"decode", "decode_loop"} /\ \E k \in 1 .. n : StandsWith(T[k], P)
  \/ phase = "done"

Decoding == \E n, T, P : Archived(T, n, P) /\ Retraces(T, n, P)

LEMMA QuarterPower ==
  2 ^ (Code_value_bits - 2) = First_qtr /\ Code_value_bits - 2 \in Nat \ {0}
<1> DEFINE k == Code_value_bits - 2
<1>1. k \in Nat \ {0} /\ k + 1 \in Nat /\ (k + 1) + 1 = Code_value_bits  BY CodeAssumption
<1>2. 2 ^ k \in Nat /\ 2 ^ (k + 1) = 2 * 2 ^ k /\ 2 ^ ((k + 1) + 1) = 2 * 2 ^ (k + 1)
  BY <1>1, PowerOfTwo
<1>3. 4 * First_qtr = 2 ^ ((k + 1) + 1) /\ First_qtr \in Nat  BY <1>1, CodeFacts
<1> HIDE DEF k
<1>4. 2 ^ k = First_qtr  BY <1>2, <1>3
<1>5. QED BY <1>1, <1>4 DEF k

LEMMA FilledFile ==
  ASSUME NEW w \in Seq({0, 1})
  PROVE  /\ Filled(w) \in Seq({0, 1}) /\ Len(Filled(w)) > Len(w)
         /\ \A i \in 1 .. Len(w) : Filled(w)[i] = w[i]
<1> DEFINE n == ByteBits - (Len(w) % ByteBits)
           z == Repeat(0, n)
<1>1. n \in Nat \ {0}
  <2>1. Len(w) \in Nat /\ ByteBits \in Nat \ {0}  BY CodeFacts
  <2>2. Len(w) % ByteBits \in 0 .. ByteBits - 1  BY <2>1, DivMod
  <2>3. QED BY <2>1, <2>2
<1> HIDE DEF n
<1>2. z \in Seq({0, 1}) /\ Len(z) = n  BY <1>1 DEF Repeat
<1>3. Filled(w) = w \o z  BY DEF Filled, n
<1> HIDE DEF z
<1>4. w \o z \in Seq({0, 1}) /\ Len(w \o z) = Len(w) + Len(z)
      /\ \A i \in 1 .. Len(w) : (w \o z)[i] = w[i]
  BY <1>2, ConcatProperties
<1>5. QED BY <1>1, <1>2, <1>3, <1>4

(* The two bits of done_encoding and those that are due, followed by       *)
(* anything, are inside the region.                                        *)
LEMMA DoneInside ==
  ASSUME archive \in Seq({0, 1}), bits_to_follow \in Nat, NEW s, Typed(s), Written(s.code),
         Settles(s), s.shifts = Len(archive) + bits_to_follow,
         s.high <= Top_value,
         NEW b \in {0, 1}, b = (IF s.low < First_qtr THEN 0 ELSE 1),
         NEW M \in Nat, M = Code_value_bits + s.shifts, NEW P, Stream(P, M),
         Finds(P, archive, b, bits_to_follow + 1)
  PROVE  Inside(P, s)
<1> DEFINE A == Len(archive)
           F == bits_to_follow
           j == A + 1 + F
           c == s.code
           q == First_qtr
           L == Code_value_bits - 2
<1>1. /\ A \in Nat /\ F \in Nat /\ j \in Nat /\ c \in Nat /\ q \in Nat \ {0} /\ L \in Nat \ {0}
      /\ 2 ^ L = q /\ Half = 2 * q /\ (j + 1) + L = M /\ j < M /\ (j + 1) + L <= M
      /\ Code_value_bits + s.shifts = (j + 1) + L
  BY CodeFacts, QuarterPower DEF Typed
<1>2. P[j] = c + b
  <2>1. Finds(P, archive, b, F)
    <3>1. \A i \in 1 .. F : i \in 1 .. F + 1  BY <1>1
    <3>2. QED BY <3>1 DEF Finds
  <2>2. QED BY <1>1, <2>1 DEF Written
<1>3. P[j + 1] = 2 * P[j] + BitOf(P, j + 1) /\ P[j + 1] \in Nat  BY <1>1, StreamNext
<1>4. BitOf(P, j + 1) = 1 - b
  <2>1. F + 1 \in 1 .. F + 1 /\ j + 1 = A + 1 + (F + 1)  BY <1>1
  <2>2. QED BY <2>1 DEF Finds, Opposite
<1>5. P[j + 1] = 2 * c + b + 1  BY <1>1, <1>2, <1>3, <1>4
<1>6. /\ P[(j + 1) + L] \in Nat
      /\ q * P[j + 1] <= P[(j + 1) + L] /\ P[(j + 1) + L] < q * P[j + 1] + q
  <2>1. j + 1 \in Nat  BY <1>1
  <2>2. QED BY <1>1, <2>1, StreamBound
<1>7. q * P[j + 1] = 2 * (q * c) + q * (b + 1) /\ q * c \in Nat /\ Half * c = 2 * (q * c)
  <2>1. q * (2 * c + b + 1) = 2 * (q * c) + q * (b + 1)  BY <1>1
  <2>2. q * c \in Nat /\ (2 * q) * c = 2 * (q * c)  BY <1>1
  <2>3. QED BY <1>1, <1>5, <2>1, <2>2
<1>8. ValueAt(P, s) = P[(j + 1) + L] - Half * c  BY <1>1 DEF ValueAt
<1> DEFINE v == ValueAt(P, s)
           x == P[(j + 1) + L]
           y == q * c
<1>9. v = x - 2 * y /\ x \in Nat /\ y \in Nat /\ 2 * y + q * (b + 1) <= x
      /\ x < 2 * y + q * (b + 1) + q
  BY <1>6, <1>7, <1>8
<1> HIDE DEF v, x, y
<1>10. v \in Int /\ q * (b + 1) <= v /\ v < q * (b + 1) + q
  <2>1. q * (b + 1) \in Nat  BY <1>1
  <2>2. QED BY <1>1, <1>9, <2>1
<1>11. s.low \in Nat /\ s.high \in Nat  BY DEF Typed
<1>12. s.low <= v /\ v <= s.high
  <2>1. CASE b = 0
    <3>1. q * (b + 1) = q  BY <1>1, <2>1
    <3>2. s.low < q  BY <2>1
    <3>3. s.high >= 2 * q  BY <1>1, <1>11 DEF Settles
    <3>4. QED BY <1>1, <1>10, <1>11, <3>1, <3>2, <3>3
  <2>2. CASE b = 1
    <3>1. q * (b + 1) = 2 * q  BY <1>1, <2>2
    <3>2. ~(s.low < q)  BY <2>2
    <3>3. s.low < 2 * q /\ s.high >= 3 * q
      BY <1>1, <1>11, <3>2, CodeFacts DEF Settles
    <3>4. QED BY <1>1, <1>10, <1>11, <3>1, <3>3
  <2>3. QED BY <2>1, <2>2
<1>13. QED BY <1>12 DEF Inside, v

LEMMA EncodeDoneTrail ==
  ASSUME CInv, Coding, sent \in Seq(Char), got = <<>>, EncodeDone, lost' = 0
  PROVE  Decoding' /\ garbage_bits' = 0 /\ input' = 0
<1>1. PICK n, T : Coded(T, n)  BY DEF Coding
<1> DEFINE s == T[n]
           last == IF low < First_qtr THEN 0 ELSE 1
<1>2. /\ phase = "encode_loop" /\ phase' = "start_decoding" /\ Settled /\ symbol = EOF_symbol
      /\ m' = start_model /\ sent' = sent /\ got' = <<>> /\ value' = 0 /\ input' = 0
      /\ garbage_bits' = 0
  BY DEF EncodeDone
<1>3. n \in Nat \ {0} /\ n \in 1 .. n /\ Typed(s) /\ Trail(T, n)  BY <1>1 DEF Coded, Trail
<1>4. /\ s.loop /\ s.symbol = symbol /\ s.low = low /\ s.high = high /\ s.m = m
      /\ s.shifts = Len(archive) + bits_to_follow /\ Written(s.code)
  BY <1>1, <1>2 DEF Coded, Stands
<1>5. /\ low \in 0 .. Top_value /\ high \in 0 .. Top_value /\ low <= high
      /\ archive \in Seq({0, 1}) /\ bits_to_follow \in Nat
  BY CodeFacts DEF CInv, IType
<1>6. PICK b \in {0, 1} : b = last  OBVIOUS
<1>7. PICK w : w = archive \o BitPlusFollow(b, bits_to_follow + 1)  OBVIOUS
<1>8. /\ w \in Seq({0, 1}) /\ Len(w) = Len(archive) + 1 + (bits_to_follow + 1)
      /\ \A P : (\A i \in 1 .. Len(w) : BitOf(P, i) = w[i])
                  => Finds(P, archive, b, bits_to_follow + 1)
  <2>1. PICK k \in Nat : k = bits_to_follow + 1  BY <1>5
  <2>2. w = archive \o BitPlusFollow(b, k)  BY <1>7, <2>1
  <2>3. /\ w \in Seq({0, 1}) /\ Len(w) = Len(archive) + 1 + k
        /\ \A P : (\A i \in 1 .. Len(w) : BitOf(P, i) = w[i]) => Finds(P, archive, b, k)
    BY <1>5, <2>2, FollowRead
  <2>4. QED BY <2>1, <2>3
<1>9. PICK file : file = Filled(w)  OBVIOUS
<1>10. /\ file \in Seq({0, 1}) /\ Len(file) > Len(w)
       /\ \A i \in 1 .. Len(w) : file[i] = w[i]
  BY <1>8, <1>9, FilledFile
<1>11. archive' = file
  <2>1. archive' = SubSeq(file, 1, Len(file) - lost' * ByteBits)
    BY <1>6, <1>7, <1>9 DEF EncodeDone
  <2>2. Len(file) - lost' * ByteBits = Len(file)  BY <1>10, CodeFacts
  <2>3. SubSeq(file, 1, Len(file)) = file  BY <1>10
  <2>4. QED BY <2>1, <2>2, <2>3
<1>12. PICK M \in Nat : M = Code_value_bits + s.shifts
  <2>1. Code_value_bits + s.shifts \in Nat  BY <1>3, CodeFacts DEF Typed
  <2>2. QED BY <2>1
<1> DEFINE f == [i \in 1 .. M |-> IF i > Len(file) THEN 1 ELSE file[i]]
<1>13. \A i \in 1 .. M : f[i] \in {0, 1}
  <2>1. ASSUME NEW i \in 1 .. M, ~(i > Len(file)) PROVE file[i] \in {0, 1}
    <3>1. i \in 1 .. Len(file)  BY <1>10, <2>1
    <3>2. QED BY <1>10, <3>1
  <2>2. QED BY <2>1
<1>14. PICK P : Stream(P, M) /\ \A i \in 1 .. M : BitOf(P, i) = f[i]
  <2> HIDE DEF f
  <2>1. QED BY <1>13, StreamExists
<1>15. Finds(P, archive, b, bits_to_follow + 1)
  <2>1. ASSUME NEW i \in 1 .. Len(w) PROVE BitOf(P, i) = w[i]
    <3>1. i \in 1 .. M /\ ~(i > Len(file))
      BY <1>4, <1>5, <1>8, <1>10, <1>12, CodeAssumption
    <3>2. QED BY <1>10, <1>14, <3>1
  <2>2. QED BY <1>8, <2>1
<1>16. Settles(s)  BY <1>2, <1>4 DEF Settles, Settled, LowHalf, HighHalf, Middle
<1>17. Inside(P, s)
  <2>1. s.high <= Top_value /\ b = (IF s.low < First_qtr THEN 0 ELSE 1)
    BY <1>4, <1>5, <1>6, CodeFacts
  <2>2. QED BY <1>3, <1>4, <1>5, <1>12, <1>14, <1>15, <1>16, <2>1, DoneInside
<1>18. \A k \in 1 .. n : Inside(P, T[k])
  <2>1. Code_value_bits + T[n].shifts <= M  BY <1>12
  <2>2. QED BY <1>3, <1>14, <1>17, <2>1, AlwaysInside
<1>19. Trail(T, n)'  BY <1>2, <1>3 DEF Trail, Due
<1>20. s.shifts + 3 <= Len(archive')  BY <1>4, <1>5, <1>8, <1>10, <1>11
<1>21. \A i \in 1 .. M : BitOf(P, i) = ReadBit(i)'  BY <1>11, <1>14 DEF ReadBit
<1>22. Archived(T, n, P)'
  BY <1>2, <1>4, <1>12, <1>14, <1>16, <1>18, <1>19, <1>20, <1>21 DEF Archived
<1>23. Retraces(T, n, P)'
  <2>1. P[0] = 0  BY <1>14 DEF Stream
  <2>2. QED BY <1>2, <2>1 DEF Retraces
<1>24. QED BY <1>2, <1>22, <1>23 DEF Decoding

(* A value is in the part of one symbol only. *)
LEMMA PartsInOrder ==
  ASSUME m \in Model, Consistent(m), low \in Nat, high \in Nat, low <= high,
         NEW r \in Symbol, NEW t \in Symbol, r < t
  PROVE  Region(t)[2] < Region(r)[1] /\ Region(t)[2] \in Int /\ Region(r)[1] \in Nat
<1> DEFINE c == m.cum_freq
           R == high - low + 1
           d == c[0]
           S == {k \in Nat : r + k <= N => c[r + k] <= c[r]}
           a == R * c[t - 1]
           b == R * c[r]
<1>1. /\ d \in Nat \ {0}
      /\ \A s \in Symbol : c[s] \in Nat /\ c[s - 1] \in Nat /\ c[s] + 1 <= c[s - 1]
  BY TotalsOrder
<1>2. Region(t)[2] = low + a \div d - 1 /\ Region(r)[1] = low + b \div d  BY DEF Region
<1>3. R \in Nat  OBVIOUS
<1> HIDE DEF c, R, d
<1>4. c[t - 1] <= c[r] /\ c[t - 1] \in Nat /\ c[r] \in Nat
  <2>1. 0 \in S
    <3>1. r + 0 = r /\ c[r] \in Nat  BY <1>1, IndexFacts
    <3>2. QED BY <3>1
  <2>2. ASSUME NEW k \in S PROVE k + 1 \in S
    <3>1. SUFFICES ASSUME r + (k + 1) <= N PROVE c[r + (k + 1)] <= c[r]  OBVIOUS
    <3>2. c[r + k] <= c[r]  BY <2>2, <3>1, IndexFacts
    <3>3. r + (k + 1) \in Symbol /\ (r + (k + 1)) - 1 = r + k  BY <3>1, IndexFacts
    <3>4. c[r + (k + 1)] \in Nat /\ c[r + k] \in Nat /\ c[r + (k + 1)] + 1 <= c[r + k]
      BY <1>1, <3>3
    <3>5. QED BY <1>1, <3>2, <3>4
  <2>3. S = Nat
    <3>1. S \in SUBSET Nat  OBVIOUS
    <3> HIDE DEF S
    <3>2. QED BY <2>1, <2>2, <3>1, SetInduction
  <2>4. (t - 1) - r \in Nat /\ r + ((t - 1) - r) = t - 1 /\ t - 1 <= N  BY IndexFacts
  <2>5. (t - 1) - r \in S
    <3> HIDE DEF S
    <3>1. QED BY <2>3, <2>4
  <2>6. c[t - 1] <= c[r]  BY <2>4, <2>5
  <2>7. QED BY <1>1, <2>6
<1>5. a <= b /\ a \in Nat /\ b \in Nat
  <2>1. c[t - 1] * R <= c[r] * R /\ c[t - 1] * R \in Nat /\ c[r] * R \in Nat
    BY <1>3, <1>4, MulMono
  <2>2. c[t - 1] * R = a /\ c[r] * R = b  BY <1>3, <1>4
  <2>3. QED BY <2>1, <2>2
<1> HIDE DEF a, b
<1>6. a \div d \in Nat /\ (a \div d) * d <= a
  <2>1. a \div d \in Nat /\ a % d \in 0 .. d - 1 /\ a = (a \div d) * d + (a % d)
    BY <1>1, <1>5, DivMod
  <2>2. (a \div d) * d \in Nat  BY <1>1, <2>1, MulMono
  <2>3. QED BY <1>1, <2>1, <2>2
<1>7. a \div d <= b \div d
  <2>1. (a \div d) * d \in Nat  BY <1>1, <1>6, MulMono
  <2>2. (a \div d) * d <= b  BY <1>5, <1>6, <2>1
  <2>3. QED BY <1>1, <1>5, <1>6, <2>2, DivAtLeast
<1>8. b \div d \in Nat  BY <1>1, <1>5, DivMod
<1>9. QED BY <1>2, <1>6, <1>7, <1>8

LEMMA OnePart ==
  ASSUME m \in Model, Consistent(m), low \in Nat, high \in Nat, low <= high,
         value \in Nat, NEW r \in Symbol, NEW t \in Symbol,
         Region(r)[1] <= value, value <= Region(r)[2],
         Region(t)[1] <= value, value <= Region(t)[2]
  PROVE  r = t
<1>1. ~(r < t)
  <2>1. SUFFICES ASSUME r < t PROVE FALSE  OBVIOUS
  <2>2. Region(t)[2] < Region(r)[1] /\ Region(t)[2] \in Int /\ Region(r)[1] \in Nat
    BY <2>1, PartsInOrder
  <2>3. QED BY <2>2
<1>2. ~(t < r)
  <2>1. SUFFICES ASSUME t < r PROVE FALSE  OBVIOUS
  <2>2. Region(r)[2] < Region(t)[1] /\ Region(r)[2] \in Int /\ Region(t)[1] \in Nat
    BY <2>1, PartsInOrder
  <2>3. QED BY <2>2
<1>3. QED BY <1>1, <1>2, IndexFacts

-----------------------------------------------------------------------------
(* The garbage that was asked for is past the end.                         *)
FewGarbage ==
  garbage_bits \in Nat
    /\ garbage_bits <= IF input < Len(archive) THEN 0 ELSE input - Len(archive)

(* A bit on the trail is never refused. *)
LEMMA NotRefused ==
  ASSUME FewGarbage, input \in Nat, archive \in Seq({0, 1}),
         NEW T, NEW n, NEW P, Archived(T, n, P), input < Code_value_bits + T[n].shifts
  PROVE  ~TooMuchGarbage
<1>1. n \in 1 .. n /\ T[n].shifts \in Nat  BY DEF Archived, Trail, Typed
<1>2. input <= Code_value_bits + Len(archive) - 4
  <2>1. T[n].shifts + 3 <= Len(archive)  BY DEF Archived
  <2>2. Len(archive) \in Nat  OBVIOUS
  <2>3. PICK a \in Nat, b \in Nat, c \in Nat :
           a = T[n].shifts /\ b = Len(archive) /\ c = Code_value_bits
    BY <1>1, <2>2, CodeFacts
  <2>4. input < c + a /\ a + 3 <= b /\ input \in Nat  BY <2>1, <2>3
  <2>5. input <= c + b - 4  BY <2>3, <2>4
  <2>6. QED BY <2>3, <2>5
<1>3. AtEnd => garbage_bits <= Code_value_bits - 4
  BY <1>2, CodeFacts DEF AtEnd, FewGarbage
<1>4. QED BY <1>3, CodeFacts DEF TooMuchGarbage, FewGarbage

LEMMA GarbageCounted ==
  ASSUME FewGarbage, input \in Nat, archive \in Seq({0, 1}), archive' = archive, CountInput
  PROVE  FewGarbage'
<1>1. Len(archive) \in Nat  OBVIOUS
<1>2. input' = input + 1
      /\ garbage_bits' = (IF Refill /\ AtEnd THEN garbage_bits + 1 ELSE garbage_bits)
  BY DEF CountInput
<1>3. QED BY <1>1, <1>2 DEF FewGarbage, AtEnd

LEMMA ArchivedStays ==
  ASSUME NEW T, NEW n, NEW P, Archived(T, n, P), archive' = archive, sent' = sent
  PROVE  Archived(T, n, P)'
BY DEF Archived, Trail, Due, ReadBit

(* The bit that is read next is the next one of the trail. *)
LEMMA ReadNext ==
  ASSUME NEW T, NEW n, NEW P, Archived(T, n, P), input \in Nat,
         input < Code_value_bits + T[n].shifts
  PROVE  /\ P[input] \in Nat /\ P[input + 1] = 2 * P[input] + input_bit
         /\ BitOf(P, input + 1) = input_bit
<1> DEFINE M == Code_value_bits + T[n].shifts
<1>1. n \in 1 .. n /\ T[n].shifts \in Nat  BY DEF Archived, Trail, Typed
<1>2. M \in Nat /\ input < M /\ input + 1 \in 1 .. M  BY <1>1, CodeFacts
<1>3. PICK k \in Nat : k = input  OBVIOUS
<1>4. Stream(P, M)  BY DEF Archived
<1> HIDE DEF M
<1>5. P[k] \in Nat /\ P[k + 1] = 2 * P[k] + BitOf(P, k + 1)
  BY <1>2, <1>3, <1>4, StreamNext
<1>6. BitOf(P, input + 1) = ReadBit(input + 1)  BY <1>2 DEF Archived, M
<1>7. ReadBit(input + 1) = input_bit
  <2>1. input + 1 > Len(archive) <=> input >= Len(archive)
    <3>1. Len(archive) \in Int \/ Len(archive) \notin Int  OBVIOUS
    <3>2. QED BY <1>6
  <2>2. QED BY <2>1 DEF ReadBit, input_bit, AtEnd
<1>8. QED BY <1>3, <1>5, <1>6, <1>7

LEMMA StartTrail ==
  ASSUME CInv, Decoding, start_decoding
  PROVE  Decoding'
<1>1. PICK n, T, P : Archived(T, n, P) /\ Retraces(T, n, P)  BY DEF Decoding
<1>2. /\ phase = "start_decoding" /\ input < Code_value_bits /\ input' = input + 1
      /\ value' = 2 * value + input_bit
      /\ phase' = (IF input + 1 = Code_value_bits THEN "decode" ELSE phase)
      /\ UNCHANGED <<low, high, m, symbol, archive, sent, got>>
  BY DEF start_decoding, CountInput
<1>3. m = start_model /\ value = P[input] /\ got = <<>>  BY <1>1, <1>2 DEF Retraces
<1>4. /\ input \in Nat /\ archive \in Seq({0, 1}) /\ low = 0 /\ high = Top_value
  BY <1>2 DEF CInv, IType, ValueInside
<1>5. n \in 1 .. n /\ 1 \in 1 .. n /\ T[n].shifts \in Nat /\ Start(T[1])
  BY <1>1 DEF Archived, Trail, Typed
<1>6. value' = P[input']
  <2>1. input < Code_value_bits + T[n].shifts  BY <1>2, <1>4, <1>5, CodeFacts
  <2>2. QED BY <1>1, <1>2, <1>3, <1>4, <2>1, ReadNext
<1>7. Archived(T, n, P)'  BY <1>1, <1>2, ArchivedStays
<1>8. Retraces(T, n, P)'
  <2>1. CASE input + 1 = Code_value_bits
    <3>1. phase' = "decode" /\ input' = Code_value_bits  BY <1>2, <2>1
    <3>2. /\ ~T[1].loop /\ T[1].low = 0 /\ T[1].high = Top_value /\ T[1].m = start_model
          /\ T[1].shifts = 0 /\ T[1].code = 0 /\ T[1].count = 0
          /\ T[1].loop \in BOOLEAN
      BY <1>1, <1>5 DEF Start, Archived, Trail, Typed
    <3>3. input' = Code_value_bits + T[1].shifts  BY <3>1, <3>2, CodeFacts
    <3>4. value' = ValueAt(P, T[1])
      <4>1. Half * T[1].code = 0  BY <3>2, CodeFacts
      <4>2. P[Code_value_bits] \in Nat
        <5>1. Code_value_bits \in 0 .. Code_value_bits + T[n].shifts  BY <1>5, CodeFacts
        <5>2. QED BY <1>1, <5>1 DEF Archived, Stream
      <4>3. Code_value_bits + T[1].shifts = Code_value_bits  BY <3>2, CodeFacts
      <4>4. QED BY <1>6, <3>1, <4>1, <4>2, <4>3 DEF ValueAt
    <3>5. Stands(T[1])'  BY <1>2, <1>3, <1>4, <3>2 DEF Stands
    <3>6. Len(got') = T[1].count  BY <1>2, <1>3, <3>2
    <3>7. StandsWith(T[1], P)'  BY <3>1, <3>2, <3>3, <3>4, <3>5, <3>6 DEF StandsWith
    <3>8. QED BY <1>5, <3>1, <3>7 DEF Retraces
  <2>2. CASE input + 1 # Code_value_bits
    BY <1>2, <1>3, <1>6, <2>2 DEF Retraces
  <2>3. QED BY <2>1, <2>2
<1>9. QED BY <1>7, <1>8 DEF Decoding

(* The step of the trail after the state that the decoder is at. *)
LEMMA NextOnTrail ==
  ASSUME NEW T, NEW n, NEW P, Archived(T, n, P), NEW k \in 1 .. n, k # n
  PROVE  /\ k + 1 \in 1 .. n /\ Follows(T[k], T[k + 1])
         /\ Typed(T[k]) /\ Typed(T[k + 1]) /\ Due(T[k])
         /\ Inside(P, T[k]) /\ Inside(P, T[k + 1])
         /\ T[k + 1].shifts <= T[n].shifts /\ T[n].shifts \in Nat
<1>1. n \in Nat /\ n \in 1 .. n  BY DEF Archived, Trail
<1>2. k + 1 \in 1 .. n /\ k \in 1 .. n - 1  BY <1>1
<1>3. QED BY <1>1, <1>2 DEF Archived, Trail, Typed

LEMMA DecodeSymbolTrail ==
  ASSUME CInv, Decoding, DecodeSymbol
  PROVE  Decoding'
<1>1. PICK n, T, P : Archived(T, n, P) /\ Retraces(T, n, P)  BY DEF Decoding
<1>2. /\ phase = "decode" /\ phase' = "decode_loop" /\ Narrow(symbol')
      /\ symbol' = CHOOSE s \in Symbol : /\ m.cum_freq[s] <= CumOfValue
                                         /\ \A r \in 1 .. s - 1 : m.cum_freq[r] > CumOfValue
      /\ UNCHANGED <<value, m, archive, input, sent, got>>
  BY DEF DecodeSymbol
<1>3. PICK k \in 1 .. n : StandsWith(T[k], P)  BY <1>1, <1>2 DEF Retraces
<1> DEFINE s == T[k]
           t == T[k + 1]
<1>4. /\ ~s.loop /\ s.low = low /\ s.high = high /\ s.m = m
      /\ input = Code_value_bits + s.shifts /\ value = ValueAt(P, s) /\ Len(got) = s.count
  BY <1>2, <1>3 DEF StandsWith, Stands
<1>5. k # n  BY <1>1, <1>4 DEF Archived
<1>6. k + 1 \in 1 .. n /\ Follows(s, t) /\ Typed(t) /\ Inside(P, t)
  BY <1>1, <1>5, NextOnTrail
<1>7. CodesSymbol(s, t)  BY <1>4, <1>6 DEF Follows, ShiftsBit, AdaptsModel
<1>8. /\ t.loop = TRUE /\ t.symbol \in Symbol /\ t.m = m /\ t.shifts = s.shifts
      /\ t.code = s.code /\ t.count = s.count
      /\ t.low = Region(t.symbol)[1] /\ t.high = Region(t.symbol)[2]
  <2>1. Part(s, t.symbol) = Region(t.symbol)  BY <1>4 DEF Region, Part
  <2>2. t.loop = TRUE  BY <1>6, <1>7 DEF CodesSymbol, Typed
  <2>3. QED BY <1>4, <1>7, <2>1, <2>2 DEF CodesSymbol
<1>9. ValueAt(P, t) = value  BY <1>4, <1>8 DEF ValueAt
<1>10. Region(t.symbol)[1] <= value /\ value <= Region(t.symbol)[2]
  BY <1>6, <1>8, <1>9 DEF Inside
<1>11. /\ m \in Model /\ Consistent(m) /\ low \in Nat /\ high \in Nat /\ low <= high
       /\ value \in Nat /\ low <= value /\ value <= high /\ high - low + 1 > First_qtr
  BY <1>2, CodeFacts DEF CInv, IType, Wide, ValueInside
<1>12. symbol' = t.symbol
  <2>1. /\ symbol' \in Symbol
        /\ m.cum_freq[symbol'] <= CumOfValue
        /\ \A r \in 1 .. symbol' - 1 : m.cum_freq[r] > CumOfValue
    <3>1. \E r \in Symbol : /\ m.cum_freq[r] <= CumOfValue
                            /\ \A i \in 1 .. r - 1 : m.cum_freq[i] > CumOfValue
      BY <1>11, SymbolOfValue
    <3>2. QED BY <1>2, <3>1
  <2>2. Region(symbol')[1] <= value /\ value <= Region(symbol')[2]
    BY <1>11, <2>1, SymbolOfValue
  <2>3. PICK r \in Symbol : r = symbol'  BY <2>1
  <2>4. PICK u \in Symbol : u = t.symbol  BY <1>8
  <2>5. r = u  BY <1>10, <1>11, <2>2, <2>3, <2>4, OnePart
  <2>6. QED BY <2>3, <2>4, <2>5
<1>13. StandsWith(t, P)'
  <2>1. low' = t.low /\ high' = t.high  BY <1>2, <1>8, <1>12 DEF Narrow
  <2>2. QED BY <1>2, <1>4, <1>8, <1>9, <1>12, <2>1 DEF StandsWith, Stands, ValueAt
<1>14. Archived(T, n, P)'  BY <1>1, <1>2, ArchivedStays
<1>15. Retraces(T, n, P)'  BY <1>2, <1>6, <1>13 DEF Retraces
<1>16. QED BY <1>14, <1>15 DEF Decoding

LEMMA DecodeBitsTrail ==
  ASSUME CInv, Decoding, DecodeBits
  PROVE  Decoding'
<1>1. PICK n, T, P : Archived(T, n, P) /\ Retraces(T, n, P)  BY DEF Decoding
<1>2. /\ phase = "decode_loop" /\ phase' = "decode_loop" /\ ~Settled
      /\ input' = input + 1
      /\ low' = 2 * (low - Offset) /\ high' = 2 * (high - Offset) + 1
      /\ value' = 2 * (value - Offset) + input_bit
      /\ UNCHANGED <<m, symbol, archive, sent, got>>
  BY DEF DecodeBits, CountInput, Expand
<1>3. PICK k \in 1 .. n : StandsWith(T[k], P)  BY <1>1, <1>2 DEF Retraces
<1> DEFINE s == T[k]
           t == T[k + 1]
<1>4. /\ s.loop = TRUE /\ s.symbol = symbol /\ s.low = low /\ s.high = high /\ s.m = m
      /\ input = Code_value_bits + s.shifts /\ value = ValueAt(P, s) /\ Len(got) = s.count
  BY <1>2, <1>3 DEF StandsWith, Stands
<1>5. ~Settles(s)  BY <1>2, <1>4 DEF Settles, Settled, LowHalf, HighHalf, Middle
<1>6. k # n  BY <1>1, <1>5 DEF Archived
<1>7. /\ k + 1 \in 1 .. n /\ Follows(s, t) /\ Typed(s) /\ Typed(t)
      /\ t.shifts <= T[n].shifts /\ T[n].shifts \in Nat
  BY <1>1, <1>6, NextOnTrail
<1>8. ShiftsBit(s, t)  BY <1>4, <1>5, <1>7 DEF Follows, CodesSymbol, AdaptsModel
<1>9. /\ t.loop = TRUE /\ t.symbol = symbol /\ t.m = m /\ t.shifts = s.shifts + 1
      /\ t.count = s.count
  BY <1>4, <1>7, <1>8 DEF ShiftsBit, Typed
<1>10. Code_value_bits + s.shifts < Code_value_bits + T[n].shifts
       /\ input \in Nat /\ input' = Code_value_bits + t.shifts
       /\ Code_value_bits + T[n].shifts \in Nat
  <2>1. PICK a \in Nat, b \in Nat, c \in Nat, d \in Nat :
           a = s.shifts /\ b = t.shifts /\ c = T[n].shifts /\ d = Code_value_bits
    BY <1>7, CodeFacts DEF Typed
  <2>2. b = a + 1 /\ b <= c /\ input = d + a /\ input' = input + 1
    BY <1>2, <1>4, <1>7, <1>9, <2>1
  <2>3. d + a < d + c /\ input \in Nat /\ input' = d + b /\ d + c \in Nat  BY <2>2
  <2>4. QED BY <2>1, <2>3
<1>11. Stream(P, Code_value_bits + T[n].shifts)  BY <1>1 DEF Archived
<1>12. PICK offset \in {0, First_qtr, Half} :
         /\ offset = (IF s.high < Half THEN 0 ELSE IF s.low >= Half THEN Half ELSE First_qtr)
         /\ t.low = 2 * (s.low - offset) /\ t.high = 2 * (s.high - offset) + 1
         /\ ValueAt(P, t) = 2 * (ValueAt(P, s) - offset)
                              + BitOf(P, Code_value_bits + s.shifts + 1)
  BY <1>7, <1>8, <1>10, <1>11, ValueShifts
<1>13. offset = Offset  BY <1>4, <1>12 DEF Offset, LowHalf, HighHalf
<1>14. BitOf(P, Code_value_bits + s.shifts + 1) = input_bit
  BY <1>1, <1>4, <1>10, ReadNext
<1>15. value' = ValueAt(P, t) /\ low' = t.low /\ high' = t.high
  BY <1>2, <1>4, <1>12, <1>13, <1>14
<1>16. StandsWith(t, P)'
  BY <1>2, <1>4, <1>9, <1>10, <1>15 DEF StandsWith, Stands, ValueAt
<1>17. Archived(T, n, P)'  BY <1>1, <1>2, ArchivedStays
<1>18. Retraces(T, n, P)'  BY <1>2, <1>7, <1>16 DEF Retraces
<1>19. QED BY <1>17, <1>18 DEF Decoding

(* What has been decompressed is the beginning of the input. *)
Begins == Len(got) <= Len(sent) /\ \A i \in 1 .. Len(got) : got[i] = sent[i]

LEMMA DecodeNextTrail ==
  ASSUME CInv, Decoding, sent \in Seq(Char), got \in Seq(Char), Begins, DecodeNext
  PROVE  Decoding' /\ Begins' /\ got' \in Seq(Char) /\ (phase' = "done" => got' = sent')
<1>1. PICK n, T, P : Archived(T, n, P) /\ Retraces(T, n, P)  BY DEF Decoding
<1>2. /\ phase = "decode_loop" /\ Settled
      /\ UNCHANGED <<low, high, value, symbol, archive, input, sent>>
  BY DEF DecodeNext
<1>3. PICK k \in 1 .. n : StandsWith(T[k], P)  BY <1>1, <1>2 DEF Retraces
<1> DEFINE s == T[k]
           t == T[k + 1]
<1>4. /\ s.loop = TRUE /\ s.symbol = symbol /\ s.low = low /\ s.high = high /\ s.m = m
      /\ input = Code_value_bits + s.shifts /\ value = ValueAt(P, s) /\ Len(got) = s.count
  BY <1>2, <1>3 DEF StandsWith, Stands
<1>5. Settles(s)  BY <1>2, <1>4 DEF Settles, Settled, LowHalf, HighHalf, Middle
<1>6. Typed(s) /\ Due(s)  BY <1>1 DEF Archived, Trail
<1>7. Archived(T, n, P)'  BY <1>1, <1>2, ArchivedStays
<1>8. CASE symbol = EOF_symbol
  <2>1. phase' = "done" /\ got' = got /\ sent' = sent  BY <1>2, <1>8 DEF DecodeNext
  <2>2. Len(got) = Len(sent)  BY <1>4, <1>6, <1>8 DEF Due
  <2>3. got = sent
    <3>1. \A i \in 1 .. Len(got) : got[i] = sent[i]  BY DEF Begins
    <3>2. QED BY <2>2, <3>1
  <2>4. Retraces(T, n, P)'  BY <2>1 DEF Retraces
  <2>5. QED BY <1>7, <2>1, <2>3, <2>4 DEF Decoding, Begins
<1>9. CASE symbol # EOF_symbol
  <2>1. /\ phase' = "decode" /\ m' = update_model(m, symbol)
        /\ got' = Append(got, m.index_to_char[symbol])
    BY <1>9 DEF DecodeNext
  <2>2. k # n  BY <1>1, <1>4, <1>9 DEF Archived
  <2>3. k + 1 \in 1 .. n /\ Follows(s, t) /\ Typed(t)  BY <1>1, <2>2, NextOnTrail
  <2>4. AdaptsModel(s, t)
    BY <1>4, <1>5, <2>3 DEF Follows, CodesSymbol, ShiftsBit
  <2>5. /\ t.loop = FALSE /\ t.m = m' /\ t.count = s.count + 1
        /\ t.low = s.low /\ t.high = s.high /\ t.shifts = s.shifts /\ t.code = s.code
    BY <1>4, <2>1, <2>3, <2>4 DEF AdaptsModel, Typed
  <2>6. ValueAt(P, t) = value  BY <1>4, <2>5 DEF ValueAt
  <2>7. Len(got) < Len(sent) /\ symbol = m.char_to_index[sent[Len(got) + 1]]
    BY <1>4, <1>6, <1>9 DEF Due
  <2>8. Len(got) \in Nat /\ Len(sent) \in Nat /\ Len(got) + 1 \in 1 .. Len(sent)
    BY <2>7
  <2>9. sent[Len(got) + 1] \in Char  BY <2>8
  <2>10. m.index_to_char[symbol] = sent[Len(got) + 1]
    <3>1. Consistent(m)  BY DEF CInv
    <3>2. QED BY <2>7, <2>9, <3>1 DEF Consistent
  <2>11. PICK ch \in Char : ch = sent[Len(got) + 1]  BY <2>9
  <2>12. got' = Append(got, ch)  BY <2>1, <2>10, <2>11
  <2>13. got' \in Seq(Char) /\ Len(got') = Len(got) + 1 /\ got'[Len(got) + 1] = ch
         /\ \A i \in 1 .. Len(got) : got'[i] = got[i]
    BY <2>12
  <2>14. Begins'
    <3>1. ASSUME NEW i \in 1 .. Len(got') PROVE got'[i] = sent[i]
      <4>1. CASE i = Len(got) + 1  BY <2>11, <2>13, <4>1
      <4>2. CASE i # Len(got) + 1
        <5>1. i \in 1 .. Len(got)  BY <2>8, <2>13, <4>2
        <5>2. got[i] = sent[i]  BY <5>1 DEF Begins
        <5>3. QED BY <2>13, <5>1, <5>2
      <4>3. QED BY <4>1, <4>2
    <3>2. Len(got') <= Len(sent)  BY <2>7, <2>8, <2>13
    <3>3. sent' = sent  BY <1>2
    <3>4. QED BY <3>1, <3>2, <3>3 DEF Begins
  <2>15. StandsWith(t, P)'
    <3>1. Len(got') = t.count  BY <1>4, <2>5, <2>13
    <3>2. QED BY <1>2, <1>4, <2>1, <2>5, <2>6, <3>1 DEF StandsWith, Stands, ValueAt
  <2>16. Retraces(T, n, P)'  BY <2>1, <2>3, <2>15 DEF Retraces
  <2>17. QED BY <1>7, <2>1, <2>13, <2>14, <2>16 DEF Decoding
<1>10. QED BY <1>8, <1>9

(* The encoder is on its trail; a decoder of the whole archive is on the   *)
(* same one, has decompressed the beginning of the input, and all of it    *)
(* when it is done.                                                        *)
LInv ==
  /\ sent \in Seq(Char) /\ got \in Seq(Char)
  /\ Encoding => got = <<>> /\ lost = 0 /\ Coding
  /\ ~Encoding /\ lost = 0 => phase # "bad" /\ Decoding /\ FewGarbage /\ Begins
  /\ lost = 0 /\ phase = "done" => got = sent

LEMMA InitLInv == Init => LInv
<1> SUFFICES ASSUME Init PROVE LInv  OBVIOUS
<1>1. /\ phase = "encode" /\ low = 0 /\ high = Top_value /\ bits_to_follow = 0
      /\ m = start_model /\ symbol = 0 /\ archive = <<>> /\ lost = 0
      /\ sent = <<>> /\ got = <<>>
  BY DEF Init
<1>2. PICK s : s = [loop |-> FALSE, low |-> 0, high |-> Top_value, m |-> start_model,
                    shifts |-> 0, code |-> 0, count |-> 0]
  OBVIOUS
<1>3. /\ s.loop = FALSE /\ s.low = 0 /\ s.high = Top_value /\ s.m = start_model
      /\ s.shifts = 0 /\ s.code = 0 /\ s.count = 0
  BY <1>2
<1>4. PICK T : T = [k \in 1 .. 1 |-> s]  OBVIOUS
<1>5. T[1] = s /\ \A k \in 1 .. 1 : T[k] = s  BY <1>4
<1>6. Trail(T, 1)
  <2>a. ~s.loop /\ s.loop \in BOOLEAN  BY <1>3
  <2>b. s.low \in Nat /\ s.high \in Nat /\ s.shifts \in Nat /\ s.code \in Nat /\ s.count \in Nat
    BY <1>3, CodeFacts
  <2>1. Start(T[1]) /\ Typed(s) /\ Due(s)  BY <1>3, <1>5, <2>a, <2>b DEF Start, Typed, Due
  <2>2. 1 .. 1 - 1 = {}  OBVIOUS
  <2>3. T[1].shifts <= T[1].shifts  BY <1>3, <1>5
  <2>4. QED BY <1>5, <2>1, <2>2, <2>3 DEF Trail
<1>7. Written(0)
  <2>1. Len(archive) = 0 /\ Len(archive) + 1 + bits_to_follow = 1  BY <1>1
  <2>2. ASSUME NEW M \in Nat, NEW b \in {0, 1}, NEW P, Stream(P, M), 1 <= M,
               Finds(P, archive, b, bits_to_follow)
        PROVE  P[1] = 0 + b
    <3>1. BitOf(P, 0 + 1) = b  BY <2>1, <2>2 DEF Finds
    <3>2. P[0 + 1] = 2 * P[0] + BitOf(P, 0 + 1)
      <4>1. 0 < M  BY <2>2
      <4>2. QED BY <2>2, <4>1, StreamNext
    <3>3. P[0] = 0  BY <2>2 DEF Stream
    <3>4. QED BY <3>1, <3>2, <3>3
  <2>3. QED BY <2>1, <2>2 DEF Written
<1>8. Coded(T, 1)
  <2>1. Len(sent) = 0 /\ Len(archive) + bits_to_follow = 0  BY <1>1
  <2>2. QED BY <1>1, <1>3, <1>5, <1>6, <1>7, <2>1 DEF Coded, Stands
<1>9. sent \in Seq(Char) /\ got \in Seq(Char)  BY <1>1
<1>10. QED BY <1>1, <1>8, <1>9 DEF LInv, Encoding, Coding

(* While the decoder reads, a bit is left on the trail. *)
LEMMA ReadingOnTrail ==
  ASSUME CInv, Decoding,
         (phase = "start_decoding" /\ input < Code_value_bits)
           \/ (phase = "decode_loop" /\ ~Settled)
  PROVE  \E n, T, P : Archived(T, n, P) /\ input < Code_value_bits + T[n].shifts
<1>1. PICK n, T, P : Archived(T, n, P) /\ Retraces(T, n, P)  BY DEF Decoding
<1>2. T[n].shifts \in Nat /\ n \in 1 .. n  BY <1>1 DEF Archived, Trail, Typed
<1>3. CASE phase = "start_decoding" /\ input < Code_value_bits
  <2>1. input < Code_value_bits + T[n].shifts
    <3>1. input \in Nat  BY DEF CInv, IType
    <3>2. QED BY <1>2, <1>3, <3>1, CodeFacts
  <2>2. QED BY <1>1, <2>1
<1>4. CASE phase = "decode_loop" /\ ~Settled
  <2>1. PICK k \in 1 .. n : StandsWith(T[k], P)  BY <1>1, <1>4 DEF Retraces
  <2> DEFINE s == T[k]
             t == T[k + 1]
  <2>2. /\ s.loop = TRUE /\ s.low = low /\ s.high = high
        /\ input = Code_value_bits + s.shifts
    BY <1>4, <2>1 DEF StandsWith, Stands
  <2>3. ~Settles(s)  BY <1>4, <2>2 DEF Settles, Settled, LowHalf, HighHalf, Middle
  <2>4. k # n  BY <1>1, <2>3 DEF Archived
  <2>5. /\ Follows(s, t) /\ Typed(s) /\ Typed(t) /\ t.shifts <= T[n].shifts
    BY <1>1, <2>4, NextOnTrail
  <2>6. t.shifts = s.shifts + 1
    BY <2>2, <2>3, <2>5 DEF Follows, CodesSymbol, AdaptsModel, ShiftsBit
  <2>7. PICK a \in Nat, b \in Nat, c \in Nat, d \in Nat :
           a = s.shifts /\ b = t.shifts /\ c = T[n].shifts /\ d = Code_value_bits
    BY <1>2, <2>5, CodeFacts DEF Typed
  <2>8. d + a < d + c  BY <2>5, <2>6, <2>7
  <2>9. QED BY <1>1, <2>2, <2>7, <2>8
<1>5. QED BY <1>3, <1>4

LEMMA NextLInv == CInv /\ LInv /\ [Next]_vars => LInv'
<1> SUFFICES ASSUME CInv, LInv, [Next]_vars PROVE LInv'  OBVIOUS
<1>0. /\ sent \in Seq(Char) /\ got \in Seq(Char)
      /\ input \in Nat /\ archive \in Seq({0, 1})
  BY DEF LInv, CInv, IType
<1>1. ASSUME EncodeEOF \/ (\E ch \in Char : EncodeChar(ch)) \/ EncodeBits \/ EncodeNext
      PROVE  LInv'
  <2>1. Encoding /\ Encoding' /\ got' = got /\ lost' = lost /\ sent' \in Seq(Char)
    BY <1>0, <1>1 DEF EncodeEOF, EncodeChar, EncodeBits, EncodeNext, Encoding
  <2>2. got = <<>> /\ lost = 0 /\ Coding  BY <2>1 DEF LInv
  <2>3. Coding'
    BY <1>0, <1>1, <2>2, EncodeTrail, EncodeBitsTrail, EncodeNextTrail
  <2>4. phase' # "done"  BY <2>1 DEF Encoding
  <2>5. QED BY <1>0, <2>1, <2>2, <2>3, <2>4 DEF LInv
<1>2. CASE EncodeDone
  <2>1. /\ Encoding /\ phase' = "start_decoding" /\ got' = got /\ sent' = sent
    BY <1>2 DEF EncodeDone, Encoding
  <2>2. got = <<>> /\ Coding  BY <2>1 DEF LInv
  <2>3. ASSUME lost' = 0 PROVE Decoding' /\ FewGarbage' /\ Begins'
    <3>1. Decoding' /\ garbage_bits' = 0 /\ input' = 0
      BY <1>0, <1>2, <2>2, <2>3, EncodeDoneTrail
    <3>2. archive' \in Seq({0, 1})
      <4>1. CInv'  BY NextCInv
      <4>2. QED BY <4>1 DEF CInv, IType
    <3>3. FewGarbage'
      <4>1. Len(archive') \in Nat  BY <3>2
      <4>2. QED BY <3>1, <4>1 DEF FewGarbage
    <3>4. Begins'  BY <1>0, <2>1, <2>2 DEF Begins
    <3>5. QED BY <3>1, <3>3, <3>4
  <2>4. QED BY <1>0, <2>1, <2>3 DEF LInv, Encoding
<1>3. ASSUME start_decoding \/ DecodeSymbol \/ DecodeBits \/ DecodeNext
      PROVE  LInv'
  <2>1. ~Encoding /\ ~Encoding' /\ sent' = sent /\ lost' = lost /\ archive' = archive
        /\ phase' # "bad"
    BY <1>3 DEF start_decoding, DecodeSymbol, DecodeBits, DecodeNext, Encoding
  <2>2. got' \in Seq(Char)
    <3>1. CASE start_decoding \/ DecodeSymbol \/ DecodeBits
      BY <1>0, <3>1 DEF start_decoding, DecodeSymbol, DecodeBits
    <3>2. CASE DecodeNext
      <4>1. CASE symbol = EOF_symbol  BY <1>0, <3>2, <4>1 DEF DecodeNext
      <4>2. CASE symbol # EOF_symbol
        <5>1. m.index_to_char[symbol] \in Char /\ got' = Append(got, m.index_to_char[symbol])
          <6>1. symbol \in 1 .. No_of_chars
            BY <3>2, <4>2, CharIndex DEF CInv, IType, DecodeNext
          <6>2. QED BY <3>2, <4>2, <6>1, ModelFields DEF CInv, DecodeNext
        <5>2. QED BY <1>0, <5>1
      <4>3. QED BY <4>1, <4>2
    <3>3. QED BY <1>3, <3>1, <3>2
  <2>3. ASSUME lost = 0
        PROVE  Decoding' /\ FewGarbage' /\ Begins' /\ (phase' = "done" => got' = sent')
    <3>1. Decoding /\ FewGarbage /\ Begins  BY <2>1, <2>3 DEF LInv
    <3>2. FewGarbage'
      <4>1. CASE start_decoding \/ DecodeBits
        <5>1. CountInput  BY <4>1 DEF start_decoding, DecodeBits
        <5>2. QED BY <1>0, <2>1, <3>1, <5>1, GarbageCounted
      <4>2. CASE DecodeSymbol \/ DecodeNext
        <5>1. UNCHANGED <<garbage_bits, input, archive>>
          BY <4>2 DEF DecodeSymbol, DecodeNext
        <5>2. QED BY <3>1, <5>1 DEF FewGarbage
      <4>3. QED BY <1>3, <4>1, <4>2
    <3>3. CASE DecodeNext  BY <1>0, <3>1, <3>2, <3>3, DecodeNextTrail
    <3>4. CASE start_decoding \/ DecodeSymbol \/ DecodeBits
      <4>1. Decoding'  BY <3>1, <3>4, StartTrail, DecodeSymbolTrail, DecodeBitsTrail
      <4>2. phase' # "done" /\ got' = got
        BY <3>4 DEF start_decoding, DecodeSymbol, DecodeBits
      <4>3. Begins'  BY <2>1, <3>1, <4>2 DEF Begins
      <4>4. QED BY <3>2, <4>1, <4>2, <4>3
    <3>5. QED BY <1>3, <3>3, <3>4
  <2>4. QED BY <1>0, <2>1, <2>2, <2>3 DEF LInv
<1>4. CASE BadInput
  <2>1. ~Encoding /\ ~Encoding' /\ phase' = "bad"
        /\ UNCHANGED <<sent, got, lost>>
    BY <1>4 DEF BadInput, Encoding
  <2>2. lost # 0
    <3>1. SUFFICES ASSUME lost = 0 PROVE FALSE  OBVIOUS
    <3>2. Decoding /\ FewGarbage  BY <2>1, <3>1 DEF LInv
    <3>3. TooMuchGarbage
          /\ ((phase = "start_decoding" /\ input < Code_value_bits)
                \/ (phase = "decode_loop" /\ ~Settled))
      BY <1>4 DEF BadInput, CInv, ValueInside
    <3>4. PICK n, T, P : Archived(T, n, P) /\ input < Code_value_bits + T[n].shifts
      BY <3>2, <3>3, ReadingOnTrail
    <3>5. ~TooMuchGarbage  BY <1>0, <3>2, <3>4, NotRefused
    <3>6. QED BY <3>3, <3>5
  <2>3. QED BY <1>0, <2>1, <2>2 DEF LInv
<1>5. CASE UNCHANGED vars
  <2>1. UNCHANGED <<phase, low, high, bits_to_follow, value, m, symbol, archive, input,
                    garbage_bits, lost, sent, got>>
    BY <1>5 DEF vars
  <2>2. ASSUME Coding PROVE Coding'
    <3>1. PICK n, T : Coded(T, n)  BY <2>2 DEF Coding
    <3>2. Trail(T, n)'  BY <2>1, <3>1 DEF Coded, Trail, Due
    <3>3. Stands(T[n])'  BY <2>1, <3>1 DEF Coded, Stands
    <3>4. Written(T[n].code)'  BY <2>1, <3>1 DEF Coded, Written
    <3>5. Coded(T, n)'  BY <2>1, <3>1, <3>2, <3>3, <3>4 DEF Coded
    <3>6. QED BY <3>5 DEF Coding
  <2>3. ASSUME Decoding PROVE Decoding'
    <3>1. PICK n, T, P : Archived(T, n, P) /\ Retraces(T, n, P)  BY <2>3 DEF Decoding
    <3>2. Archived(T, n, P)'  BY <2>1, <3>1, ArchivedStays
    <3>3. ASSUME NEW k \in 1 .. n, StandsWith(T[k], P) PROVE StandsWith(T[k], P)'
      BY <2>1, <3>3 DEF StandsWith, Stands, ValueAt
    <3>4. Retraces(T, n, P)'  BY <2>1, <3>1, <3>3 DEF Retraces
    <3>5. QED BY <3>2, <3>4 DEF Decoding
  <2>4. QED BY <2>1, <2>2, <2>3 DEF LInv, Encoding, FewGarbage, Begins
<1>6. QED BY <1>1, <1>2, <1>3, <1>4, <1>5 DEF Next

(* What the encoder writes for any input, the decoder turns back into that *)
(* input and never refuses, although it reads on past the end.             *)
THEOREM AlwaysLossless == Spec => []Lossless
<1>1. CInv /\ LInv => Lossless
  <2> SUFFICES ASSUME CInv, LInv, lost = 0
               PROVE  /\ phase # "bad"
                      /\ \A i \in 1 .. Len(got) : got[i] = sent[i]
                      /\ phase = "done" => got = sent
    BY DEF Lossless
  <2>1. CASE Encoding
    <3>1. got = <<>> /\ phase # "bad" /\ phase # "done"  BY <2>1 DEF LInv, Encoding
    <3>2. Len(got) = 0  BY <3>1
    <3>3. QED BY <3>1, <3>2
  <2>2. CASE ~Encoding  BY <2>2 DEF LInv, Begins
  <2>3. QED BY <2>1, <2>2
<1>2. Spec => []LInv
  <2>1. Spec => []CInv  BY CoderInvariant
  <2>2. QED BY <2>1, InitLInv, NextLInv, PTL DEF Spec
<1>3. QED BY <1>1, <1>2, CoderInvariant, PTL
=============================================================================
