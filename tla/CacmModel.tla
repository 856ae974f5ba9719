----------------------------- MODULE CacmModel -----------------------------
(***************************************************************************)
(* adaptive_model.c of src/arithmetic.coding/cacm-87.shar: the frequencies *)
(* that the encoder and the decoder adapt in step, kept sorted so that the *)
(* frequent symbols have the small indexes.  A model is a record:          *)
(*   freq, cum_freq                 by index 0 .. No_of_symbols            *)
(*   char_to_index, index_to_char   the translation tables                 *)
(***************************************************************************)
EXTENDS Integers

CONSTANTS
  No_of_chars,     \* characters are 0 .. No_of_chars - 1
  Max_frequency    \* the largest total of the frequencies

ASSUME ModelAssumption ==
  /\ No_of_chars \in Nat \ {0}
  /\ Max_frequency \in Nat /\ Max_frequency > No_of_chars + 1

Char == 0 .. No_of_chars - 1
EOF_symbol == No_of_chars + 1
No_of_symbols == No_of_chars + 1
Symbol == 1 .. No_of_symbols
Index == 0 .. No_of_symbols

start_model ==
  [freq          |-> [i \in Index |-> IF i = 0 THEN 0 ELSE 1],
   cum_freq      |-> [i \in Index |-> No_of_symbols - i],
   char_to_index |-> [c \in Char |-> c + 1],
   index_to_char |-> [i \in 1 .. No_of_chars |-> i - 1]]

(* The total of the frequencies above each index. *)
Totals(f) ==
  LET cum[i \in Index] == IF i = No_of_symbols THEN 0 ELSE cum[i + 1] + f[i + 1]
  IN  cum

(* At the maximum all counts are halved, and none becomes zero. *)
Halved(m) ==
  IF m.cum_freq[0] = Max_frequency
  THEN LET half == [i \in Index |-> (m.freq[i] + 1) \div 2]
       IN  [m EXCEPT !.freq = half, !.cum_freq = Totals(half)]
  ELSE m

(* The first index of those with the frequency of symbol s. *)
NewIndex(f, s) ==
  CHOOSE i \in 1 .. s : f[i - 1] # f[i] /\ \A j \in i .. s : f[j] = f[s]

(* The characters of the indexes i and s change places. *)
Swapped(m, i, s) ==
  IF i = s THEN m
  ELSE [m EXCEPT
    !.index_to_char = [@ EXCEPT ![i] = m.index_to_char[s], ![s] = m.index_to_char[i]],
    !.char_to_index = [@ EXCEPT ![m.index_to_char[i]] = s,
                                ![m.index_to_char[s]] = i]]

(* Mutated: the count goes up in place, without the move. *)
update_in_place(m, s) ==
  LET h == Halved(m)
  IN  [h EXCEPT !.freq[s] = @ + 1,
                !.cum_freq = [j \in Index |-> IF j < s THEN @[j] + 1 ELSE @[j]]]

update_model(m, s) ==
  LET h == Halved(m)
      i == NewIndex(h.freq, s)
  IN  [Swapped(h, i, s) EXCEPT
        !.freq[i] = @ + 1,
        !.cum_freq = [j \in Index |-> IF j < i THEN @[j] + 1 ELSE @[j]]]

-----------------------------------------------------------------------------
(* What the coder and update_model rely on: the totals are those of the    *)
(* frequencies, every symbol has a count, the counts are sorted with index *)
(* 0 apart, the total fits a quarter of the code values, and the           *)
(* translation tables are inverse to each other.                           *)
Consistent(m) ==
  /\ m.freq[0] = 0 /\ \A i \in Symbol : m.freq[i] >= 1
  /\ m.cum_freq = Totals(m.freq)
  /\ m.cum_freq[0] <= Max_frequency
  /\ \A i \in 2 .. No_of_symbols : m.freq[i - 1] >= m.freq[i]
  /\ \A c \in Char : m.index_to_char[m.char_to_index[c]] = c
  /\ \A i \in 1 .. No_of_chars : m.char_to_index[m.index_to_char[i]] = i
=============================================================================
