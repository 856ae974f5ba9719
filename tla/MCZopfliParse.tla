--------------------------- MODULE MCZopfliParse ---------------------------
(* Texts of eleven bytes and matches of at most six, where a match gives   *)
(* way to a longer one, and repetitions long enough for the shortcut.      *)
(* Costs under which a match is cheaper than its literals, dearer, and     *)
(* cheaper the farther it goes back.                                       *)
EXTENDS ZopfliParse

MCTexts ==
  {<<0>> \o t : t \in [1 .. 10 -> {0, 1}]}
    \cup {[k \in 1 .. 25 |-> 0], [k \in 1 .. 25 |-> IF k = 1 THEN 1 ELSE 0]}
Costs(lit, len, dist) ==
  [lit |-> [c \in {0, 1} |-> lit + c], len |-> [l \in 3 .. 6 |-> IF l = 3 THEN len + 1 ELSE len],
   dist |-> [d \in 1 .. 25 |-> IF d < 4 THEN dist ELSE dist + 2]]
Farther == [Costs(4, 2, 3) EXCEPT !.dist = [d \in 1 .. 25 |-> IF d < 4 THEN 3 ELSE 1]]
MCCostModels == {Costs(4, 2, 1), Costs(2, 6, 1), Farther}
=============================================================================
