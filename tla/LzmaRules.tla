----------------------------- MODULE LzmaRules -----------------------------
(***************************************************************************)
(* The rules of an LZMA text that the two builds of LzmaDecode share: what *)
(* a copy produces, and how a symbol moves the state and the distances.    *)
(***************************************************************************)
EXTENDS Integers, Sequences

(* The text continued by n bytes, each the byte `dist' before it. *)
Extend(t, dist, n) ==
  [i \in 1 .. Len(t) + n |->
     IF i <= Len(t) THEN t[i]
                    ELSE t[Len(t) - dist + 1 + ((i - Len(t) - 1) % dist)]]

Back(t, dist) == t[Len(t) - dist + 1]
PreviousByte(t) == IF t = <<>> THEN 0 ELSE Back(t, 1)

(* The next state after a literal, a match, a repeated match and a short   *)
(* repeated match.                                                         *)
AfterLiteral(s) == IF s < 4 THEN 0 ELSE IF s < 10 THEN s - 3 ELSE s - 6
AfterMatch(s) == IF s < 7 THEN 7 ELSE 10
AfterRep(s) == IF s < 7 THEN 8 ELSE 11
AfterShortRep(s) == IF s < 7 THEN 9 ELSE 11

(* A repeated match moves its distance to the front. *)
Front(r, k) == [i \in 1 .. 4 |-> IF i = 1 THEN r[k]
                                 ELSE IF i <= k THEN r[i - 1] ELSE r[i]]
=============================================================================
