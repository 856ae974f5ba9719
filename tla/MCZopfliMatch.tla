--------------------------- MODULE MCZopfliMatch ---------------------------
(* A window of eight and matches of at most five.  The first texts have a  *)
(* search whose lengths three, four and five have three distances, one     *)
(* more than the cache keeps; in the next one a hash comes back after its  *)
(* slot was taken over.  The block begins at the text's first byte or ten  *)
(* bytes later, beyond the window.                                         *)
EXTENDS ZopfliMatch

MCTexts ==
  {<<0, 0, 0, 0, 0, 1, 0, 0, 0, 0, 0>> \o tail : tail \in {<<>>, <<0, 1>>, <<1, 0, 0, 0>>}}
    \cup {<<1, 0, 0, 0, 0, 0, 0, 0, 0, 0, 0, 1, 0>>}
    \cup {u \o v \o u \o u : u \in [1 .. 3 -> {0, 1}], v \in {<<>>, <<1, 1>>}}
MCHash(x, y, z) == (x + y + z) % 2
MCSameHash(h, n) == (h + n) % 4
=============================================================================
