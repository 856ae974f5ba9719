------------------------------ MODULE MCUclSwd ------------------------------
(* A window of five and matches of at most four in a ring of nine bytes.   *)
(* A text of nine bytes has a search with two candidates of different      *)
(* length; those of thirteen come back to their first bytes after the ring *)
(* has wrapped around.  Two hashes for two bytes: most triples collide.    *)
EXTENDS UclSwd

MCTexts ==
  UNION {[1 .. len -> {0, 1}] : len \in {1, 2, 3, 7}}
    \cup {u \o <<1>> \o u : u \in [1 .. 4 -> {0, 1}]}
    \cup {u \o <<1>> \o u \o u : u \in {<<0, 0, 0, 0>>, <<0, 0, 0, 1>>, <<0, 1, 1, 0>>}}
MCHash(x, y, z) == (x + y + z) % 2
=============================================================================
