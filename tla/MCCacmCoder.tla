----------------------------- MODULE MCCacmCoder -----------------------------
(* Code values of five bits and two characters.  The total of the counts   *)
(* starts at three and reaches its maximum of seven, the largest that is   *)
(* below a quarter of the code values, after four characters: an input of  *)
(* eight is long enough to see the counts halved twice.                    *)
EXTENDS CacmCoder
=============================================================================
