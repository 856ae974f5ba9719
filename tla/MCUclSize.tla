----------------------------- MODULE MCUclSize -----------------------------
(* The numbers of the program, in two runs.  The first codes a text of     *)
(* 2^20 bytes without a match, and then matches of three bytes from about  *)
(* a million bytes back.  The second, within a block of the default size,  *)
(* has a long repetition of one byte, 2^17 bytes without a match, and then *)
(* matches of three bytes from about as far back.                          *)
EXTENDS UclSize

MCSeries == {[times |-> 30690, len |-> 3, off |-> 131000]}
=============================================================================
