---------------------------- MODULE MCLzmaStream ----------------------------
(* A ring of three bytes under texts of up to six: copies wrap around it,  *)
(* and a match of three can be split over three calls.                     *)
EXTENDS LzmaStream
=============================================================================
