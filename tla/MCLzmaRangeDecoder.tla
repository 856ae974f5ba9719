------------------------- MODULE MCLzmaRangeDecoder -------------------------
(* Three-bit bytes: an eight-bit word, kTopValue = 2^5 and probabilities   *)
(* out of 16 that move by a quarter, so that they take every value of      *)
(* 3..13.  MaxInput = 7 covers inputs shorter than the five bytes of       *)
(* RangeDecoderInit, exactly five, and inputs that run out later.          *)
EXTENDS LzmaRangeDecoder
=============================================================================
