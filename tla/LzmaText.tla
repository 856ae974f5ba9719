------------------------------ MODULE LzmaText ------------------------------
(***************************************************************************)
(* What a stream of LZMA symbols means: the text the one-shot LzmaDecode   *)
(* of src/LZMA/LzmaDecode.c (without _LZMA_OUT_READ) writes when its       *)
(* output buffer is large enough.  The text is its own dictionary, so a    *)
(* match is a copy of earlier text and there are no calls, no ring and no  *)
(* interrupted copies.  LzmaStream, the decoder called for one output      *)
(* buffer at a time, implements this specification.                        *)
(*                                                                         *)
(* The range decoder is abstracted to the symbol it delivers.  What the    *)
(* decoder feeds back into it, the context that selects the probabilities  *)
(* of the next symbol, is kept: `ctx' records it for the last symbol.      *)
(***************************************************************************)
EXTENDS LzmaRules

CONSTANTS
  Byte,       \* the bytes, 0 among them
  Distance,   \* the distances a stream can code
  Length      \* the lengths a match can have, kMatchMinLen or more

VARIABLES
  text,              \* outStream[0 .. nowPos - 1]
  reps,              \* <<rep0, rep1, rep2, rep3>>
  state,
  previousIsMatch,
  ExtraBytes,        \* rd.ExtraBytes: the input ran out
  ctx,               \* the context of the last symbol
  status             \* "run", "eos" or "error"

vars == <<text, reps, state, previousIsMatch, ExtraBytes, ctx, status>>

-----------------------------------------------------------------------------
Init ==
  /\ text = <<>>
  /\ reps = <<1, 1, 1, 1>>
  /\ state = 0
  /\ previousIsMatch = FALSE
  /\ ExtraBytes \in {0, 1}
  /\ ctx = <<>>
  /\ status = "run"

(* A symbol is decoded only while the input has not run out before it; it  *)
(* may itself be the one that runs out.                                    *)
Decode ==
  /\ status = "run"
  /\ ExtraBytes = 0
  /\ ExtraBytes' \in {0, 1}

Literal(b) ==
  /\ Decode
  /\ text' = Append(text, b)
  /\ state' = AfterLiteral(state)
  /\ previousIsMatch' = FALSE
  /\ ctx' = <<Len(text), state, PreviousByte(text)>>
              \o (IF previousIsMatch THEN <<Back(text, reps[1])>> ELSE <<>>)
  /\ UNCHANGED <<reps, status>>

ShortRep ==
  /\ Decode
  /\ previousIsMatch' = TRUE
  /\ ctx' = <<Len(text), state>>
  /\ \/ /\ text = <<>>
        /\ status' = "error"
        /\ UNCHANGED <<text, state>>
     \/ /\ text # <<>>
        /\ text' = Append(text, Back(text, reps[1]))
        /\ state' = AfterShortRep(state)
        /\ UNCHANGED status
  /\ UNCHANGED reps

(* The common end of both kinds of match: end mark, bad distance or copy. *)
Copy(r, n) ==
  /\ reps' = r
  /\ previousIsMatch' = TRUE
  /\ ctx' = <<Len(text), state>>
  /\ \/ r[1] = 0 /\ status' = "eos" /\ UNCHANGED text
     \/ r[1] > Len(text) /\ status' = "error" /\ UNCHANGED text
     \/ /\ r[1] \in 1 .. Len(text)
        /\ text' = Extend(text, r[1], n)
        /\ UNCHANGED status

RepMatch(k, n) ==
  /\ Decode
  /\ state' = AfterRep(state)
  /\ Copy(Front(reps, k), n)

(* Distance 0 is the UInt32 2^32 of the end mark, wrapped by `rep0++'. *)
Match(dist, n) ==
  /\ Decode
  /\ state' = AfterMatch(state)
  /\ Copy(<<dist, reps[1], reps[2], reps[3]>>, n)

Truncated ==
  /\ status = "run"
  /\ ExtraBytes = 1
  /\ status' = "error"
  /\ UNCHANGED <<text, reps, state, previousIsMatch, ExtraBytes, ctx>>

(* The buffer is reused for another stream (LzmaDecoderInit). *)
Restart ==
  /\ status # "run"
  /\ text' = <<>>
  /\ reps' = <<1, 1, 1, 1>>
  /\ state' = 0
  /\ previousIsMatch' = FALSE
  /\ ExtraBytes' \in {0, 1}
  /\ ctx' = <<>>
  /\ status' = "run"

Next ==
  \/ \E b \in Byte : Literal(b)
  \/ ShortRep
  \/ \E k \in 1 .. 4, n \in Length : RepMatch(k, n)
  \/ \E dist \in Distance \cup {0}, n \in Length : Match(dist, n)
  \/ Truncated
  \/ Restart

Spec == Init /\ [][Next]_vars
=============================================================================
