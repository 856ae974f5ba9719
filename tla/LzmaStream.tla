----------------------------- MODULE LzmaStream -----------------------------
(***************************************************************************)
(* LzmaDecode as it is compiled with _LZMA_OUT_READ: the caller asks for   *)
(* the text one output buffer at a time, the decoder suspends itself       *)
(* between the calls in an LzmaVarState and keeps its history in a ring of *)
(* dictionarySize bytes that it may have to leave in the middle of a match.*)
(*                                                                         *)
(* A call is several actions: Call loads the locals, PendingCopy finishes  *)
(* the match the previous call left, one action per symbol is one turn of  *)
(* the main loop, CopyByte is one turn of its inner copy loop, and Return  *)
(* stores the locals.  Symbols are arbitrary within the format: distances  *)
(* up to dictionarySize (the code does not check that bound) or the end    *)
(* mark, so a distance before the start of the text is among them.         *)
(***************************************************************************)
EXTENDS LzmaRules

CONSTANTS
  Byte,            \* the bytes, 0 among them
  Length,          \* match lengths; kMatchMinLen added
  DictionarySize,
  MaxCall,         \* largest outSize
  MaxText,         \* bound: bytes asked for from one stream
  PosMod,          \* 2^32: globalPos and nowPos are UInt32
  Garbage          \* a dictionary byte that was never written

ASSUME SizeAssumption ==
  /\ DictionarySize \in Nat \ {0}
  /\ MaxText \in Nat /\ PosMod \in Nat /\ MaxText < PosMod
  /\ 0 \in Byte /\ Garbage \notin Byte
  /\ Length \subseteq Nat \ {0}

VARIABLES
  vs,          \* the saved LzmaVarState
  cur,         \* the locals of the running call, the same fields
  dictionary,
  pc,          \* where the running call is; "caller" between two calls
  nowPos, outSize, previousByte,
  result,      \* of the last call
  processed,   \* *outSizeProcessed of the last call
  text,        \* history: every byte written to an outStream so far
  ctx          \* history: the context of the last symbol

vars == <<vs, cur, dictionary, pc, nowPos, outSize, previousByte, result,
          processed, text, ctx>>

Fresh(extra) ==
  [dictionaryPos |-> 0, globalPos |-> 0, reps |-> <<1, 1, 1, 1>>, state |-> 0,
   previousIsMatch |-> FALSE, RemainLen |-> 0, ExtraBytes |-> extra]

-----------------------------------------------------------------------------
(* Mutated: the position in the call, not in the text. *)
PosInCall == nowPos % PosMod

Pos == (cur.globalPos + nowPos) % PosMod

(* pos = dictionaryPos - rep0; if (pos >= dictionarySize) pos += ... *)
Source(r) ==
  IF r <= cur.dictionaryPos THEN cur.dictionaryPos - r
                            ELSE cur.dictionaryPos - r + DictionarySize

Advance(p) == IF p + 1 = DictionarySize THEN 0 ELSE p + 1

(* Mutated: the ring misses the byte. *)
EmitToCallerOnly(b) ==
  /\ UNCHANGED dictionary
  /\ text' = Append(text, b)
  /\ nowPos' = nowPos + 1

(* One byte goes to outStream and into the ring. *)
Emit(b) ==
  /\ dictionary' = [dictionary EXCEPT ![cur.dictionaryPos] = b]
  /\ text' = Append(text, b)
  /\ nowPos' = nowPos + 1

-----------------------------------------------------------------------------
(* Mutated: the dictionary is left as it is. *)
NotCleared(d) == d

(* dictionary[dictionarySize - 1] = 0, and no other byte. *)
Cleared(d) == [d EXCEPT ![DictionarySize - 1] = 0]

(* LzmaDecoderInit, for the first stream and for one after it. *)
Init ==
  /\ \E extra \in {0, 1} : vs = Fresh(extra) /\ cur = Fresh(extra)
  /\ dictionary = Cleared([i \in 0 .. DictionarySize - 1 |-> Garbage])
  /\ pc = "caller" /\ result = "ok"
  /\ nowPos = 0 /\ outSize = 0 /\ previousByte = 0
  /\ processed = 0 /\ text = <<>> /\ ctx = <<>>

LzmaDecoderInit ==
  /\ pc = "error" \/ (pc = "caller" /\ vs.RemainLen = -1)
  /\ \E extra \in {0, 1} : vs' = Fresh(extra) /\ cur' = Fresh(extra)
  /\ dictionary' = Cleared(dictionary)
  /\ pc' = "caller" /\ result' = "ok"
  /\ nowPos' = 0 /\ outSize' = 0 /\ previousByte' = 0
  /\ processed' = 0 /\ text' = <<>> /\ ctx' = <<>>

Call(n) ==
  /\ pc = "caller"
  /\ Len(text) + n <= MaxText
  /\ outSize' = n /\ nowPos' = 0 /\ processed' = 0
  /\ cur' = vs
  /\ \/ vs.RemainLen = -1 /\ pc' = "caller" /\ result' = "ok"
     \/ vs.RemainLen # -1 /\ pc' = "pending" /\ UNCHANGED result
  /\ UNCHANGED <<vs, dictionary, previousByte, text, ctx>>

PendingCopy ==
  /\ pc = "pending"
  /\ cur.RemainLen > 0 /\ nowPos < outSize
  /\ Emit(dictionary[Source(cur.reps[1])])
  /\ cur' = [cur EXCEPT !.RemainLen = @ - 1, !.dictionaryPos = Advance(@)]
  /\ UNCHANGED <<vs, pc, outSize, previousByte, result, processed, ctx>>

(* Mutated: a call that finished a match does not go on decoding. *)
PendingOnly ==
  /\ pc = "pending"
  /\ ~(cur.RemainLen > 0 /\ nowPos < outSize)
  /\ pc' = "return"
  /\ UNCHANGED <<vs, cur, dictionary, nowPos, outSize, previousByte, result,
                 processed, text, ctx>>

(* The byte before the next symbol is read back from the ring. *)
PendingDone ==
  /\ pc = "pending"
  /\ ~(cur.RemainLen > 0 /\ nowPos < outSize)
  /\ previousByte' = dictionary[IF cur.dictionaryPos = 0 THEN DictionarySize - 1
                                ELSE cur.dictionaryPos - 1]
  /\ pc' = "decode"
  /\ UNCHANGED <<vs, cur, dictionary, nowPos, outSize, result, processed,
                 text, ctx>>

-----------------------------------------------------------------------------
(* The head of the main loop. *)
Turn == pc = "decode" /\ nowPos < outSize

DataError ==
  /\ pc' = "error" /\ result' = "data_error"

(* Mutated: the loop starts over instead of returning. *)
TruncatedContinues ==
  /\ Turn
  /\ cur.ExtraBytes # 0
  /\ UNCHANGED vars

(* The input ran out in an earlier symbol; the bytes of this call are not  *)
(* reported to the caller.                                                 *)
Truncated ==
  /\ Turn
  /\ cur.ExtraBytes # 0
  /\ DataError
  /\ UNCHANGED <<vs, cur, dictionary, nowPos, outSize, previousByte,
                 processed, text, ctx>>

Literal(b) ==
  /\ Turn
  /\ cur.ExtraBytes = 0
  /\ ctx' = <<Pos, cur.state, previousByte>>
              \o (IF cur.previousIsMatch THEN <<dictionary[Source(cur.reps[1])]>>
                                         ELSE <<>>)
  /\ \E extra \in {0, 1} :
       cur' = [cur EXCEPT !.state = AfterLiteral(@), !.previousIsMatch = FALSE,
                          !.dictionaryPos = Advance(@), !.ExtraBytes = extra]
  /\ previousByte' = b
  /\ Emit(b)
  /\ UNCHANGED <<vs, pc, outSize, result, processed>>

ShortRep ==
  /\ Turn
  /\ cur.ExtraBytes = 0
  /\ ctx' = <<Pos, cur.state>>
  /\ \E extra \in {0, 1} :
       \/ /\ Pos = 0
          /\ cur' = [cur EXCEPT !.previousIsMatch = TRUE, !.ExtraBytes = extra]
          /\ DataError
          /\ UNCHANGED <<dictionary, nowPos, previousByte, text>>
       \/ /\ Pos # 0
          /\ cur' = [cur EXCEPT !.state = AfterShortRep(@),
                                !.previousIsMatch = TRUE,
                                !.dictionaryPos = Advance(@),
                                !.ExtraBytes = extra]
          /\ previousByte' = dictionary[Source(cur.reps[1])]
          /\ Emit(previousByte')
          /\ UNCHANGED <<pc, result>>
  /\ UNCHANGED <<vs, outSize, processed>>

(* A match with the distances r and the length n: the end mark, a distance *)
(* before the start of the text, or the copy loop.                         *)
Match(r, n, next) ==
  /\ Turn
  /\ cur.ExtraBytes = 0
  /\ ctx' = <<Pos, cur.state>>
  /\ \E extra \in {0, 1}, len \in {-1, n} :
       /\ len = -1 <=> r[1] = 0
       /\ cur' = [cur EXCEPT !.reps = r, !.state = next, !.previousIsMatch = TRUE,
                             !.ExtraBytes = extra, !.RemainLen = len]
  /\ \/ r[1] = 0 /\ pc' = "return" /\ UNCHANGED result
     \/ r[1] > Pos /\ DataError
     \/ r[1] \in 1 .. Pos /\ pc' = "copy" /\ UNCHANGED result
  /\ UNCHANGED <<vs, dictionary, nowPos, outSize, previousByte, processed, text>>

RepMatch(k, n) ==
  Match(Front(cur.reps, k), n, AfterRep(cur.state))

NewMatch(dist, n) ==
  Match(<<dist, cur.reps[1], cur.reps[2], cur.reps[3]>>, n,
        AfterMatch(cur.state))

CopyByte ==
  /\ pc = "copy"
  /\ previousByte' = dictionary[Source(cur.reps[1])]
  /\ Emit(previousByte')
  /\ cur' = [cur EXCEPT !.RemainLen = @ - 1, !.dictionaryPos = Advance(@)]
  /\ pc' = IF cur.RemainLen > 1 /\ nowPos + 1 < outSize THEN "copy" ELSE "decode"
  /\ UNCHANGED <<vs, outSize, result, processed, ctx>>

Return ==
  /\ pc = "return" \/ (pc = "decode" /\ nowPos >= outSize)
  /\ vs' = [cur EXCEPT !.globalPos = (@ + nowPos) % PosMod]
  /\ cur' = vs'
  /\ processed' = nowPos
  /\ pc' = "caller" /\ result' = "ok"
  /\ UNCHANGED <<dictionary, nowPos, outSize, previousByte, text, ctx>>

Step ==
  \/ PendingCopy \/ PendingDone
  \/ Truncated
  \/ \E b \in Byte : Literal(b)
  \/ ShortRep
  \/ \E k \in 1 .. 4, n \in Length : RepMatch(k, n)
  \/ \E dist \in 0 .. DictionarySize, n \in Length : NewMatch(dist, n)
  \/ CopyByte
  \/ Return

Next == LzmaDecoderInit \/ (\E n \in 0 .. MaxCall : Call(n)) \/ Step

(* The decoder runs on the caller's thread: once called, it keeps going. *)
Spec == Init /\ [][Next]_vars /\ WF_vars(Step)

-----------------------------------------------------------------------------
State == [dictionaryPos : 0 .. DictionarySize - 1, globalPos : 0 .. PosMod - 1,
          reps : [1 .. 4 -> 0 .. DictionarySize], state : 0 .. 11,
          previousIsMatch : BOOLEAN, RemainLen : Nat \cup {-1},
          ExtraBytes : {0, 1}]

(* Every byte of the text is a byte of the stream: no dictionary cell is   *)
(* read before it was written.                                             *)
TypeOK ==
  /\ vs \in State /\ cur \in State
  /\ dictionary \in [0 .. DictionarySize - 1 -> Byte \cup {Garbage}]
  /\ pc \in {"caller", "pending", "decode", "copy", "return", "error"}
  /\ nowPos \in Nat /\ outSize \in Nat /\ previousByte \in Byte
  /\ result \in {"ok", "data_error"}
  /\ text \in Seq(Byte) /\ processed \in Nat
  /\ ctx \in Seq(Nat \cup Byte)

(* The ring holds the last dictionarySize bytes of the text, whatever the  *)
(* sizes of the calls and wherever a match was interrupted.                *)
RingIsTail ==
  /\ cur.dictionaryPos = Len(text) % DictionarySize
  /\ \A i \in 1 .. Len(text) :
       i > Len(text) - DictionarySize
         => dictionary[(i - 1) % DictionarySize] = text[i]

(* A call that succeeds returns fewer bytes than asked for only at the end *)
(* mark: a caller may take a short answer for the end of the stream.       *)
ShortAnswerMeansEnd ==
  pc = "caller" /\ result = "ok" /\ processed < outSize => vs.RemainLen = -1

(* Every call returns. *)
CallReturns == pc \notin {"caller", "error"} ~> pc \in {"caller", "error"}

-----------------------------------------------------------------------------
(* The text as the symbols define it: what has been written, and the rest  *)
(* of the match that a full output buffer interrupted.                     *)
Owed == IF pc # "error" /\ cur.RemainLen > 0 THEN cur.RemainLen ELSE 0

Text == INSTANCE LzmaText WITH
  Distance <- 1 .. DictionarySize,
  text <- Extend(text, cur.reps[1], Owed),
  reps <- cur.reps,
  state <- cur.state,
  previousIsMatch <- cur.previousIsMatch,
  ExtraBytes <- cur.ExtraBytes,
  status <- IF pc = "error" THEN "error"
            ELSE IF cur.RemainLen = -1 THEN "eos" ELSE "run"

(* The streaming decoder delivers the text of the one-shot decoder, and    *)
(* decodes each symbol in the same context, however the caller divides the *)
(* text into calls.                                                        *)
TextSpec == Text!Spec
=============================================================================
