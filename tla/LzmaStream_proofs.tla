------------------------- MODULE LzmaStream_proofs -------------------------
(***************************************************************************)
(* The decoder that is called for one output buffer at a time, for every   *)
(* size of the ring and of the buffers: its ring holds the end of the      *)
(* text, and it implements LzmaText.                                       *)
(***************************************************************************)
EXTENDS LzmaStream, NatLemmas

Calling == pc \in {"pending", "decode", "copy", "return"}
Alive == pc # "error" /\ cur.RemainLen # -1

(* Where the call and the stream are. *)
Counted ==
  /\ Len(text) <= MaxText
  /\ pc = "caller" => cur = vs /\ cur.globalPos = Len(text)
  /\ Calling => /\ cur.globalPos + nowPos = Len(text)
                /\ nowPos <= outSize /\ Len(text) + (outSize - nowPos) <= MaxText

(* What is left of a match at each point of a call. *)
Remains ==
  /\ pc \in {"pending", "decode", "copy"} => cur.RemainLen # -1
  /\ pc = "return" => cur.RemainLen = -1
  /\ pc = "copy" => cur.RemainLen > 0 /\ nowPos < outSize
  /\ pc = "decode" /\ nowPos < outSize => cur.RemainLen = 0

(* A distance that will be used does not go behind the text. *)
Reachable ==
  Alive => /\ \A k \in 1 .. 4 : cur.reps[k] # 0
           /\ cur.reps[1] <= IF text = <<>> THEN 1 ELSE Len(text)
           /\ cur.previousIsMatch \/ cur.RemainLen > 0 => text # <<>>

(* The byte before the first one, and before the next one. *)
Previous ==
  /\ text = <<>> => dictionary[DictionarySize - 1] = 0
  /\ pc = "decode" => previousByte = PreviousByte(text)

IInv ==
  /\ TypeOK /\ RingIsTail /\ ShortAnswerMeansEnd
  /\ Counted /\ Remains /\ Reachable /\ Previous
-----------------------------------------------------------------------------
LEMMA StateFields ==
  ASSUME NEW s \in State
  PROVE  /\ s.dictionaryPos \in 0 .. DictionarySize - 1 /\ s.globalPos \in 0 .. PosMod - 1
         /\ s.reps \in [1 .. 4 -> 0 .. DictionarySize] /\ s.state \in 0 .. 11
         /\ s.previousIsMatch \in BOOLEAN /\ s.RemainLen \in Nat \cup {-1}
         /\ s.ExtraBytes \in {0, 1}
BY DEF State

LEMMA NextStates ==
  ASSUME NEW s \in 0 .. 11
  PROVE  /\ AfterLiteral(s) \in 0 .. 11 /\ AfterMatch(s) \in 0 .. 11
         /\ AfterRep(s) \in 0 .. 11 /\ AfterShortRep(s) \in 0 .. 11
BY DEF AfterLiteral, AfterMatch, AfterRep, AfterShortRep

(* The slot that Source takes is the one of the byte r before the next. *)
LEMMA SourceSlot ==
  ASSUME TypeOK, RingIsTail, NEW r \in 1 .. DictionarySize, r <= Len(text)
  PROVE  Source(r) = (Len(text) - r) % DictionarySize
<1> DEFINE L == Len(text)
           q == L \div DictionarySize
           d == cur.dictionaryPos
<1>1. L \in Nat /\ DictionarySize \in Nat \ {0}  BY SizeAssumption DEF TypeOK
<1>2. q \in Nat /\ d \in 0 .. DictionarySize - 1 /\ L = q * DictionarySize + d
  BY <1>1, DivMod DEF RingIsTail
<1> HIDE DEF q
<1>3. CASE r <= d
  <2>1. L - r = q * DictionarySize + (d - r) /\ d - r \in 0 .. DictionarySize - 1
    BY <1>1, <1>2, <1>3
  <2>2. (L - r) % DictionarySize = d - r  BY <1>1, <1>2, <2>1, DivModUnique
  <2>3. QED BY <1>3, <2>2 DEF Source
<1>4. CASE r > d
  <2>1. q # 0  BY <1>1, <1>2, <1>4
  <2>2. q - 1 \in Nat /\ (q - 1) * DictionarySize = q * DictionarySize - DictionarySize
    BY <1>1, <1>2, <2>1
  <2>3. q * DictionarySize \in Int  BY <1>1, <1>2
  <2>4. L - r = (q - 1) * DictionarySize + (d - r + DictionarySize)
    BY <1>1, <1>2, <2>2, <2>3
  <2>5. d - r + DictionarySize \in 0 .. DictionarySize - 1  BY <1>1, <1>2, <1>4
  <2>6. \A e \in 0 .. DictionarySize - 1 :
          ((q - 1) * DictionarySize + e) % DictionarySize = e
    BY <1>1, <2>2, DivModUnique
  <2>7. (L - r) % DictionarySize = d - r + DictionarySize  BY <2>4, <2>5, <2>6
  <2>8. QED BY <1>1, <1>2, <1>4, <2>7 DEF Source
<1>5. QED BY <1>1, <1>2, <1>3, <1>4

(* What is read there is that byte. *)
LEMMA SourceByte ==
  ASSUME TypeOK, RingIsTail, NEW r \in 1 .. DictionarySize, r <= Len(text)
  PROVE  dictionary[Source(r)] = Back(text, r) /\ Back(text, r) \in Byte
<1>1. Len(text) \in Nat /\ DictionarySize \in Nat \ {0}  BY SizeAssumption DEF TypeOK
<1> DEFINE i == Len(text) - r + 1
<1>2. i \in 1 .. Len(text) /\ i > Len(text) - DictionarySize /\ i - 1 = Len(text) - r
  BY <1>1
<1>3. dictionary[(i - 1) % DictionarySize] = text[i]  BY <1>2 DEF RingIsTail
<1>4. text[i] \in Byte  BY <1>2 DEF TypeOK
<1>5. QED BY <1>2, <1>3, <1>4, SourceSlot DEF Back

(* One byte more is in the ring. *)
LEMMA EmitKeeps ==
  ASSUME TypeOK, RingIsTail, NEW b \in Byte, Emit(b),
         cur'.dictionaryPos = Advance(cur.dictionaryPos)
  PROVE  /\ RingIsTail'
         /\ dictionary' \in [0 .. DictionarySize - 1 -> Byte \cup {Garbage}]
         /\ text' \in Seq(Byte) /\ Len(text') = Len(text) + 1 /\ text' # <<>>
         /\ Back(text, 1)' = b
<1>1. Len(text) \in Nat /\ DictionarySize \in Nat \ {0} /\ text \in Seq(Byte)
  BY SizeAssumption DEF TypeOK
<1>2. cur.dictionaryPos = Len(text) % DictionarySize  BY DEF RingIsTail
<1>3. cur.dictionaryPos \in 0 .. DictionarySize - 1  BY StateFields DEF TypeOK
<1>4. /\ text' \in Seq(Byte) /\ Len(text') = Len(text) + 1 /\ text' # <<>>
      /\ text'[Len(text) + 1] = b
      /\ \A i \in 1 .. Len(text) : text'[i] = text[i]
  BY <1>1 DEF Emit
<1>5. dictionary' \in [0 .. DictionarySize - 1 -> Byte \cup {Garbage}]
  BY <1>3 DEF Emit, TypeOK
<1>6. cur'.dictionaryPos = Len(text') % DictionarySize
  BY <1>1, <1>2, <1>4, ModNext DEF Advance
<1>7. ASSUME NEW i \in 1 .. Len(text'), i > Len(text') - DictionarySize
      PROVE  dictionary'[(i - 1) % DictionarySize] = text'[i]
  <2>1. CASE i = Len(text) + 1
    BY <1>1, <1>2, <1>3, <1>4, <2>1 DEF Emit, TypeOK
  <2>2. CASE i # Len(text) + 1
    <3>1. i \in 1 .. Len(text) /\ i - 1 \in Nat /\ i - 1 < Len(text)
          /\ Len(text) - (i - 1) < DictionarySize
      BY <1>1, <1>4, <1>7, <2>2
    <3>2. (i - 1) % DictionarySize # Len(text) % DictionarySize
      BY <1>1, <3>1, ModDiffer
    <3>3. (i - 1) % DictionarySize \in 0 .. DictionarySize - 1  BY <1>1, <3>1, DivMod
    <3>4. dictionary'[(i - 1) % DictionarySize] = dictionary[(i - 1) % DictionarySize]
      BY <1>2, <3>2, <3>3 DEF Emit, TypeOK
    <3>5. dictionary[(i - 1) % DictionarySize] = text[i]
      BY <1>1, <3>1 DEF RingIsTail
    <3>6. QED BY <1>4, <3>1, <3>4, <3>5
  <2>3. QED BY <2>1, <2>2
<1>8. Back(text, 1)' = b  BY <1>1, <1>4 DEF Back
<1>9. QED BY <1>4, <1>5, <1>6, <1>7, <1>8 DEF RingIsTail

(* The position that both builds compute is the length of the text. *)
LEMMA PosExact == ASSUME IInv, Calling PROVE Pos = Len(text)
<1>1. cur.globalPos + nowPos = Len(text) /\ Len(text) <= MaxText /\ Len(text) \in Nat
  BY DEF IInv, Counted, TypeOK
<1>2. PosMod \in Nat \ {0} /\ Len(text) \in 0 .. PosMod - 1  BY <1>1, SizeAssumption
<1>3. QED BY <1>1, <1>2, ModSmall DEF Pos

-----------------------------------------------------------------------------
LEMMA InitIInv == Init => IInv
<1>1. SUFFICES ASSUME Init PROVE IInv  OBVIOUS
<1>2. PICK extra \in {0, 1} : vs = Fresh(extra) /\ cur = Fresh(extra)  BY <1>1 DEF Init
<1>3. Fresh(extra) \in State  BY SizeAssumption DEF Fresh, State
<1>4. dictionary \in [0 .. DictionarySize - 1 -> Byte \cup {Garbage}]
      /\ dictionary[DictionarySize - 1] = 0
  BY <1>1, SizeAssumption DEF Init, Cleared
<1>5. TypeOK
  <2>1. text \in Seq(Byte) /\ ctx \in Seq(Nat \cup Byte)  BY <1>1 DEF Init
  <2>2. QED BY <1>1, <1>2, <1>3, <1>4, <2>1, SizeAssumption DEF Init, TypeOK
<1>6. Len(text) = 0  BY <1>1 DEF Init
<1>7. RingIsTail
  <2>1. 0 % DictionarySize = 0  BY SizeAssumption, ModSmall
  <2>2. QED BY <1>2, <1>6, <2>1 DEF RingIsTail, Fresh
<1>8. ShortAnswerMeansEnd  BY <1>1 DEF Init, ShortAnswerMeansEnd
<1>9. Counted /\ Remains  
  BY <1>1, <1>2, <1>6, SizeAssumption DEF Init, Counted, Remains, Calling, Fresh
<1>10. Reachable  BY <1>1, <1>2 DEF Init, Reachable, Alive, Fresh
<1>11. Previous  BY <1>1, <1>4 DEF Init, Previous
<1>12. QED BY <1>5, <1>7, <1>8, <1>9, <1>10, <1>11 DEF IInv

LEMMA DecoderInitKeeps == ASSUME IInv, LzmaDecoderInit PROVE IInv'
<1>1. PICK extra \in {0, 1} : vs' = Fresh(extra) /\ cur' = Fresh(extra)
  BY DEF LzmaDecoderInit
<1>2. Fresh(extra) \in State  BY SizeAssumption DEF Fresh, State
<1>3. dictionary' \in [0 .. DictionarySize - 1 -> Byte \cup {Garbage}]
      /\ dictionary'[DictionarySize - 1] = 0
  BY SizeAssumption DEF LzmaDecoderInit, Cleared, IInv, TypeOK
<1>4. TypeOK'
  <2>1. text' \in Seq(Byte) /\ ctx' \in Seq(Nat \cup Byte)  BY DEF LzmaDecoderInit
  <2>2. QED BY <1>1, <1>2, <1>3, <2>1, SizeAssumption DEF LzmaDecoderInit, TypeOK
<1>5. Len(text') = 0  BY DEF LzmaDecoderInit
<1>6. RingIsTail'
  <2>1. 0 % DictionarySize = 0  BY SizeAssumption, ModSmall
  <2>2. QED BY <1>1, <1>5, <2>1 DEF RingIsTail, Fresh
<1>7. ShortAnswerMeansEnd'  BY DEF LzmaDecoderInit, ShortAnswerMeansEnd
<1>8. Counted' /\ Remains'
  BY <1>1, <1>5, SizeAssumption DEF LzmaDecoderInit, Counted, Remains, Calling, Fresh
<1>9. Reachable'  BY <1>1 DEF LzmaDecoderInit, Reachable, Alive, Fresh
<1>10. Previous'  BY <1>3 DEF LzmaDecoderInit, Previous
<1>11. QED BY <1>4, <1>6, <1>7, <1>8, <1>9, <1>10 DEF IInv

LEMMA CallKeeps == ASSUME IInv, NEW n \in 0 .. MaxCall, Call(n) PROVE IInv'
<1>1. cur' = cur /\ vs' = vs /\ dictionary' = dictionary /\ text' = text
  BY DEF Call, IInv, Counted
<1>2. TypeOK'  BY <1>1 DEF Call, IInv, TypeOK
<1>3. RingIsTail'  BY <1>1 DEF IInv, RingIsTail
<1>4. ShortAnswerMeansEnd'  BY <1>1 DEF Call, IInv, ShortAnswerMeansEnd
<1>5. Counted'  BY <1>1 DEF Call, IInv, Counted, Calling, TypeOK
<1>6. Remains'  BY <1>1 DEF Call, IInv, Remains, Counted
<1>7. Reachable'  BY <1>1 DEF Call, IInv, Reachable, Alive
<1>8. Previous'  BY <1>1 DEF Call, IInv, Previous
<1>9. QED BY <1>2, <1>3, <1>4, <1>5, <1>6, <1>7, <1>8 DEF IInv

LEMMA ByteCounted ==
  ASSUME IInv, Calling, Calling', nowPos < outSize, nowPos' = nowPos + 1,
         outSize' = outSize, cur'.globalPos = cur.globalPos, Len(text') = Len(text) + 1
  PROVE  Counted'
<1>1. /\ cur.globalPos \in 0 .. PosMod - 1 /\ nowPos \in Nat /\ outSize \in Nat
      /\ Len(text) \in Nat /\ MaxText \in Nat
  BY StateFields, SizeAssumption DEF IInv, TypeOK
<1>2. /\ cur.globalPos + nowPos = Len(text)
      /\ Len(text) + (outSize - nowPos) <= MaxText
  BY DEF IInv, Counted
<1>3. /\ cur'.globalPos + nowPos' = Len(text') /\ nowPos' <= outSize'
      /\ Len(text') + (outSize' - nowPos') <= MaxText /\ Len(text') <= MaxText
  BY <1>1, <1>2
<1>4. QED BY <1>3 DEF Counted, Calling

(* A byte of a match: the last call's, or this one's. *)
LEMMA CopyKeeps == ASSUME IInv, PendingCopy \/ CopyByte PROVE IInv'
<1> DEFINE r == cur.reps[1]
           b == dictionary[Source(r)]
<1>1. /\ cur \in State /\ nowPos \in Nat /\ outSize \in Nat /\ Len(text) \in Nat
      /\ cur.RemainLen \in Nat /\ cur.RemainLen > 0 /\ nowPos < outSize
      /\ cur.globalPos \in 0 .. PosMod - 1
      /\ pc \in {"pending", "copy"}
  BY StateFields DEF IInv, TypeOK, Remains, PendingCopy, CopyByte
<1>2. r \in 1 .. DictionarySize /\ r <= Len(text)
  BY <1>1, StateFields DEF IInv, Reachable, Alive, Remains
<1>3. b \in Byte  BY <1>2, SourceByte DEF IInv
<1>4. Emit(b)  BY DEF PendingCopy, CopyByte
<1>5. cur' = [cur EXCEPT !.RemainLen = @ - 1, !.dictionaryPos = Advance(@)]
      /\ vs' = vs /\ outSize' = outSize
  BY DEF PendingCopy, CopyByte
<1>6. /\ cur'.RemainLen = cur.RemainLen - 1 /\ cur'.reps = cur.reps
      /\ cur'.dictionaryPos = Advance(cur.dictionaryPos)
      /\ cur'.previousIsMatch = cur.previousIsMatch /\ cur'.globalPos = cur.globalPos
      /\ cur' \in State
  <2>1. Advance(cur.dictionaryPos) \in 0 .. DictionarySize - 1
    BY <1>1, StateFields, SizeAssumption DEF Advance
  <2>2. cur.RemainLen - 1 \in Nat  BY <1>1
  <2>3. QED BY <1>1, <1>5, <2>1, <2>2 DEF State
<1>7. /\ RingIsTail'
      /\ dictionary' \in [0 .. DictionarySize - 1 -> Byte \cup {Garbage}]
      /\ text' \in Seq(Byte) /\ Len(text') = Len(text) + 1 /\ text' # <<>>
      /\ Back(text, 1)' = b
  BY <1>3, <1>4, <1>6, EmitKeeps DEF IInv
<1>8. nowPos' = nowPos + 1  BY <1>4 DEF Emit
<1>9. pc' \in {"pending", "copy", "decode"} /\ previousByte' \in {previousByte, b}
  BY <1>1 DEF PendingCopy, CopyByte
<1>10. TypeOK'
  BY <1>1, <1>3, <1>5, <1>6, <1>7, <1>8, <1>9
  DEF IInv, TypeOK, PendingCopy, CopyByte
<1>11. ShortAnswerMeansEnd'  BY <1>9 DEF ShortAnswerMeansEnd
<1>12. Counted'  BY <1>1, <1>5, <1>6, <1>7, <1>8, <1>9, ByteCounted DEF Calling
<1>13. Remains'  
  BY <1>1, <1>5, <1>6, <1>8 DEF IInv, Remains, PendingCopy, CopyByte
<1>14. Reachable'  BY <1>1, <1>2, <1>6, <1>7 DEF IInv, Reachable, Alive
<1>15. Previous'  BY <1>7 DEF Previous, PreviousByte, PendingCopy, CopyByte
<1>16. QED BY <1>7, <1>10, <1>11, <1>12, <1>13, <1>14, <1>15 DEF IInv

LEMMA PendingDoneKeeps == ASSUME IInv, PendingDone PROVE IInv'
<1>1. /\ cur' = cur /\ vs' = vs /\ dictionary' = dictionary /\ text' = text
      /\ nowPos' = nowPos /\ outSize' = outSize /\ pc = "pending" /\ pc' = "decode"
  BY DEF PendingDone
<1>2. /\ cur.dictionaryPos \in 0 .. DictionarySize - 1 /\ DictionarySize \in Nat \ {0}
      /\ cur.RemainLen \in Nat /\ Len(text) \in Nat /\ nowPos \in Nat /\ outSize \in Nat
  BY <1>1, StateFields, SizeAssumption DEF IInv, TypeOK, Remains
<1>3. previousByte' = dictionary[Source(1)]
  BY <1>2 DEF PendingDone, Source
<1>4. previousByte' = PreviousByte(text) /\ previousByte' \in Byte
  <2>1. CASE text = <<>>
    <3>1. cur.dictionaryPos = 0  BY <1>2, <2>1, ModSmall DEF IInv, RingIsTail
    <3>2. QED BY <2>1, <3>1, SizeAssumption DEF PendingDone, PreviousByte, IInv, Previous
  <2>2. CASE text # <<>>
    <3>1. 1 <= Len(text)  BY <1>2, <2>2 DEF IInv, TypeOK
    <3>2. QED BY <1>2, <1>3, <2>2, <3>1, SourceByte DEF IInv, PreviousByte
  <2>3. QED BY <2>1, <2>2
<1>5. TypeOK'  BY <1>1, <1>4 DEF PendingDone, IInv, TypeOK
<1>6. RingIsTail' /\ ShortAnswerMeansEnd'
  BY <1>1 DEF IInv, RingIsTail, ShortAnswerMeansEnd
<1>7. Counted' /\ Reachable'
  BY <1>1 DEF IInv, Counted, Calling, Reachable, Alive
<1>8. Remains'  BY <1>1, <1>2 DEF IInv, Remains, PendingDone
<1>9. Previous'  BY <1>1, <1>4 DEF IInv, Previous, PreviousByte
<1>10. QED BY <1>5, <1>6, <1>7, <1>8, <1>9 DEF IInv
(* The input had run out: nothing is saved. *)
LEMMA TruncatedKeeps == ASSUME IInv, Truncated PROVE IInv'
<1>1. /\ cur' = cur /\ vs' = vs /\ dictionary' = dictionary /\ text' = text
      /\ nowPos' = nowPos /\ outSize' = outSize /\ pc' = "error"
  BY DEF Truncated, DataError
<1>2. TypeOK'  BY <1>1 DEF Truncated, DataError, IInv, TypeOK
<1>3. QED BY <1>1, <1>2
  DEF IInv, RingIsTail, ShortAnswerMeansEnd, Counted, Calling, Remains, Reachable,
      Alive, Previous

(* What a symbol finds at the head of the loop. *)
LEMMA AtTurn ==
  ASSUME IInv, Turn
  PROVE  /\ pc = "decode" /\ nowPos < outSize /\ nowPos \in Nat /\ outSize \in Nat
         /\ cur \in State /\ cur.RemainLen = 0 /\ Pos = Len(text) /\ Len(text) \in Nat
         /\ cur.globalPos \in Nat /\ text \in Seq(Byte) /\ previousByte \in Byte
         /\ previousByte = PreviousByte(text)
         /\ cur.reps \in [1 .. 4 -> 1 .. DictionarySize]
         /\ cur.reps[1] <= IF text = <<>> THEN 1 ELSE Len(text)
         /\ cur.previousIsMatch => text # <<>>
<1>1. pc = "decode" /\ nowPos < outSize /\ cur.RemainLen = 0
  BY DEF IInv, Turn, Remains
<1>2. Pos = Len(text)  BY <1>1, PosExact DEF Calling
<1>3. cur.reps \in [1 .. 4 -> 1 .. DictionarySize]
  <2>1. cur.reps \in [1 .. 4 -> 0 .. DictionarySize]  BY StateFields DEF IInv, TypeOK
  <2>2. \A k \in 1 .. 4 : cur.reps[k] # 0  BY <1>1 DEF IInv, Reachable, Alive
  <2>3. QED BY <2>1, <2>2, SizeAssumption
<1>4. cur.globalPos \in Nat  BY StateFields DEF IInv, TypeOK
<1>5. QED BY <1>1, <1>2, <1>3, <1>4
  DEF IInv, TypeOK, Reachable, Alive, Previous

LEMMA ContextType == IInv /\ Turn => <<Pos, cur.state>> \in Seq(Nat \cup Byte)
<1>1. IInv /\ Turn => Pos \in Nat /\ cur.state \in Nat  BY AtTurn, StateFields
<1>2. QED BY <1>1

LEMMA LiteralKeeps == ASSUME IInv, NEW b \in Byte, Literal(b) PROVE IInv'
<1>1. Turn  BY DEF Literal
<1>2. Emit(b) /\ vs' = vs /\ outSize' = outSize /\ pc' = pc  BY DEF Literal
<1>3. PICK extra \in {0, 1} :
        cur' = [cur EXCEPT !.state = AfterLiteral(@), !.previousIsMatch = FALSE,
                           !.dictionaryPos = Advance(@), !.ExtraBytes = extra]
  BY DEF Literal
<1>4. cur' \in State
  <2>1. Advance(cur.dictionaryPos) \in 0 .. DictionarySize - 1
    BY StateFields, SizeAssumption DEF IInv, TypeOK, Advance
  <2>2. AfterLiteral(cur.state) \in 0 .. 11
    BY StateFields, NextStates DEF IInv, TypeOK
  <2>3. QED BY <1>1, <1>3, <2>1, <2>2, AtTurn DEF State
<1>5. /\ cur'.dictionaryPos = Advance(cur.dictionaryPos) /\ cur'.reps = cur.reps
      /\ cur'.previousIsMatch = FALSE /\ cur'.RemainLen = cur.RemainLen
      /\ cur'.globalPos = cur.globalPos
  BY <1>1, <1>3, AtTurn DEF State
<1>6. /\ RingIsTail'
      /\ dictionary' \in [0 .. DictionarySize - 1 -> Byte \cup {Garbage}]
      /\ text' \in Seq(Byte) /\ Len(text') = Len(text) + 1 /\ text' # <<>>
      /\ Back(text, 1)' = b
  BY <1>2, <1>5, EmitKeeps DEF IInv
<1>7. nowPos' = nowPos + 1  BY <1>2 DEF Emit
<1>8. ctx' \in Seq(Nat \cup Byte)
  <2>1. <<Pos, cur.state, previousByte>> \in Seq(Nat \cup Byte)
    BY <1>1, AtTurn, StateFields
  <2>2. cur.previousIsMatch => dictionary[Source(cur.reps[1])] \in Byte
    BY <1>1, AtTurn, SourceByte DEF IInv
  <2>3. (IF cur.previousIsMatch THEN <<dictionary[Source(cur.reps[1])]>> ELSE <<>>)
           \in Seq(Nat \cup Byte)
    <3>1. CASE cur.previousIsMatch  BY <2>2, <3>1
    <3>2. CASE ~cur.previousIsMatch  BY <3>2
    <3>3. QED BY <3>1, <3>2
  <2>4. QED BY <2>1, <2>3 DEF Literal
<1>9. TypeOK'
  BY <1>1, <1>2, <1>4, <1>6, <1>7, <1>8, AtTurn DEF IInv, TypeOK, Literal
<1>10. ShortAnswerMeansEnd'  BY <1>1, <1>2, AtTurn DEF ShortAnswerMeansEnd
<1>11. Counted'
  BY <1>1, <1>2, <1>5, <1>6, <1>7, AtTurn, ByteCounted DEF Calling
<1>12. Remains'  BY <1>1, <1>2, <1>5, <1>7, AtTurn DEF IInv, Remains
<1>13. Reachable'
  <2>1. cur.reps[1] \in 1 .. DictionarySize  BY <1>1, AtTurn
  <2>2. cur.reps[1] <= Len(text')
    BY <1>1, <1>6, <2>1, AtTurn
  <2>3. QED BY <1>1, <1>5, <1>6, <2>2, AtTurn DEF IInv, Reachable, Alive
<1>14. Previous'  BY <1>6 DEF Literal, Previous, PreviousByte
<1>15. QED BY <1>6, <1>9, <1>10, <1>11, <1>12, <1>13, <1>14 DEF IInv
LEMMA ShortRepKeeps == ASSUME IInv, ShortRep PROVE IInv'
<1>1. Turn /\ vs' = vs /\ outSize' = outSize  BY DEF ShortRep
<1>2. ctx' \in Seq(Nat \cup Byte)
  <2>1. <<Pos, cur.state>> \in Seq(Nat \cup Byte)  BY <1>1, AtTurn, StateFields
  <2>2. QED BY <2>1 DEF ShortRep
<1>3. PICK extra \in {0, 1} :
        \/ /\ Pos = 0
           /\ cur' = [cur EXCEPT !.previousIsMatch = TRUE, !.ExtraBytes = extra]
           /\ DataError
           /\ UNCHANGED <<dictionary, nowPos, previousByte, text>>
        \/ /\ Pos # 0
           /\ cur' = [cur EXCEPT !.state = AfterShortRep(@), !.previousIsMatch = TRUE,
                                 !.dictionaryPos = Advance(@), !.ExtraBytes = extra]
           /\ previousByte' = dictionary[Source(cur.reps[1])]
           /\ Emit(previousByte')
           /\ UNCHANGED <<pc, result>>
  BY DEF ShortRep
<1>4. CASE Pos = 0
  <2>1. /\ cur' = [cur EXCEPT !.previousIsMatch = TRUE, !.ExtraBytes = extra]
        /\ DataError /\ UNCHANGED <<dictionary, nowPos, previousByte, text>>
    BY <1>3, <1>4
  <2>2. cur' \in State /\ cur'.dictionaryPos = cur.dictionaryPos
    BY <1>1, <2>1, AtTurn DEF State
  <2>3. TypeOK'  BY <1>1, <1>2, <2>1, <2>2 DEF IInv, TypeOK, DataError, ShortRep
  <2>4. QED BY <1>1, <2>1, <2>2, <2>3
        DEF IInv, RingIsTail, ShortAnswerMeansEnd, Counted, Calling, Remains,
            Reachable, Alive, Previous, DataError
<1>5. CASE Pos # 0
  <2> DEFINE r == cur.reps[1]
             b == dictionary[Source(r)]
  <2>1. /\ cur' = [cur EXCEPT !.state = AfterShortRep(@), !.previousIsMatch = TRUE,
                              !.dictionaryPos = Advance(@), !.ExtraBytes = extra]
        /\ previousByte' = b /\ Emit(b) /\ pc' = pc /\ result' = result
    BY <1>3, <1>5
  <2>2. r \in 1 .. DictionarySize /\ r <= Len(text)  BY <1>1, <1>5, AtTurn
  <2>3. b \in Byte  BY <2>2, SourceByte DEF IInv
  <2>4. cur' \in State
    <3>1. Advance(cur.dictionaryPos) \in 0 .. DictionarySize - 1
      BY StateFields, SizeAssumption DEF IInv, TypeOK, Advance
    <3>2. AfterShortRep(cur.state) \in 0 .. 11
      BY StateFields, NextStates DEF IInv, TypeOK
    <3>3. QED BY <1>1, <2>1, <3>1, <3>2, AtTurn DEF State
  <2>5. /\ cur'.dictionaryPos = Advance(cur.dictionaryPos) /\ cur'.reps = cur.reps
        /\ cur'.RemainLen = cur.RemainLen /\ cur'.globalPos = cur.globalPos
    BY <1>1, <2>1, AtTurn DEF State
  <2>6. /\ RingIsTail'
        /\ dictionary' \in [0 .. DictionarySize - 1 -> Byte \cup {Garbage}]
        /\ text' \in Seq(Byte) /\ Len(text') = Len(text) + 1 /\ text' # <<>>
        /\ Back(text, 1)' = b
    BY <2>1, <2>3, <2>5, EmitKeeps DEF IInv
  <2>7. nowPos' = nowPos + 1  BY <2>1 DEF Emit
  <2>8. TypeOK'
    BY <1>1, <1>2, <2>1, <2>3, <2>4, <2>6, <2>7, AtTurn DEF IInv, TypeOK, ShortRep
  <2>9. ShortAnswerMeansEnd'  BY <1>1, <2>1, AtTurn DEF ShortAnswerMeansEnd
  <2>10. Counted'
    BY <1>1, <2>1, <2>5, <2>6, <2>7, AtTurn, ByteCounted DEF Calling
  <2>11. Remains'  BY <1>1, <2>1, <2>5, <2>7, AtTurn DEF IInv, Remains
  <2>12. Reachable'
    BY <1>1, <2>1, <2>2, <2>5, <2>6, AtTurn DEF IInv, Reachable, Alive
  <2>13. Previous'  BY <2>1, <2>6 DEF Previous, PreviousByte
  <2>14. QED BY <2>6, <2>8, <2>9, <2>10, <2>11, <2>12, <2>13 DEF IInv
<1>6. QED BY <1>4, <1>5

(* Of the distances that a match leaves, the first may be the end mark or  *)
(* go too far; the others were distances before.                           *)
LEMMA MatchKeeps ==
  ASSUME IInv, NEW r \in [1 .. 4 -> 0 .. DictionarySize], NEW n \in Length,
         NEW next \in 0 .. 11, Match(r, n, next), \A k \in 2 .. 4 : r[k] # 0
  PROVE  IInv'
<1>1. /\ Turn /\ vs' = vs /\ dictionary' = dictionary /\ text' = text
      /\ nowPos' = nowPos /\ outSize' = outSize /\ previousByte' = previousByte
      /\ processed' = processed
  BY DEF Match
<1>2. ctx' \in Seq(Nat \cup Byte)
  <2>1. <<Pos, cur.state>> \in Seq(Nat \cup Byte)  BY <1>1, ContextType
  <2>2. QED BY <2>1 DEF Match
<1>3. PICK extra \in {0, 1}, len \in {-1, n} :
        /\ len = -1 <=> r[1] = 0
        /\ cur' = [cur EXCEPT !.reps = r, !.state = next, !.previousIsMatch = TRUE,
                              !.ExtraBytes = extra, !.RemainLen = len]
  BY DEF Match
<1>4. n \in Nat /\ n > 0  BY SizeAssumption
<1>5. /\ cur' \in State /\ cur'.dictionaryPos = cur.dictionaryPos
      /\ cur'.globalPos = cur.globalPos /\ cur'.reps = r /\ cur'.RemainLen = len
  BY <1>1, <1>3, <1>4, AtTurn DEF State
<1>6. \/ r[1] = 0 /\ pc' = "return" /\ result' = result
      \/ r[1] > Len(text) /\ pc' = "error" /\ result' = "data_error"
      \/ r[1] \in 1 .. Len(text) /\ pc' = "copy" /\ result' = result
  BY <1>1, AtTurn DEF Match, DataError
<1>7. TypeOK'  BY <1>1, <1>2, <1>5, <1>6 DEF IInv, TypeOK
<1>8. RingIsTail'  BY <1>1, <1>5 DEF IInv, RingIsTail
<1>9. ShortAnswerMeansEnd'  BY <1>6 DEF ShortAnswerMeansEnd
<1>10. Counted'  BY <1>1, <1>5, <1>6, AtTurn DEF IInv, Counted, Calling
<1>11. Remains'  BY <1>1, <1>3, <1>4, <1>5, <1>6, AtTurn DEF Remains
<1>12. Reachable'
  <2>1. CASE pc' = "error"  BY <2>1 DEF Reachable, Alive
  <2>2. CASE r[1] = 0  BY <1>3, <1>5, <2>2 DEF Reachable, Alive
  <2>3. CASE r[1] \in 1 .. Len(text)
    <3>1. text # <<>>  BY <2>3
    <3>2. \A k \in 1 .. 4 : r[k] # 0  BY <2>3
    <3>3. QED BY <1>1, <1>5, <2>3, <3>1, <3>2 DEF Reachable
  <2>4. QED BY <1>6, <2>1, <2>2, <2>3
<1>13. Previous'  BY <1>1, <1>6 DEF IInv, Previous
<1>14. QED BY <1>7, <1>8, <1>9, <1>10, <1>11, <1>12, <1>13 DEF IInv

LEMMA RepMatchKeeps ==
  ASSUME IInv, NEW k \in 1 .. 4, NEW n \in Length, RepMatch(k, n)
  PROVE  IInv'
<1>1. Turn  BY DEF RepMatch, Match
<1>2. Front(cur.reps, k) \in [1 .. 4 -> 1 .. DictionarySize]
  BY <1>1, AtTurn DEF Front
<1>3. AfterRep(cur.state) \in 0 .. 11  BY <1>1, AtTurn, StateFields, NextStates
<1>4. QED BY <1>2, <1>3, MatchKeeps DEF RepMatch

LEMMA NewMatchKeeps ==
  ASSUME IInv, NEW dist \in 0 .. DictionarySize, NEW n \in Length, NewMatch(dist, n)
  PROVE  IInv'
<1>1. Turn  BY DEF NewMatch, Match
<1> DEFINE r == <<dist, cur.reps[1], cur.reps[2], cur.reps[3]>>
<1>2. r \in [1 .. 4 -> 0 .. DictionarySize] /\ \A k \in 2 .. 4 : r[k] # 0
  BY <1>1, AtTurn
<1>3. AfterMatch(cur.state) \in 0 .. 11  BY <1>1, AtTurn, StateFields, NextStates
<1>4. QED BY <1>2, <1>3, MatchKeeps DEF NewMatch

LEMMA ReturnKeeps == ASSUME IInv, Return PROVE IInv'
<1>1. /\ dictionary' = dictionary /\ text' = text /\ nowPos' = nowPos
      /\ outSize' = outSize /\ cur' = vs' /\ processed' = nowPos /\ pc' = "caller"
      /\ previousByte' = previousByte /\ ctx' = ctx /\ result' = "ok"
      /\ vs' = [cur EXCEPT !.globalPos = (@ + nowPos) % PosMod]
  BY DEF Return
<1>2. Calling /\ (cur.RemainLen = -1 \/ nowPos >= outSize)
  BY DEF Return, Calling, IInv, Remains
<1>3. (cur.globalPos + nowPos) % PosMod = Len(text)  BY <1>2, PosExact DEF Pos
<1>4. Len(text) \in 0 .. PosMod - 1
  BY SizeAssumption DEF IInv, TypeOK, Counted
<1>5. /\ vs' \in State /\ cur'.globalPos = Len(text) /\ cur'.reps = cur.reps
      /\ cur'.dictionaryPos = cur.dictionaryPos /\ cur'.RemainLen = cur.RemainLen
      /\ cur'.previousIsMatch = cur.previousIsMatch
  BY <1>1, <1>3, <1>4 DEF IInv, TypeOK, State
<1>6. TypeOK'  BY <1>1, <1>5 DEF IInv, TypeOK
<1>7. RingIsTail'  BY <1>1, <1>5 DEF IInv, RingIsTail
<1>8. ShortAnswerMeansEnd'
  BY <1>1, <1>2, <1>5 DEF ShortAnswerMeansEnd, IInv, TypeOK
<1>9. Counted' /\ Remains'
  BY <1>1, <1>4, <1>5 DEF IInv, Counted, Remains, Calling
<1>10. Reachable'  BY <1>1, <1>2, <1>5 DEF IInv, Reachable, Alive, Calling
<1>11. Previous'  BY <1>1 DEF IInv, Previous
<1>12. QED BY <1>6, <1>7, <1>8, <1>9, <1>10, <1>11 DEF IInv

LEMMA NextIInv == IInv /\ [Next]_vars => IInv'
<1>1. SUFFICES ASSUME IInv, [Next]_vars PROVE IInv'  OBVIOUS
<1>2. CASE UNCHANGED vars
  BY <1>1, <1>2
  DEF vars, IInv, TypeOK, RingIsTail, ShortAnswerMeansEnd, Counted, Calling, Remains,
      Reachable, Alive, Previous
<1>3. CASE LzmaDecoderInit  BY <1>1, <1>3, DecoderInitKeeps
<1>4. CASE \E n \in 0 .. MaxCall : Call(n)  BY <1>1, <1>4, CallKeeps
<1>5. CASE PendingCopy \/ CopyByte  BY <1>1, <1>5, CopyKeeps
<1>6. CASE PendingDone  BY <1>1, <1>6, PendingDoneKeeps
<1>7. CASE Truncated  BY <1>1, <1>7, TruncatedKeeps
<1>8. CASE \E b \in Byte : Literal(b)  BY <1>1, <1>8, LiteralKeeps
<1>9. CASE ShortRep  BY <1>1, <1>9, ShortRepKeeps
<1>10. CASE \E k \in 1 .. 4, n \in Length : RepMatch(k, n)
  BY <1>1, <1>10, RepMatchKeeps
<1>11. CASE \E dist \in 0 .. DictionarySize, n \in Length : NewMatch(dist, n)
  BY <1>1, <1>11, NewMatchKeeps
<1>12. CASE Return  BY <1>1, <1>12, ReturnKeeps
<1>13. QED
  BY <1>1, <1>2, <1>3, <1>4, <1>5, <1>6, <1>7, <1>8, <1>9, <1>10, <1>11, <1>12
  DEF Next, Step

LEMMA Invariant == Spec => []IInv
BY InitIInv, NextIInv, PTL DEF Spec

(* No byte of the ring is read before it was written, and the saved state  *)
(* is one that the decoder can go on from.                                 *)
THEOREM TypeCorrect == Spec => []TypeOK
<1>1. IInv => TypeOK  BY DEF IInv
<1>2. QED BY Invariant, <1>1, PTL

(* The ring of _LZMA_OUT_READ holds the last dictionarySize bytes, whatever *)
(* the sizes of the calls and wherever a match was interrupted.            *)
THEOREM RingHoldsTail == Spec => []RingIsTail
<1>1. IInv => RingIsTail  BY DEF IInv
<1>2. QED BY Invariant, <1>1, PTL

(* Only the end mark makes a successful answer short.                      *)
THEOREM ShortAnswerIsEnd == Spec => []ShortAnswerMeansEnd
<1>1. IInv => ShortAnswerMeansEnd  BY DEF IInv
<1>2. QED BY Invariant, <1>1, PTL

-----------------------------------------------------------------------------
(* What LzmaText sees of a state: the text with the rest of the match that *)
(* is being copied, and where the stream is.                               *)
Whole == Extend(text, cur.reps[1], Owed)
Status == IF pc = "error" THEN "error" ELSE IF cur.RemainLen = -1 THEN "eos" ELSE "run"
Seen == <<Whole, cur.reps, cur.state, cur.previousIsMatch, cur.ExtraBytes, ctx, Status>>

LEMMA ExtendZero ==
  ASSUME NEW S, NEW t \in Seq(S), NEW d
  PROVE  Extend(t, d, 0) = t
<1>1. Len(t) \in Nat /\ t = [i \in 1 .. Len(t) |-> t[i]]  OBVIOUS
<1>2. Extend(t, d, 0) = [i \in 1 .. Len(t) |-> t[i]]  BY <1>1 DEF Extend
<1>3. QED BY <1>1, <1>2

(* A copy of n bytes is a copy of one byte and then of the others: the     *)
(* byte that is read may be one that this copy has written.                *)
LEMMA ExtendMore ==
  ASSUME NEW S, NEW t \in Seq(S), NEW d \in 1 .. Len(t), NEW n \in Nat \ {0}
  PROVE  Extend(Append(t, Back(t, d)), d, n - 1) = Extend(t, d, n)
<1> DEFINE L == Len(t)
           u == Append(t, Back(t, d))
<1>1. L \in Nat /\ Len(u) = L + 1 /\ u[L + 1] = t[L - d + 1]
      /\ d \in Nat \ {0} /\ \A i \in 1 .. L : u[i] = t[i]
  BY DEF Back
<1>2. Len(u) + (n - 1) = L + n  BY <1>1
<1> HIDE DEF u
<1>3. ASSUME NEW i \in 1 .. L + n
      PROVE  (IF i <= Len(u) THEN u[i]
                             ELSE u[Len(u) - d + 1 + ((i - Len(u) - 1) % d)])
             = (IF i <= L THEN t[i] ELSE t[L - d + 1 + ((i - L - 1) % d)])
  <2>1. CASE i <= L  BY <1>1, <2>1
  <2>2. CASE i = L + 1
    <3>1. (i - L - 1) % d = 0  BY <1>1, <2>2, ModSmall
    <3>2. QED BY <1>1, <2>2, <3>1
  <2>3. CASE i > L + 1
    <3> DEFINE j == i - L - 2
    <3>1. j \in Nat /\ i - Len(u) - 1 = j /\ i - L - 1 = j + 1  BY <1>1, <2>3
    <3> HIDE DEF j
    <3>2. (j + 1) % d = IF (j % d) + 1 = d THEN 0 ELSE (j % d) + 1
      BY <1>1, <3>1, ModNext
    <3>3. j % d \in 0 .. d - 1  BY <1>1, <3>1, DivMod
    <3>4. CASE (j % d) + 1 = d
      BY <1>1, <2>3, <3>1, <3>2, <3>3, <3>4
    <3>5. CASE (j % d) + 1 # d
      <4>1. L + 1 - d + 1 + (j % d) \in 1 .. L  BY <1>1, <3>3, <3>5
      <4>2. QED BY <1>1, <2>3, <3>1, <3>2, <3>5, <4>1
    <3>6. QED BY <3>4, <3>5
  <2>4. i <= L \/ i = L + 1 \/ i > L + 1  BY <1>1
  <2> HIDE DEF L
  <2>5. QED BY <2>1, <2>2, <2>3, <2>4
<1>4. QED BY <1>1, <1>2, <1>3 DEF Extend, u

(* The instance follows the same rules.                                    *)
LEMMA TextRules ==
  /\ \A t, d, n : Text!Extend(t, d, n) = Extend(t, d, n) /\ Text!Back(t, d) = Back(t, d)
  /\ \A t : Text!PreviousByte(t) = PreviousByte(t)
  /\ \A r, k : Text!Front(r, k) = Front(r, k)
  /\ \A s : /\ Text!AfterLiteral(s) = AfterLiteral(s) /\ Text!AfterMatch(s) = AfterMatch(s)
            /\ Text!AfterRep(s) = AfterRep(s) /\ Text!AfterShortRep(s) = AfterShortRep(s)
<1>1. \A t, d, n : Text!Extend(t, d, n) = Extend(t, d, n)  BY DEF Text!Extend, Extend
<1>2. \A t, d : Text!Back(t, d) = Back(t, d)  BY DEF Text!Back, Back
<1>3. \A t : Text!PreviousByte(t) = PreviousByte(t)
  BY DEF Text!PreviousByte, PreviousByte, Text!Back, Back
<1>4. \A r, k : Text!Front(r, k) = Front(r, k)  BY DEF Text!Front, Front
<1>5. \A s : /\ Text!AfterLiteral(s) = AfterLiteral(s) /\ Text!AfterMatch(s) = AfterMatch(s)
             /\ Text!AfterRep(s) = AfterRep(s) /\ Text!AfterShortRep(s) = AfterShortRep(s)
  BY DEF Text!AfterLiteral, AfterLiteral, Text!AfterMatch, AfterMatch,
         Text!AfterRep, AfterRep, Text!AfterShortRep, AfterShortRep
<1>6. QED BY <1>1, <1>2, <1>3, <1>4, <1>5

LEMMA InitSeen == Init => Text!Init
<1>1. SUFFICES ASSUME Init PROVE Text!Init  OBVIOUS
<1>2. PICK extra \in {0, 1} : cur = Fresh(extra)  BY <1>1 DEF Init
<1>3. /\ cur.reps = <<1, 1, 1, 1>> /\ cur.state = 0 /\ cur.previousIsMatch = FALSE
      /\ cur.ExtraBytes = extra /\ cur.RemainLen = 0
  BY <1>2 DEF Fresh
<1>4. text = <<>> /\ pc = "caller" /\ ctx = <<>>  BY <1>1 DEF Init
<1>5. Owed = 0  BY <1>3 DEF Owed
<1>6. text \in Seq(Byte)  BY <1>4
<1>7. Extend(text, cur.reps[1], Owed) = <<>>  BY <1>4, <1>5, <1>6, ExtendZero
<1>8. QED BY <1>3, <1>4, <1>7 DEF Text!Init

LEMMA DecoderInitSeen == ASSUME IInv, LzmaDecoderInit PROVE Text!Restart
<1>1. PICK extra \in {0, 1} : cur' = Fresh(extra)  BY DEF LzmaDecoderInit
<1>2. /\ cur'.reps = <<1, 1, 1, 1>> /\ cur'.state = 0 /\ cur'.previousIsMatch = FALSE
      /\ cur'.ExtraBytes = extra /\ cur'.RemainLen = 0
  BY <1>1 DEF Fresh
<1>3. text' = <<>> /\ pc' = "caller" /\ ctx' = <<>>  BY DEF LzmaDecoderInit
<1>4. Owed' = 0  BY <1>2 DEF Owed
<1>5. <<>> \in Seq(Byte)  OBVIOUS
<1>6. Whole' = <<>>  BY <1>3, <1>4, <1>5, ExtendZero DEF Whole
<1>7. Status # "run"  BY DEF LzmaDecoderInit, IInv, Counted, Status
<1>8. Status' = "run"  BY <1>2, <1>3 DEF Status
<1>9. QED BY <1>2, <1>3, <1>6, <1>7, <1>8 DEF Text!Restart, Whole, Status

(* A step that copies a byte makes the text longer by one that was owed.   *)
LEMMA CopySeen == ASSUME IInv, PendingCopy \/ CopyByte PROVE Seen' = Seen
<1> DEFINE r == cur.reps[1]
           n == cur.RemainLen
<1>1. /\ cur \in State /\ n \in Nat \ {0} /\ pc \in {"pending", "copy"}
      /\ pc' \in {"pending", "copy", "decode"} /\ ctx' = ctx
  BY StateFields DEF IInv, TypeOK, Remains, PendingCopy, CopyByte
<1>2. r \in 1 .. DictionarySize /\ r <= Len(text) /\ text \in Seq(Byte)
  BY <1>1, StateFields DEF IInv, TypeOK, Reachable, Alive, Remains
<1>3. text' = Append(text, Back(text, r))
  BY <1>2, SourceByte DEF IInv, PendingCopy, CopyByte, Emit
<1>4. /\ cur'.RemainLen = n - 1 /\ cur'.reps = cur.reps /\ cur'.state = cur.state
      /\ cur'.previousIsMatch = cur.previousIsMatch /\ cur'.ExtraBytes = cur.ExtraBytes
  BY <1>1 DEF State, PendingCopy, CopyByte
<1>5. Owed = n /\ Owed' = n - 1  BY <1>1, <1>4 DEF Owed
<1>6. Whole' = Extend(Append(text, Back(text, r)), r, n - 1)
  BY <1>3, <1>4, <1>5 DEF Whole
<1>7. r \in 1 .. Len(text)  BY <1>2
<1>8. Whole' = Whole  BY <1>1, <1>2, <1>5, <1>6, <1>7, ExtendMore DEF Whole
<1>9. Status' = Status  BY <1>1, <1>4 DEF Status
<1>10. QED BY <1>1, <1>4, <1>8, <1>9 DEF Seen

LEMMA CallSeen ==
  ASSUME IInv, (\E n \in 0 .. MaxCall : Call(n)) \/ PendingDone \/ Return
  PROVE  Seen' = Seen
<1>1. text' = text /\ ctx' = ctx /\ pc # "error" /\ pc' # "error"
  BY DEF Call, PendingDone, Return
<1>2. /\ cur'.reps = cur.reps /\ cur'.state = cur.state
      /\ cur'.previousIsMatch = cur.previousIsMatch /\ cur'.ExtraBytes = cur.ExtraBytes
      /\ cur'.RemainLen = cur.RemainLen
  <2>1. CASE cur' = cur  BY <2>1
  <2>2. CASE Return  BY <2>2 DEF Return, IInv, TypeOK, State
  <2>3. QED BY <2>1, <2>2 DEF Call, PendingDone, IInv, Counted
<1>3. Owed' = Owed /\ Status' = Status  BY <1>1, <1>2 DEF Owed, Status
<1>4. QED BY <1>1, <1>2, <1>3 DEF Seen, Whole

(* At the head of the main loop nothing is owed.                           *)
LEMMA TurnSeen ==
  ASSUME IInv, Turn
  PROVE  Owed = 0 /\ Whole = text /\ Status = "run"
<1>1. Owed = 0 /\ Status = "run" /\ text \in Seq(Byte)  BY AtTurn DEF Owed, Status
<1>2. QED BY <1>1, ExtendZero DEF Whole

LEMMA TruncatedSeen == ASSUME IInv, Truncated PROVE Text!Truncated
<1>1. Turn /\ text' = text /\ cur' = cur /\ ctx' = ctx /\ pc' = "error"
      /\ cur.ExtraBytes # 0
  BY DEF Truncated, DataError
<1>2. Whole = text /\ Status = "run" /\ text \in Seq(Byte) /\ cur \in State
  BY <1>1, TurnSeen, AtTurn
<1>3. cur.ExtraBytes = 1  BY <1>1, <1>2, StateFields
<1>4. Owed' = 0 /\ Status' = "error"  BY <1>1 DEF Owed, Status
<1>5. Whole' = text  BY <1>1, <1>2, <1>4, ExtendZero DEF Whole
<1>6. QED BY <1>1, <1>2, <1>3, <1>4, <1>5 DEF Text!Truncated, Whole, Status

LEMMA LiteralSeen ==
  ASSUME IInv, NEW b \in Byte, Literal(b) PROVE Text!Literal(b)
<1>1. Turn /\ cur.ExtraBytes = 0 /\ pc' = pc /\ text' = Append(text, b)
  BY DEF Literal, Emit
<1>2. /\ pc = "decode" /\ cur \in State /\ cur.RemainLen = 0 /\ Pos = Len(text)
      /\ text \in Seq(Byte) /\ previousByte = PreviousByte(text)
      /\ cur.reps[1] \in 1 .. DictionarySize
      /\ cur.reps[1] <= IF text = <<>> THEN 1 ELSE Len(text)
      /\ cur.previousIsMatch => text # <<>>
  BY <1>1, AtTurn
<1>3. Whole = text /\ Status = "run"  BY <1>1, TurnSeen
<1>4. PICK extra \in {0, 1} :
        cur' = [cur EXCEPT !.state = AfterLiteral(@), !.previousIsMatch = FALSE,
                           !.dictionaryPos = Advance(@), !.ExtraBytes = extra]
  BY DEF Literal
<1>5. /\ cur'.state = AfterLiteral(cur.state) /\ cur'.previousIsMatch = FALSE
      /\ cur'.reps = cur.reps /\ cur'.RemainLen = 0 /\ cur'.ExtraBytes = extra
  BY <1>2, <1>4 DEF State
<1>6. Owed' = 0 /\ Status' = "run"  BY <1>1, <1>2, <1>5 DEF Owed, Status
<1>7. Whole' = Append(text, b)
  <2>1. text' \in Seq(Byte)  BY <1>1, <1>2
  <2>2. Whole' = text'  BY <1>6, <2>1, ExtendZero DEF Whole
  <2>3. QED BY <1>1, <2>2
<1>8. cur.previousIsMatch => dictionary[Source(cur.reps[1])] = Back(text, cur.reps[1])
  BY <1>2, SourceByte DEF IInv
<1>9. ctx' = <<Len(text), cur.state, PreviousByte(text)>>
               \o (IF cur.previousIsMatch THEN <<Back(text, cur.reps[1])>> ELSE <<>>)
  BY <1>2, <1>8 DEF Literal
<1>10. QED BY <1>1, <1>3, <1>5, <1>6, <1>7, <1>9, TextRules
           DEF Text!Literal, Text!Decode, Whole, Status

LEMMA ShortRepSeen == ASSUME IInv, ShortRep PROVE Text!ShortRep
<1>1. Turn /\ cur.ExtraBytes = 0 /\ ctx' = <<Pos, cur.state>>  BY DEF ShortRep
<1>2. /\ pc = "decode" /\ cur \in State /\ cur.RemainLen = 0 /\ Pos = Len(text)
      /\ text \in Seq(Byte) /\ cur.reps[1] \in 1 .. DictionarySize
      /\ cur.reps[1] <= IF text = <<>> THEN 1 ELSE Len(text)
  BY <1>1, AtTurn
<1>3. Whole = text /\ Status = "run"  BY <1>1, TurnSeen
<1>4. PICK extra \in {0, 1} :
        \/ /\ Pos = 0
           /\ cur' = [cur EXCEPT !.previousIsMatch = TRUE, !.ExtraBytes = extra]
           /\ pc' = "error" /\ text' = text
        \/ /\ Pos # 0
           /\ cur' = [cur EXCEPT !.state = AfterShortRep(@), !.previousIsMatch = TRUE,
                                 !.dictionaryPos = Advance(@), !.ExtraBytes = extra]
           /\ previousByte' = dictionary[Source(cur.reps[1])]
           /\ text' = Append(text, previousByte') /\ pc' = pc
  BY DEF ShortRep, DataError, Emit
<1>5. /\ cur'.previousIsMatch = TRUE /\ cur'.reps = cur.reps /\ cur'.RemainLen = 0
      /\ cur'.ExtraBytes = extra
  BY <1>2, <1>4 DEF State
<1>6. Owed' = 0  BY <1>5 DEF Owed
<1>7. CASE Pos = 0
  <2>1. text = <<>>  BY <1>2, <1>7
  <2>2. text' = text /\ pc' = "error" /\ cur'.state = cur.state
    BY <1>2, <1>4, <1>7 DEF State
  <2>3. Whole' = text  BY <1>2, <1>6, <2>2, ExtendZero DEF Whole
  <2>4. Status' = "error"  BY <2>2 DEF Status
  <2>5. QED BY <1>1, <1>2, <1>3, <1>5, <2>1, <2>2, <2>3, <2>4
            DEF Text!ShortRep, Text!Decode, Whole, Status
<1>8. CASE Pos # 0
  <2>1. text # <<>> /\ cur.reps[1] <= Len(text)  BY <1>2, <1>8
  <2>2. dictionary[Source(cur.reps[1])] = Back(text, cur.reps[1])
        /\ Back(text, cur.reps[1]) \in Byte
    BY <1>2, <2>1, SourceByte DEF IInv
  <2>3. text' = Append(text, Back(text, cur.reps[1])) /\ pc' = "decode"
        /\ cur'.state = AfterShortRep(cur.state)
    BY <1>2, <1>4, <1>8, <2>2 DEF State
  <2>4. text' \in Seq(Byte)  BY <1>2, <2>2, <2>3
  <2>5. Whole' = text'  BY <1>6, <2>4, ExtendZero DEF Whole
  <2>6. Status' = "run"  BY <1>5, <2>3 DEF Status
  <2>7. QED BY <1>1, <1>2, <1>3, <1>5, <2>1, <2>3, <2>5, <2>6, TextRules
            DEF Text!ShortRep, Text!Decode, Whole, Status
<1>9. QED BY <1>7, <1>8

LEMMA MatchSeen ==
  ASSUME IInv, NEW r \in [1 .. 4 -> 0 .. DictionarySize], NEW n \in Length,
         NEW next, Match(r, n, next)
  PROVE  Text!Decode /\ cur'.state = next /\ Text!Copy(r, n)
<1>1. Turn /\ cur.ExtraBytes = 0 /\ ctx' = <<Pos, cur.state>> /\ text' = text
  BY DEF Match
<1>2. /\ pc = "decode" /\ cur \in State /\ Pos = Len(text)
      /\ text \in Seq(Byte) /\ Len(text) \in Nat
  BY <1>1, AtTurn
<1>3. Whole = text /\ Status = "run"  BY <1>1, TurnSeen
<1>4. PICK extra \in {0, 1}, len \in {-1, n} :
        /\ len = -1 <=> r[1] = 0
        /\ cur' = [cur EXCEPT !.reps = r, !.state = next, !.previousIsMatch = TRUE,
                              !.ExtraBytes = extra, !.RemainLen = len]
  BY DEF Match
<1>5. /\ cur'.reps = r /\ cur'.state = next /\ cur'.previousIsMatch = TRUE
      /\ cur'.ExtraBytes = extra /\ cur'.RemainLen = len
  BY <1>2, <1>4 DEF State
<1>6. n \in Nat \ {0}  BY SizeAssumption
<1>7. Text!Decode  BY <1>1, <1>3, <1>5 DEF Text!Decode, Status
<1>8. /\ Whole' = IF pc' = "error" \/ len = -1 THEN text ELSE Extend(text, r[1], n)
      /\ Status' = IF pc' = "error" THEN "error" ELSE IF len = -1 THEN "eos" ELSE "run"
  <2>1. Owed' = IF pc' = "error" \/ len = -1 THEN 0 ELSE n
    BY <1>4, <1>5, <1>6 DEF Owed
  <2>2. Extend(text, r[1], 0) = text  BY <1>2, ExtendZero
  <2>3. QED BY <1>1, <1>4, <1>5, <2>1, <2>2 DEF Whole, Status
<1>9. \/ r[1] = 0 /\ pc' = "return"
      \/ r[1] > Len(text) /\ pc' = "error"
      \/ r[1] \in 1 .. Len(text) /\ pc' = "copy"
  BY <1>2 DEF Match, DataError
<1>10. \/ r[1] = 0 /\ Status' = "eos" /\ Whole' = Whole
       \/ r[1] > Len(text) /\ Status' = "error" /\ Whole' = Whole
       \/ r[1] \in 1 .. Len(text) /\ Status' = Status /\ Whole' = Extend(Whole, r[1], n)
  BY <1>2, <1>3, <1>4, <1>8, <1>9
<1>11. Text!Copy(r, n)
  BY <1>1, <1>2, <1>3, <1>5, <1>10, TextRules DEF Text!Copy, Whole, Status
<1>12. QED BY <1>5, <1>7, <1>11

LEMMA RepMatchSeen ==
  ASSUME IInv, NEW k \in 1 .. 4, NEW n \in Length, RepMatch(k, n)
  PROVE  Text!RepMatch(k, n)
<1>1. Turn  BY DEF RepMatch, Match
<1>2. Front(cur.reps, k) \in [1 .. 4 -> 0 .. DictionarySize]
  BY <1>1, AtTurn DEF Front
<1>3. Text!Decode /\ cur'.state = AfterRep(cur.state)
      /\ Text!Copy(Front(cur.reps, k), n)
  BY <1>2, MatchSeen DEF RepMatch
<1>4. QED BY <1>3, TextRules DEF Text!RepMatch

LEMMA NewMatchSeen ==
  ASSUME IInv, NEW dist \in 0 .. DictionarySize, NEW n \in Length, NewMatch(dist, n)
  PROVE  Text!Match(dist, n)
<1>1. Turn  BY DEF NewMatch, Match
<1> DEFINE r == <<dist, cur.reps[1], cur.reps[2], cur.reps[3]>>
<1>2. r \in [1 .. 4 -> 0 .. DictionarySize]  BY <1>1, AtTurn
<1>3. Text!Decode /\ cur'.state = AfterMatch(cur.state) /\ Text!Copy(r, n)
  BY <1>2, MatchSeen DEF NewMatch
<1>4. QED BY <1>3, TextRules DEF Text!Match

(* Every step of the decoder is a step of LzmaText or leaves what it sees  *)
(* as it is.                                                               *)
LEMMA NextSeen == IInv /\ [Next]_vars => [Text!Next]_(Text!vars)
<1>1. SUFFICES ASSUME IInv, [Next]_vars PROVE Text!Next \/ Seen' = Seen
  BY DEF Text!vars, Seen, Whole, Status
<1>2. CASE UNCHANGED vars  BY <1>2 DEF vars, Seen, Whole, Owed, Status
<1>3. CASE LzmaDecoderInit  BY <1>1, <1>3, DecoderInitSeen DEF Text!Next
<1>4. CASE (\E n \in 0 .. MaxCall : Call(n)) \/ PendingDone \/ Return
  BY <1>1, <1>4, CallSeen
<1>5. CASE PendingCopy \/ CopyByte  BY <1>1, <1>5, CopySeen
<1>6. CASE Truncated  BY <1>1, <1>6, TruncatedSeen DEF Text!Next
<1>7. CASE \E b \in Byte : Literal(b)  BY <1>1, <1>7, LiteralSeen DEF Text!Next
<1>8. CASE ShortRep  BY <1>1, <1>8, ShortRepSeen DEF Text!Next
<1>9. CASE \E k \in 1 .. 4, n \in Length : RepMatch(k, n)
  BY <1>1, <1>9, RepMatchSeen DEF Text!Next
<1>10. CASE \E dist \in 0 .. DictionarySize, n \in Length : NewMatch(dist, n)
  <2>1. 0 .. DictionarySize = (1 .. DictionarySize) \cup {0}  BY SizeAssumption
  <2>2. PICK dist \in 0 .. DictionarySize, n \in Length : NewMatch(dist, n)  BY <1>10
  <2>3. Text!Match(dist, n)  BY <1>1, <2>2, NewMatchSeen
  <2>4. QED BY <2>1, <2>3 DEF Text!Next
<1>11. QED
  BY <1>1, <1>2, <1>3, <1>4, <1>5, <1>6, <1>7, <1>8, <1>9, <1>10 DEF Next, Step

(* However the caller divides the text into calls, the decoder delivers    *)
(* the text that the one-shot decoder delivers, and decodes each symbol in *)
(* the same context.                                                       *)
THEOREM StreamImplementsText == Spec => TextSpec
<1>1. Init => Text!Init  BY InitSeen
<1>2. QED BY Invariant, <1>1, NextSeen, PTL DEF Spec, TextSpec, Text!Spec
=============================================================================
