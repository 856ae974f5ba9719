----------------------------- MODULE LpaqCoder -----------------------------
(***************************************************************************)
(* The program of src/LPAQ1v2 as main runs it: once to compress a file     *)
(* into an archive, and again to decompress it.  The coder of Encoder.c    *)
(* asks the model of LpaqPredictor for a prediction of each bit; what      *)
(* number the mixer makes of its contexts is arbitrary, but the same when  *)
(* the contexts are the same.  A call of code() is an Encode or a Decode   *)
(* and one Shift for each turn of its while loop.                          *)
(*                                                                         *)
(* The archive starts after the header.  Reading past its end gives EOF,   *)
(* of which the code keeps the low eight bits: a byte of ones.  A byte of  *)
(* the archive and a byte of the file are scaled apart from each other.    *)
(***************************************************************************)
EXTENDS LpaqPredictor

CONSTANTS
  ByteBase,     \* 256, for the archive
  Top,          \* 1 << 24: the weight of the byte that leaves the interval
  Scale,        \* 4096: predictions are in 0 .. Scale - 1
  Prediction,   \* the predictions the mixer can make
  Checks,       \* check bytes
  Files,        \* bound: the files, each a sequence of bytes
  FreeBits(_)   \* bound: in a file the first bits with any prediction

ASSUME WidthAssumption ==
  /\ ByteBase \in Nat /\ ByteBase >= 2
  /\ Top = ByteBase * ByteBase * ByteBase
  /\ Scale \in Nat /\ Scale >= 2
  /\ Prediction \subseteq 0 .. Scale - 1 /\ Scale \div 2 \in Prediction
  /\ \A f \in Files : f \in Seq(0 .. Octets - 1)

VARIABLES
  file,      \* what is compressed
  phase,     \* "compress", "decompress" or "done"
  x1, x2,    \* of the Encoder that is running
  x,         \* the decompressor's window on the archive
  archive,   \* the bytes written
  next,      \* index of the next byte the decompressor reads
  sent,      \* number of bits compressed
  pd,        \* the model of the program that is running
  pr, seen,  \* pr[i]: what was predicted after bit i, of the contexts seen[i]
  e_pr,      \* e->pr
  got        \* the bits decompressed

vars == <<file, phase, x1, x2, x, archive, next, sent, pd, pr, seen, e_pr, got>>

Bits == ByteBits * Len(file)
BitAt(i) == (file[1 + (i - 1) \div ByteBits] \div 2 ^ (ByteBits - 1 - ((i - 1) % ByteBits))) % 2

Byte == 0 .. ByteBase - 1
Word == ByteBase * Top
MaxWord == Word - 1                    \* 0xffffffff
Window == 4                            \* bytes of x that the constructor reads

-----------------------------------------------------------------------------
(* Mutated: every prediction is raised. *)
AlwaysRaised(p) == p + 1

(* p += p < 2048 *)
Raised(p) == IF p < Scale \div 2 THEN p + 1 ELSE p

(* The last value of the part of low..high that is given to a 1. *)
Mid(low, high, p) ==
  LET width == high - low
  IN  low + (width \div Scale) * Raised(p) + ((width % Scale) * Raised(p)) \div Scale

(* ((x1 ^ x2) & 0xff000000) == 0 *)
SameTop(low, high) == low \div Top = high \div Top

(* w <<= 8 with b shifted in *)
ShiftIn(w, b) == (w % Top) * ByteBase + b

(* Mutated: a byte past the end of the archive is zero. *)
ZeroPastEnd(i) == IF i <= Len(archive) THEN archive[i] ELSE 0

(* getc(archive) & 255 *)
Getc(i) == IF i <= Len(archive) THEN archive[i] ELSE ByteBase - 1

-----------------------------------------------------------------------------
Init ==
  /\ file \in Files
  /\ phase = "compress"
  /\ x1 = 0 /\ x2 = MaxWord /\ x = 0
  /\ archive = <<>> /\ next = 1
  /\ sent = 0 /\ got = <<>>
  /\ pd = NewPredictor /\ e_pr = Scale \div 2 /\ pr = <<>> /\ seen = <<>>

(* A bit is coded once the previous one has left the while loop. *)
Normalised == ~SameTop(x1, x2)

(* y ? (e->x2 = xmid) : (e->x1 = xmid + 1) *)
Narrow(y, p) ==
  IF y = 1 THEN x2' = Mid(x1, x2, p) /\ UNCHANGED x1
           ELSE x1' = Mid(x1, x2, p) + 1 /\ UNCHANGED x2

(* A prediction when it is not any: that of the match, or even. *)
Guess(p) ==
  IF p.len = 0 THEN Scale \div 2 ELSE IF Expected(p) = 1 THEN Scale - 1 ELSE 0

(* e->pr = update(y), in the compressor *)
Predict(y) ==
  LET new == Update(pd, y)
  IN  /\ pd' = new
      /\ \E p \in IF sent < FreeBits(file) THEN Prediction ELSE {Guess(new)} :
           e_pr' = p /\ pr' = Append(pr, p) /\ seen' = Append(seen, Seen(new))

Encode ==
  /\ phase = "compress" /\ Normalised
  /\ sent < Bits
  /\ sent' = sent + 1
  /\ Narrow(BitAt(sent + 1), e_pr)
  /\ Predict(BitAt(sent + 1))
  /\ UNCHANGED <<file, phase, x, archive, next, got>>

EncodeShift ==
  /\ phase = "compress" /\ ~Normalised
  /\ archive' = Append(archive, x2 \div Top)
  /\ x1' = ShiftIn(x1, 0) /\ x2' = ShiftIn(x2, ByteBase - 1)
  /\ UNCHANGED <<file, phase, x, next, sent, pd, pr, seen, e_pr, got>>

(* The constructor's loop: x from the first four bytes. *)
Open(bytes) ==
  ShiftIn(ShiftIn(ShiftIn(bytes[1], bytes[2]), bytes[3]), bytes[4])

(* The end of the input: flush() writes one byte, and the program is run   *)
(* again to decompress.                                                    *)
Flush ==
  /\ phase = "compress" /\ Normalised
  /\ sent = Bits
  /\ archive' = Append(archive, x1 \div Top)
  /\ phase' = "decompress"
  /\ x1' = 0 /\ x2' = MaxWord
  /\ x' = Open([i \in 1 .. Window |-> Getc(i)'])
  /\ next' = Window + 1
  /\ pd' = NewPredictor /\ e_pr' = Scale \div 2
  /\ UNCHANGED <<file, sent, pr, seen, got>>

(* Mutated: update() is given the argument of code(), not the bit decoded. *)
RepredictZero(y) ==
  LET new == Update(pd, 0)
      i == Len(got) + 1
  IN  /\ pd' = new
      /\ e_pr' \in IF seen[i] = Seen(new) THEN {pr[i]} ELSE Prediction

(* e->pr = update(y), in the decompressor *)
Repredict(y) ==
  LET new == Update(pd, y)
      i == Len(got) + 1
  IN  /\ pd' = new
      /\ e_pr' \in IF seen[i] = Seen(new) THEN {pr[i]} ELSE Prediction

(* The header holds the length, so the decompressor asks for that much.    *)
Decode ==
  /\ phase = "decompress" /\ Normalised
  /\ Len(got) < Bits
  /\ \E y \in {IF x <= Mid(x1, x2, e_pr) THEN 1 ELSE 0} :
       /\ got' = Append(got, y)
       /\ Narrow(y, e_pr)
       /\ Repredict(y)
  /\ UNCHANGED <<file, phase, x, archive, next, sent, pr, seen>>

(* Mutated: the window does not move with the interval. *)
DecodeShiftKeepsX ==
  /\ phase = "decompress" /\ ~Normalised
  /\ x1' = ShiftIn(x1, 0) /\ x2' = ShiftIn(x2, ByteBase - 1)
  /\ next' = next + 1
  /\ UNCHANGED <<file, phase, x, archive, sent, pd, pr, seen, e_pr, got>>

DecodeShift ==
  /\ phase = "decompress" /\ ~Normalised
  /\ x1' = ShiftIn(x1, 0) /\ x2' = ShiftIn(x2, ByteBase - 1)
  /\ x' = ShiftIn(x, Getc(next))
  /\ next' = next + 1
  /\ UNCHANGED <<file, phase, archive, sent, pd, pr, seen, e_pr, got>>

Finish ==
  /\ phase = "decompress" /\ Normalised
  /\ Len(got) = Bits
  /\ phase' = "done"
  /\ UNCHANGED <<file, x1, x2, x, archive, next, sent, pd, pr, seen, e_pr, got>>

Next ==
  \/ Encode \/ EncodeShift \/ Flush
  \/ Decode \/ DecodeShift \/ Finish

Spec == Init /\ [][Next]_vars

-----------------------------------------------------------------------------
(* Whatever the model predicts, each of the two bits gets a part of the    *)
(* interval, down to the narrowest one the while loop leaves: two values   *)
(* on either side of a multiple of Top.                                    *)
BothBitsFit ==
  /\ x1 <= x2
  /\ Normalised => \A p \in Prediction : Mid(x1, x2, p) \in x1 .. x2 - 1

(* The file that is decompressed is the file that was compressed: the     *)
(* single byte that flush writes and the ones read past the end of the     *)
(* archive stand for the bytes that were never written, and the model of   *)
(* the decompressor, learning from the bits decoded, predicts alike.       *)
Lossless ==
  /\ \A i \in 1 .. Len(got) : got[i] = BitAt(i)
  /\ phase = "done" => Len(got) = Bits

(* The additions to a pointer give every way through the half of a byte a  *)
(* state of its own in the slot, which is not the check byte and not in    *)
(* the slot that follows.                                                  *)
StatePerPath ==
  LET d == pd.bcount % Nibble
      Bit(i) == (pd.c0 \div 2 ^ (d - 1 - i)) % 2
      path[i \in 0 .. d] == IF i = 0 THEN 2 ^ d ELSE path[i - 1] + Bit(i - 1) * 2 ^ (i - 1)
  IN  \A k \in Orders : pd.cp[k] # Unset => pd.cp[k].at = path[d]

(* In every table the program comes to, t() replaces a slot no better than *)
(* each of the three it looked at; and after a bit was learned there, the  *)
(* next call for the same context finds it, unless the slot was the fourth *)
(* of the group, where t() never looks.                                    *)
ReplacementSound ==
  \A s \in 0 .. Slots - 1, chk \in Checks :
    LET first == Get(pd.ht, s, chk)
        learned == [first.ht EXCEPT ![first.slot].state[1] = nex(@, 0)]
        again == Get(learned, s, chk)
    IN  /\ \/ Holds(pd.ht, s, chk) # {}
           \/ \A v \in Probed(s) : Priority(pd.ht, first.slot) <= Priority(pd.ht, v)
        /\ first.slot \in Probed(s) => again = [ht |-> learned, slot |-> first.slot]

(* A match that is followed agrees with the end of the text over its whole *)
(* length, as far as the ring still holds it, but for the last bit of each *)
(* byte, which is followed without being compared.                         *)
MatchAgrees ==
  \A j \in 0 .. pd.len - 1 :
    j < Ring(pd.match - pd.pos) =>
      pd.buf[Ring(pd.match - 1 - j)] \div 2 = pd.buf[Ring(pd.pos - 1 - j)] \div 2
=============================================================================
