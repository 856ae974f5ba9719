----------------------------- MODULE CacmCoder -----------------------------
(***************************************************************************)
(* The arithmetic coder of src/arithmetic.coding/cacm-87.shar as the two   *)
(* programs use it: encode.c compresses its input, decode.c decompresses   *)
(* what arrives of the result (the end of it may be lost on the way).      *)
(* Both adapt a model of their own, and the decoder stops at EOF_symbol,   *)
(* not at the end of its input: it reads on past the end, where bit_input  *)
(* invents bits up to a limit.                                             *)
(*                                                                         *)
(* encode_symbol and decode_symbol are one action that narrows the region, *)
(* one action for each turn of the loop that gets rid of bits, and one for *)
(* what main does next.  Bits are packed and unpacked lowest first, so the *)
(* bytes are kept as the sequence of their bits.                           *)
(***************************************************************************)
EXTENDS CacmModel, Sequences

CONSTANTS
  Code_value_bits,   \* 16
  First_qtr,         \* a quarter of the 2^Code_value_bits code values
  ByteBits,          \* 8
  MaxChars,          \* bound: length of the encoder's input
  MaxLost            \* bound: bytes lost from the end of the archive

ASSUME CodeAssumption ==
  /\ Code_value_bits \in Nat /\ Code_value_bits >= 3
  /\ First_qtr \in Nat /\ 4 * First_qtr = 2 ^ Code_value_bits
  /\ Max_frequency < First_qtr
  /\ ByteBits \in Nat \ {0} /\ MaxChars \in Nat /\ MaxLost \in Nat

VARIABLES
  phase,
  low, high, bits_to_follow, value,   \* of the program that is running
  m,                                  \* its model
  symbol,                             \* the symbol being coded
  archive,                            \* the bits written
  input,                              \* the bits read by the decoder
  garbage_bits,
  lost,                               \* bytes the archive has lost
  sent, got                           \* the encoder's input, the decoder's output

vars == <<phase, low, high, bits_to_follow, value, m, symbol, archive, input,
          garbage_bits, lost, sent, got>>

Top_value == 4 * First_qtr - 1
Half == 2 * First_qtr
Third_qtr == 3 * First_qtr

-----------------------------------------------------------------------------
(* The region of symbol s; rounded so that neighbours share no value. *)
Region(s) ==
  LET range == high - low + 1
      cum == m.cum_freq
  IN  <<low + (range * cum[s]) \div cum[0],
        low + (range * cum[s - 1]) \div cum[0] - 1>>

Narrow(s) == low' = Region(s)[1] /\ high' = Region(s)[2]

LowHalf == high < Half
HighHalf == low >= Half

(* Mutated: the middle half is not expanded. *)
NoMiddle == FALSE

Middle == ~LowHalf /\ ~HighHalf /\ low >= First_qtr /\ high < Third_qtr
Settled == ~LowHalf /\ ~HighHalf /\ ~Middle

(* What the expanded half starts at. *)
Offset == IF LowHalf THEN 0 ELSE IF HighHalf THEN Half ELSE First_qtr

Expand ==
  /\ low' = 2 * (low - Offset)
  /\ high' = 2 * (high - Offset) + 1

Opposite(bit) == 1 - bit
Repeat(bit, n) == [i \in 1 .. n |-> bit]

(* bit_plus_follow: the bit, then the opposite bits that are due. *)
BitPlusFollow(bit, n) == <<bit>> \o Repeat(Opposite(bit), n)

(* done_outputing_bits: the last byte is filled up with zeros, and when no *)
(* bit waits in the buffer a byte of zeros is written.                     *)
Filled(bits) == bits \o Repeat(0, ByteBits - (Len(bits) % ByteBits))

-----------------------------------------------------------------------------
Init ==
  /\ phase = "encode"
  /\ low = 0 /\ high = Top_value /\ bits_to_follow = 0 /\ value = 0
  /\ m = start_model
  /\ symbol = 0
  /\ archive = <<>> /\ input = 0 /\ garbage_bits = 0 /\ lost = 0
  /\ sent = <<>> /\ got = <<>>

EncodeChar(ch) ==
  /\ phase = "encode" /\ Len(sent) < MaxChars
  /\ sent' = Append(sent, ch)
  /\ symbol' = m.char_to_index[ch]
  /\ Narrow(symbol')
  /\ phase' = "encode_loop"
  /\ UNCHANGED <<bits_to_follow, value, m, archive, input, garbage_bits, lost, got>>

EncodeEOF ==
  /\ phase = "encode"
  /\ symbol' = EOF_symbol
  /\ Narrow(symbol')
  /\ phase' = "encode_loop"
  /\ UNCHANGED <<bits_to_follow, value, m, archive, input, garbage_bits, lost,
                 sent, got>>

EncodeBits ==
  /\ phase = "encode_loop" /\ ~Settled
  /\ \/ /\ ~Middle
        /\ archive' = archive \o BitPlusFollow(IF LowHalf THEN 0 ELSE 1, bits_to_follow)
        /\ bits_to_follow' = 0
     \/ /\ Middle
        /\ bits_to_follow' = bits_to_follow + 1
        /\ UNCHANGED archive
  /\ Expand
  /\ UNCHANGED <<phase, value, m, symbol, input, garbage_bits, lost,
                 sent, got>>

EncodeNext ==
  /\ phase = "encode_loop" /\ Settled /\ symbol # EOF_symbol
  /\ m' = update_model(m, symbol)
  /\ phase' = "encode" /\ symbol' = 0
  /\ UNCHANGED <<low, high, bits_to_follow, value, archive, input, garbage_bits,
                 lost, sent, got>>

(* done_encoding selects a quarter inside the region, and the decoder is   *)
(* started on the archive without its last `lost' bytes.                   *)
EncodeDone ==
  /\ phase = "encode_loop" /\ Settled /\ symbol = EOF_symbol
  /\ LET last == IF low < First_qtr THEN 0 ELSE 1
         file == Filled(archive \o BitPlusFollow(last, bits_to_follow + 1))
     IN  /\ lost' \in 0 .. MaxLost
         /\ lost' * ByteBits <= Len(file)
         /\ archive' = SubSeq(file, 1, Len(file) - lost' * ByteBits)
  /\ phase' = "start_decoding"
  /\ low' = 0 /\ high' = Top_value /\ bits_to_follow' = 0 /\ value' = 0
  /\ m' = start_model /\ symbol' = 0
  /\ input' = 0 /\ garbage_bits' = 0
  /\ UNCHANGED <<sent, got>>

-----------------------------------------------------------------------------
(* input_bit: a byte is read when the last one is used up.  At the end of  *)
(* the archive the byte is EOF, whose low bits are ones, until too many    *)
(* such bytes were asked for: "Bad input file", and the program exits.     *)
Refill == input % ByteBits = 0
AtEnd == input >= Len(archive)

(* Mutated: the end of the archive is an error. *)
AnyGarbage == Refill /\ AtEnd

TooMuchGarbage == Refill /\ AtEnd /\ garbage_bits + 1 > Code_value_bits - 2

(* EOF is -1: its low bits are ones. *)
input_bit == IF AtEnd THEN 1 ELSE archive[input + 1]

CountInput ==
  /\ ~TooMuchGarbage
  /\ input' = input + 1
  /\ garbage_bits' = IF Refill /\ AtEnd THEN garbage_bits + 1 ELSE garbage_bits

start_decoding ==
  /\ phase = "start_decoding" /\ input < Code_value_bits
  /\ CountInput
  /\ value' = 2 * value + input_bit
  /\ phase' = IF input + 1 = Code_value_bits THEN "decode" ELSE phase
  /\ UNCHANGED <<low, high, bits_to_follow, m, symbol, archive, lost, sent, got>>

(* Mutated: the value is taken for the first of its code values. *)
CumOfValueLow ==
  ((value - low) * m.cum_freq[0] - 1) \div (high - low + 1)

(* The frequency that the value stands for. *)
CumOfValue ==
  ((value - low + 1) * m.cum_freq[0] - 1) \div (high - low + 1)

DecodeSymbol ==
  /\ phase = "decode"
  /\ symbol' = CHOOSE s \in Symbol : /\ m.cum_freq[s] <= CumOfValue
                                     /\ \A r \in 1 .. s - 1 : m.cum_freq[r] > CumOfValue
  /\ Narrow(symbol')
  /\ phase' = "decode_loop"
  /\ UNCHANGED <<bits_to_follow, value, m, archive, input, garbage_bits, lost,
                 sent, got>>

(* Mutated: the value is not moved with the region. *)
DecodeBitsKeepValue ==
  /\ phase = "decode_loop" /\ ~Settled
  /\ CountInput
  /\ Expand
  /\ value' = 2 * (value - (IF Middle THEN 0 ELSE Offset)) + input_bit
  /\ UNCHANGED <<phase, bits_to_follow, m, symbol, archive, lost, sent, got>>

DecodeBits ==
  /\ phase = "decode_loop" /\ ~Settled
  /\ CountInput
  /\ Expand
  /\ value' = 2 * (value - Offset) + input_bit
  /\ UNCHANGED <<phase, bits_to_follow, m, symbol, archive, lost, sent, got>>

DecodeNext ==
  /\ phase = "decode_loop" /\ Settled
  /\ \/ /\ symbol = EOF_symbol
        /\ phase' = "done"
        /\ UNCHANGED <<m, got>>
     \/ /\ symbol # EOF_symbol
        /\ got' = Append(got, m.index_to_char[symbol])
        /\ m' = update_model(m, symbol)
        /\ phase' = "decode"
  /\ UNCHANGED <<low, high, bits_to_follow, value, symbol, archive, input,
                 garbage_bits, lost, sent>>

(* Mutated: the read is tried again. *)
RetryInput ==
  /\ phase = "start_decoding" \/ (phase = "decode_loop" /\ ~Settled)
  /\ TooMuchGarbage
  /\ UNCHANGED vars

BadInput ==
  /\ phase = "start_decoding" \/ (phase = "decode_loop" /\ ~Settled)
  /\ TooMuchGarbage
  /\ phase' = "bad"
  /\ UNCHANGED <<low, high, bits_to_follow, value, m, symbol, archive, input,
                 garbage_bits, lost,
                 sent, got>>

Next ==
  \/ \E ch \in Char : EncodeChar(ch)
  \/ EncodeEOF \/ EncodeBits \/ EncodeNext \/ EncodeDone
  \/ start_decoding \/ DecodeSymbol \/ DecodeBits \/ DecodeNext \/ BadInput

(* Both are sequential programs. *)
Spec == Init /\ [][Next]_vars /\ WF_vars(Next)

-----------------------------------------------------------------------------
Encoding == phase \in {"encode", "encode_loop"}

(* Each program's model stays consistent through halving and reordering.   *)
ModelConsistent == Consistent(m)

(* When the loop is left the region spans more than a quarter of the code  *)
(* values, so that every symbol of the model has a part of it; and the     *)
(* decoder's value is in its region for every input, damaged or not, so    *)
(* the search for the symbol always ends at one.                           *)
EverySymbolFits ==
  /\ low <= high
  /\ phase \in {"encode", "decode"} =>
       /\ high - low + 1 > First_qtr
       /\ \A s \in Symbol : Region(s)[1] <= Region(s)[2]
  /\ phase \in {"decode", "decode_loop"} => low <= value /\ value <= high

(* A complete archive is decompressed to the input of the encoder, and is  *)
(* never refused, although the decoder reads on after its end.             *)
Lossless ==
  lost = 0 => /\ phase # "bad"
              /\ \A i \in 1 .. Len(got) : got[i] = sent[i]
              /\ phase = "done" => got = sent

(* The decoder stops, at the end symbol or at the limit of garbage, also   *)
(* when the end symbol was lost.                                           *)
DecoderStops == phase = "start_decoding" ~> phase \in {"done", "bad"}

(* bit_input.c: garbage_bits is the "Number of bits past end-of-file", and *)
(* more than Code_value_bits-2 "such" are refused (cacm-87.shar:277, 296). *)
GarbageIsCountedInBits ==
  phase \notin {"encode", "encode_loop", "bad"}
    => input - Len(archive) <= Code_value_bits - 2
=============================================================================
