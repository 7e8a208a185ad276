-------------------------------- MODULE Base32 --------------------------------
(* base32_encode (iota/bech32.c): bytes are shifted into a word and taken out of  *)
(* it in symbols of five bits; what is left at the end is filled up with zeros.   *)
(* One action per turn of a loop.                                                 *)
EXTENDS Integers, Sequences

CONSTANTS
  Inputs,            \* byte strings to encode
  OutMax,            \* room for symbols, *out_len
  WordMod            \* 2^32

ASSUME Base32Assumption ==
  /\ Inputs \subseteq Seq(0..255)
  /\ OutMax \in Nat
  /\ WordMod \in Nat /\ WordMod > 0 /\ WordMod % 8192 = 0

VARIABLES
  input,             \* in, of in_len bytes
  inx_idx,           \* bytes taken
  val,               \* the word, of which the low bits are waiting
  bits,              \* how many bits are waiting
  out,               \* symbols written
  result             \* "running", "encoded" or "failed": what is returned

base32Vars == <<input, inx_idx, val, bits, out, result>>

\* Powers of two up to the bits that can be waiting: 4 + 8.
Pow2 == [q \in 0..12 |->
  CASE q = 0 -> 1   [] q = 1 -> 2   [] q = 2 -> 4    [] q = 3 -> 8     [] q = 4 -> 16
    [] q = 5 -> 32  [] q = 6 -> 64  [] q = 7 -> 128  [] q = 8 -> 256   [] q = 9 -> 512
    [] q = 10 -> 1024 [] q = 11 -> 2048 [] q = 12 -> 4096]

Base32Init ==
  /\ input \in Inputs
  /\ inx_idx = 0 /\ val = 0 /\ bits = 0
  /\ out = <<>> /\ result = "running"

\* Mutant of ShiftedIn: the word is a byte.
ShiftedInByte(v, byte) == (v * 256 + byte) % 256

\* (val << inbits) | in[inx_idx]
ShiftedIn(v, byte) == (v * 256 + byte) % WordMod

TakeByte ==
  /\ result = "running" /\ bits < 5 /\ inx_idx < Len(input)
  /\ val' = ShiftedIn(val, input[inx_idx + 1])
  /\ bits' = bits + 8
  /\ inx_idx' = inx_idx + 1
  /\ UNCHANGED <<input, out, result>>

\* Append a symbol if there is room for it, and go on as next says.
Write(symbol, next) ==
  IF Len(out) >= OutMax THEN result' = "failed" /\ UNCHANGED out
                        ELSE result' = next /\ out' = Append(out, symbol)

EmitSymbol ==
  /\ result = "running" /\ bits >= 5
  /\ bits' = bits - 5
  /\ Write((val \div Pow2[bits - 5]) % 32, "running")
  /\ UNCHANGED <<input, inx_idx, val>>

\* Mutant of PadSymbol: the rest is not moved to the high bits.
PadSymbolLow(v, b) == v % Pow2[b]

\* (val << (outbits - bits)) & maxv
PadSymbol(v, b) == ((v * Pow2[5 - b]) % WordMod) % 32

\* Mutant of Pad: a rest is dropped.
PadNever ==
  /\ result = "running" /\ bits < 5 /\ inx_idx = Len(input)
  /\ result' = "encoded"
  /\ UNCHANGED <<input, inx_idx, val, bits, out>>

\* The rest, if there is one, is the last symbol.
Pad ==
  /\ result = "running" /\ bits < 5 /\ inx_idx = Len(input)
  /\ IF bits > 0 THEN Write(PadSymbol(val, bits), "encoded")
                 ELSE result' = "encoded" /\ UNCHANGED out
  /\ UNCHANGED <<input, inx_idx, val, bits>>

Base32Next == TakeByte \/ EmitSymbol \/ Pad

Base32Spec == Base32Init /\ [][Base32Next]_base32Vars

-----------------------------------------------------------------------------
(* Bits of a string, counted from its beginning.                               *)

Bit(v, q) == (v \div Pow2[q]) % 2

ByteBit(bytes, p) == Bit(bytes[p \div 8 + 1], 7 - (p % 8))
SymbolBit(symbols, p) == Bit(symbols[p \div 5 + 1], 4 - (p % 5))

\* Symbols that hold n bytes.
SymbolsFor(n) == (8 * n + 4) \div 5

\* The symbols are the bits of the input, in their order, followed by zeros: an
\* address can be read back from its text.
EncodesLosslessly ==
  result = "encoded" =>
    \A p \in 0..(5 * Len(out) - 1) :
      SymbolBit(out, p) = IF p < 8 * Len(input) THEN ByteBit(input, p) ELSE 0

\* Encoding needs exactly the room ADDRESS_SIZE_BASE32 is computed with, and fails
\* only without it: one symbol less and an address could not be shown.
RoomIsExact ==
  /\ result = "encoded" => Len(out) = SymbolsFor(Len(input))
  /\ result = "failed"  => SymbolsFor(Len(input)) > OutMax
================================================================================
