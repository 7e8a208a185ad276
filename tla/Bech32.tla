-------------------------------- MODULE Bech32 --------------------------------
(* The text of an address (address_encode_bech32 of abstraction.c,               *)
(* address_encode_bech32_hrp of address.c, bech32_encode of bech32.c): the        *)
(* network's prefix, a 1, the address in symbols of five bits and six symbols of  *)
(* checksum.  The symbols are made by the machine of Base32, the checksum takes     *)
(* one value at a time, and the text is written when it is complete.  A wallet    *)
(* then reads the text.  Characters are their ASCII codes, and a word or symbol    *)
(* under exclusive ors is the set of its bits that are set.                       *)
EXTENDS Base32

CONSTANTS
  AddressSizeBech32Max,   \* ADDRESS_SIZE_BECH32_MAX
  Room                    \* bech32_max_length, the size of the screen's buffer

\* ADDRESS_HRP_LENGTH_MAX is 4; the text of the longest fits bech32 and the screen.
ASSUME Bech32Assumption ==
  /\ \A address \in Inputs : Len(address) > 0 /\ SymbolsFor(Len(address)) <= OutMax
  /\ AddressSizeBech32Max = 4 + 1 + OutMax + 6 /\ AddressSizeBech32Max <= 108
  /\ Room \in Nat /\ Room > AddressSizeBech32Max

VARIABLES
  network,                \* api->coin and the test network bit of api->app_mode
  chk,                    \* the checksum of the values taken
  left,                   \* the values it has still to take
  text,                   \* the buffer of the screen, up to its terminator
  phase,                  \* "base32", "checksum", "shown" or "read"
  unread,                 \* the values a wallet has still to read     (the wallet)
  remainder               \* and what is left of a division by those read

walletVars == <<unread, remainder>>
bech32Vars == <<network, chk, left, text, phase>>

Networks == [coin : {"iota", "shimmer"}, testnet : BOOLEAN]

\* Mutant of Hrp: the test network is not told apart.
HrpMainnet(n) ==
  IF n.coin = "iota" THEN <<105, 111, 116, 97>> ELSE <<115, 109, 114>>

\* COIN_HRP_...: iota, atoi, smr and rms.
Hrp(n) ==
  CASE n = [coin |-> "iota", testnet |-> FALSE]    -> <<105, 111, 116, 97>>
    [] n = [coin |-> "iota", testnet |-> TRUE]     -> <<97, 116, 111, 105>>
    [] n = [coin |-> "shimmer", testnet |-> FALSE] -> <<115, 109, 114>>
    [] n = [coin |-> "shimmer", testnet |-> TRUE]  -> <<114, 109, 115>>

\* charset: the character of each symbol, from q to l.
Charset == <<113, 112, 122, 114, 121, 57, 120, 56, 103, 102, 50, 116, 118, 100, 119, 48,
             115, 51, 106, 110, 53, 52, 107, 104, 99, 101, 54, 109, 117, 97, 55, 108>>

Separator == 49

\* The bits of a value below 32 and of eight hexadecimal digits.
Bits(v)   == { q \in 0..4 : Bit(v, q) = 1 }
Word(hex) == { q \in 0..29 : Bit(hex[8 - (q \div 4)], q % 4) = 1 }

Xor(S, T) == (S \ T) \cup (T \ S)

\* 0x3b6a57b2, 0x26508e6d, 0x1ea119fa, 0x3d4233dd and 0x2a1462b3.
Generator == << Word(<<3, 11, 6, 10, 5, 7, 11, 2>>), Word(<<2, 6, 5, 0, 8, 14, 6, 13>>),
                Word(<<1, 14, 10, 1, 1, 9, 15, 10>>), Word(<<3, 13, 4, 2, 3, 3, 13, 13>>),
                Word(<<2, 10, 1, 4, 6, 2, 11, 3>>) >>

\* Mutant of Masked: the constants are taken in the opposite order.
MaskedMirrored(pre, k) == IF 24 + k \in pre THEN Generator[6 - k] ELSE {}

\* Each of the five bits that leave the checksum adds its constant.
Masked(pre, k) == IF 24 + k \in pre THEN Generator[k] ELSE {}

Shifted(pre) == { q \in 5..29 : q - 5 \in pre }

\* bech32_polymod_step
PolymodStep(pre) ==
  Xor(Xor(Xor(Xor(Xor(Shifted(pre), Masked(pre, 1)), Masked(pre, 2)), Masked(pre, 3)),
          Masked(pre, 4)), Masked(pre, 5))

\* The prefix goes into the checksum as its high bits, a zero and its low bits.
Expanded(hrp) == [i \in 1..Len(hrp) |-> hrp[i] \div 32] \o <<0>>
                   \o [i \in 1..Len(hrp) |-> hrp[i] % 32]

\* The six symbols of a checksum.
Number(S)     == CHOOSE v \in 0..31 : Bits(v) = S
Symbol(c, k)  == { q \in 0..4 : 5 * (6 - k) + q \in c }
SymbolsOf(c)  == [k \in 1..6 |-> Number(Symbol(c, k))]

Written(symbols) == [i \in 1..Len(symbols) |-> Charset[symbols[i] + 1]]

\* Mutant of Encodable: a text is at most as long as the comments say.
EncodableAsDocumented(hrp, data) == Len(hrp) + Len(data) + 7 <= 63

\* The conditions bech32_encode returns 0 without: the page then stays empty.
Encodable(hrp, data) ==
  /\ Len(hrp) + Len(data) + 7 <= 108 /\ Len(hrp) + Len(data) + 7 < Room
  /\ hrp # <<>> /\ data # <<>>
  /\ \A i \in 1..Len(hrp) : hrp[i] \in 33..126
  /\ \A i \in 1..Len(data) : data[i] < 32

-----------------------------------------------------------------------------

One == <<{}, {}, {}, {}, {}, {0}>>

Init ==
  /\ Base32Init
  /\ network \in Networks
  /\ chk = {0} /\ left = <<>> /\ text = <<>> /\ phase = "base32"
  /\ unread = <<>> /\ remainder = One

HasRoom == Room >= AddressSizeBech32Max + 1

EncodeBase32 ==
  /\ phase = "base32" /\ HasRoom
  /\ Base32Next
  /\ UNCHANGED <<bech32Vars, walletVars>>

\* The loops of bech32_encode go over the prefix twice, the symbols and six zeros.
StartChecksum ==
  /\ phase = "base32" /\ result = "encoded" /\ Encodable(Hrp(network), out)
  /\ phase' = "checksum"
  /\ left' = Expanded(Hrp(network)) \o out \o <<0, 0, 0, 0, 0, 0>>
  /\ UNCHANGED <<base32Vars, network, chk, text, walletVars>>

TakeValue ==
  /\ phase = "checksum" /\ left # <<>>
  /\ chk' = Xor(PolymodStep(chk), Bits(Head(left)))
  /\ left' = Tail(left)
  /\ UNCHANGED <<base32Vars, network, text, phase, walletVars>>

WriteText ==
  /\ phase = "checksum" /\ left = <<>>
  /\ text' = Hrp(network) \o <<Separator>> \o Written(out \o SymbolsOf(Xor(chk, {0})))
  /\ phase' = "shown"
  /\ UNCHANGED <<base32Vars, network, chk, left, walletVars>>

-----------------------------------------------------------------------------
(* Reading the text, as a wallet that is given the address would.              *)

SplitAt == CHOOSE n \in 1..Len(text) :
             text[n] = Separator /\ \A k \in (n + 1)..Len(text) : text[k] # Separator
Prefix  == SubSeq(text, 1, SplitAt - 1)
Symbols == [k \in 1..(Len(text) - SplitAt) |->
              CHOOSE v \in 0..31 : Charset[v + 1] = text[SplitAt + k]]
Payload == SubSeq(Symbols, 1, Len(Symbols) - 6)

\* Multiplication in the field of 32 elements, in which a^5 = a^3 + 1: by a, and of the
\* powers of a in x.
TimesA(y) == Xor({ q \in 1..4 : q - 1 \in y }, IF 4 \in y THEN {0, 3} ELSE {})

Times(x, y) ==
  LET y1 == TimesA(y)  y2 == TimesA(y1)  y3 == TimesA(y2)  y4 == TimesA(y3)
      If(k, z) == IF k \in x THEN z ELSE {}
  IN  Xor(Xor(Xor(Xor(If(0, y), If(1, y1)), If(2, y2)), If(3, y3)), If(4, y4))

\* The coefficients of x * r + v modulo
\* x^6 + {29}x^5 + {22}x^4 + {20}x^3 + {21}x^2 + {29}x + {18}.
Divisor == <<29, 22, 20, 21, 29, 18>>

Divided(r, v) ==
  [k \in 1..6 |-> Xor(IF k = 6 THEN v ELSE r[k + 1], Times(r[1], Bits(Divisor[k])))]

StartReading ==
  /\ phase = "shown"
  /\ phase' = "read" /\ unread' = Expanded(Prefix) \o Symbols
  /\ UNCHANGED <<base32Vars, network, chk, left, text, remainder>>

ReadValue ==
  /\ phase = "read" /\ unread # <<>>
  /\ remainder' = Divided(remainder, Bits(Head(unread)))
  /\ unread' = Tail(unread)
  /\ UNCHANGED <<base32Vars, bech32Vars>>

Next == EncodeBase32 \/ StartChecksum \/ TakeValue \/ WriteText \/ StartReading \/ ReadValue

vars == <<base32Vars, bech32Vars, walletVars>>

Spec == Init /\ [][Next]_vars

-----------------------------------------------------------------------------

\* The encoder never gives up: no address page stays empty, although
\* cb_address_preinit does not look at the result of address_encode_bech32.
AddressIsShown ==
  phase = "base32" =>
    /\ HasRoom /\ result # "failed"
    /\ result = "encoded" => Encodable(Hrp(network), out)

\* The text of the page can be read back: the part before the last 1 tells the
\* network, the symbols behind it hold type and bytes of the address and no more.
AddressTextDecodes ==
  phase = "shown" =>
    /\ Len(text) < Room
    /\ { n \in Networks : Hrp(n) = Prefix } = {network}
    /\ Len(Payload) = SymbolsFor(Len(input))
    /\ \A p \in 0..(5 * Len(Payload) - 1) :
         SymbolBit(Payload, p) = IF p < 8 * Len(input) THEN ByteBit(input, p) ELSE 0

\* The checksum is right for a wallet that reads the page: the text, as a polynomial
\* over 32 elements, leaves the remainder 1.
ChecksumIsRemainder == phase = "read" /\ unread = <<>> => remainder = One
================================================================================
