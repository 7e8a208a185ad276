------------------------------- MODULE PublicKey -------------------------------
(* ed25519_public_key_to_bytes (iota/ed25519.c): of a point of the curve, given as *)
(* 4, x and y with the most significant byte first, addresses and unlock blocks    *)
(* take y with the least significant byte first and, in its free top bit, whether  *)
(* x is odd.  ApiContext takes addresses of different keys to be different, which  *)
(* needs that this loses nothing.                                                  *)
EXTENDS Digits

CONSTANTS
  ByteMod,           \* 2^8
  KeySize,           \* 32
  Prime,             \* 2^255 - 19
  Points             \* points <<x, y>> of the curve

\* On the curve y determines x but for its sign, and the top bit of y is free.
ASSUME PointsAssumption ==
  /\ ByteMod \in Nat \ {0} /\ ByteMod % 2 = 0 /\ KeySize \in Nat \ {0}
  /\ Prime \in Nat /\ Prime % 2 = 1
  /\ 2 * Prime < Power(ByteMod)[KeySize]
  /\ Points \subseteq (0..(Prime - 1)) \X (0..(Prime - 1))
  /\ \A p, q \in Points : p[2] = q[2] => q[1] = p[1] \/ q[1] + p[1] = Prime

VARIABLES
  point,             \* the key
  byte,              \* bytes copied
  output,
  finished

keyVars == <<point, byte, output, finished>>

BigEndian(v) == Padded(v, ByteMod, KeySize)

\* The SDK's form of the key; raw_pubkey[k] is the element k + 1.
raw_pubkey == <<4>> \o BigEndian(point[1]) \o BigEndian(point[2])

KeyInit ==
  /\ point \in Points
  /\ byte = 0 /\ output = [k \in 1..KeySize |-> 0] /\ finished = FALSE

CopyByte ==
  /\ byte < KeySize
  /\ output' = [output EXCEPT ![byte + 1] = raw_pubkey[2 * KeySize - byte + 1]]
  /\ byte' = byte + 1
  /\ UNCHANGED <<point, finished>>

\* Mutant of SignByte: the first byte of x is the most significant one.
SignByteFirst == raw_pubkey[2]

\* The least significant byte of x.
SignByte == raw_pubkey[KeySize + 1]

\* The top bit is set and never cleared.
SetSign ==
  /\ byte = KeySize /\ ~finished
  /\ output' = IF SignByte % 2 = 1
               THEN [output EXCEPT ![KeySize] = (@ % (ByteMod \div 2)) + ByteMod \div 2]
               ELSE output
  /\ finished' = TRUE
  /\ UNCHANGED <<point, byte>>

KeyNext == CopyByte \/ SetSign

-----------------------------------------------------------------------------

\* A point written as bytes: the form in which the network reads a key.
WrittenAs(p, bytes) ==
  /\ bytes[KeySize] \div (ByteMod \div 2) = p[1] % 2
  /\ \A k \in 1..KeySize :
       bytes[k] % (IF k = KeySize THEN ByteMod \div 2 ELSE ByteMod)
         = Digit(p[2], ByteMod, k - 1)

\* The bytes name the key and no other: no two keys share an address, and the key in
\* an unlock block is the one that signed.
BytesNameTheKey == finished => { p \in Points : WrittenAs(p, output) } = {point}
================================================================================
