----------------------------- MODULE Base32Proofs -----------------------------
(* base32_encode on words and strings of every size: it loses no bit, appends     *)
(* only zeros, and fails only for want of room.  The inductive invariant says     *)
(* which bits of the input are written, and which are waiting in the word.        *)
EXTENDS Base32, TLAPS

-----------------------------------------------------------------------------
(* Bits of sums, quotients and remainders.                                      *)

LEMMA PowerValues ==
  /\ Pow2[0] = 1    /\ Pow2[1] = 2    /\ Pow2[2] = 4    /\ Pow2[3] = 8   /\ Pow2[4] = 16
  /\ Pow2[5] = 32   /\ Pow2[6] = 64   /\ Pow2[7] = 128  /\ Pow2[8] = 256 /\ Pow2[9] = 512
  /\ Pow2[10] = 1024 /\ Pow2[11] = 2048 /\ Pow2[12] = 4096
<1>1. \A q \in 0..12 : Pow2[q] =
        CASE q = 0 -> 1   [] q = 1 -> 2   [] q = 2 -> 4    [] q = 3 -> 8     [] q = 4 -> 16
          [] q = 5 -> 32  [] q = 6 -> 64  [] q = 7 -> 128  [] q = 8 -> 256   [] q = 9 -> 512
          [] q = 10 -> 1024 [] q = 11 -> 2048 [] q = 12 -> 4096
  BY DEF Pow2
<1> QED
  BY <1>1, SMT

\* Reducing to a word takes away a multiple of 2^13.
LEMMA WordIsReduced ==
  ASSUME NEW x \in Nat
  PROVE  /\ x % WordMod \in 0..(WordMod - 1)
         /\ \E n \in Int : x % WordMod = x - 8192 * n
<1> USE Base32Assumption
<1> DEFINE k == WordMod \div 8192
           m == x \div WordMod
<1>1. WordMod = 8192 * k /\ k \in Int
  BY SMT
<1>2. x = WordMod * m + (x % WordMod) /\ m \in Int /\ x % WordMod \in 0..(WordMod - 1)
  BY SMT
<1> HIDE DEF k, m
<1>3. WordMod * m = 8192 * (k * m) /\ k * m \in Int
  BY <1>1, <1>2, SMT
<1>4. x % WordMod = x - 8192 * (k * m)
  BY <1>2, <1>3, SMT
<1> QED
  BY <1>2, <1>3, <1>4

\* Taking away a multiple of two leaves the parity.
LEMMA EvenDifference ==
  ASSUME NEW a \in Int, NEW m \in Int
  PROVE  (a - 2 * m) % 2 = a % 2
BY SMT

\* A multiple of 2^13 changes the quotients by the powers up to 2^12 by even numbers.
LEMMA ReducedQuotients ==
  ASSUME NEW x \in Int, NEW n \in Int
  PROVE  /\ (x - 8192 * n) \div 1 = (x \div 1) - 2 * (4096 * n)
         /\ (x - 8192 * n) \div 2 = (x \div 2) - 2 * (2048 * n)
         /\ (x - 8192 * n) \div 4 = (x \div 4) - 2 * (1024 * n)
         /\ (x - 8192 * n) \div 8 = (x \div 8) - 2 * (512 * n)
         /\ (x - 8192 * n) \div 16 = (x \div 16) - 2 * (256 * n)
         /\ (x - 8192 * n) \div 32 = (x \div 32) - 2 * (128 * n)
         /\ (x - 8192 * n) \div 64 = (x \div 64) - 2 * (64 * n)
         /\ (x - 8192 * n) \div 128 = (x \div 128) - 2 * (32 * n)
         /\ (x - 8192 * n) \div 256 = (x \div 256) - 2 * (16 * n)
         /\ (x - 8192 * n) \div 512 = (x \div 512) - 2 * (8 * n)
         /\ (x - 8192 * n) \div 1024 = (x \div 1024) - 2 * (4 * n)
         /\ (x - 8192 * n) \div 2048 = (x \div 2048) - 2 * (2 * n)
         /\ (x - 8192 * n) \div 4096 = (x \div 4096) - 2 * (1 * n)
<1>0. (x - 8192 * n) \div 1 = (x \div 1) - 2 * (4096 * n)
  BY SMTT(30)
<1>1. (x - 8192 * n) \div 2 = (x \div 2) - 2 * (2048 * n)
  BY SMTT(30)
<1>2. (x - 8192 * n) \div 4 = (x \div 4) - 2 * (1024 * n)
  BY SMTT(30)
<1>3. (x - 8192 * n) \div 8 = (x \div 8) - 2 * (512 * n)
  BY SMTT(30)
<1>4. (x - 8192 * n) \div 16 = (x \div 16) - 2 * (256 * n)
  BY SMTT(30)
<1>5. (x - 8192 * n) \div 32 = (x \div 32) - 2 * (128 * n)
  BY SMTT(30)
<1>6. (x - 8192 * n) \div 64 = (x \div 64) - 2 * (64 * n)
  BY SMTT(30)
<1>7. (x - 8192 * n) \div 128 = (x \div 128) - 2 * (32 * n)
  BY SMTT(30)
<1>8. (x - 8192 * n) \div 256 = (x \div 256) - 2 * (16 * n)
  BY SMTT(30)
<1>9. (x - 8192 * n) \div 512 = (x \div 512) - 2 * (8 * n)
  BY SMTT(30)
<1>10. (x - 8192 * n) \div 1024 = (x \div 1024) - 2 * (4 * n)
  BY SMTT(30)
<1>11. (x - 8192 * n) \div 2048 = (x \div 2048) - 2 * (2 * n)
  BY SMTT(30)
<1>12. (x - 8192 * n) \div 4096 = (x \div 4096) - 2 * (1 * n)
  BY SMTT(30)
<1> QED
  BY <1>0, <1>1, <1>2, <1>3, <1>4, <1>5, <1>6, <1>7, <1>8, <1>9, <1>10, <1>11, <1>12

\* The low thirteen bits of a word survive the reduction.
LEMMA ReducedBit ==
  ASSUME NEW x \in Nat, NEW q \in 0..12
  PROVE  Bit(x % WordMod, q) = Bit(x, q)
<1>1. PICK n \in Int : x % WordMod = x - 8192 * n
  BY WordIsReduced
<1>2. \A a, m \in Int : (a - 2 * m) % 2 = a % 2
  BY EvenDifference
<1>3. Bit(x - 8192 * n, q) = Bit(x, q)
  <2>0. CASE q = 0
    <3>1. (x - 8192 * n) \div 1 = (x \div 1) - 2 * (4096 * n)
      BY ReducedQuotients
    <3>2. x \div 1 \in Int /\ 4096 * n \in Int
      BY SMT
    <3>3. ((x - 8192 * n) \div 1) % 2 = (x \div 1) % 2
      BY <1>2, <3>1, <3>2
    <3> QED
      BY <2>0, <3>3, PowerValues DEF Bit
  <2>1. CASE q = 1
    <3>1. (x - 8192 * n) \div 2 = (x \div 2) - 2 * (2048 * n)
      BY ReducedQuotients
    <3>2. x \div 2 \in Int /\ 2048 * n \in Int
      BY SMT
    <3>3. ((x - 8192 * n) \div 2) % 2 = (x \div 2) % 2
      BY <1>2, <3>1, <3>2
    <3> QED
      BY <2>1, <3>3, PowerValues DEF Bit
  <2>2. CASE q = 2
    <3>1. (x - 8192 * n) \div 4 = (x \div 4) - 2 * (1024 * n)
      BY ReducedQuotients
    <3>2. x \div 4 \in Int /\ 1024 * n \in Int
      BY SMT
    <3>3. ((x - 8192 * n) \div 4) % 2 = (x \div 4) % 2
      BY <1>2, <3>1, <3>2
    <3> QED
      BY <2>2, <3>3, PowerValues DEF Bit
  <2>3. CASE q = 3
    <3>1. (x - 8192 * n) \div 8 = (x \div 8) - 2 * (512 * n)
      BY ReducedQuotients
    <3>2. x \div 8 \in Int /\ 512 * n \in Int
      BY SMT
    <3>3. ((x - 8192 * n) \div 8) % 2 = (x \div 8) % 2
      BY <1>2, <3>1, <3>2
    <3> QED
      BY <2>3, <3>3, PowerValues DEF Bit
  <2>4. CASE q = 4
    <3>1. (x - 8192 * n) \div 16 = (x \div 16) - 2 * (256 * n)
      BY ReducedQuotients
    <3>2. x \div 16 \in Int /\ 256 * n \in Int
      BY SMT
    <3>3. ((x - 8192 * n) \div 16) % 2 = (x \div 16) % 2
      BY <1>2, <3>1, <3>2
    <3> QED
      BY <2>4, <3>3, PowerValues DEF Bit
  <2>5. CASE q = 5
    <3>1. (x - 8192 * n) \div 32 = (x \div 32) - 2 * (128 * n)
      BY ReducedQuotients
    <3>2. x \div 32 \in Int /\ 128 * n \in Int
      BY SMT
    <3>3. ((x - 8192 * n) \div 32) % 2 = (x \div 32) % 2
      BY <1>2, <3>1, <3>2
    <3> QED
      BY <2>5, <3>3, PowerValues DEF Bit
  <2>6. CASE q = 6
    <3>1. (x - 8192 * n) \div 64 = (x \div 64) - 2 * (64 * n)
      BY ReducedQuotients
    <3>2. x \div 64 \in Int /\ 64 * n \in Int
      BY SMT
    <3>3. ((x - 8192 * n) \div 64) % 2 = (x \div 64) % 2
      BY <1>2, <3>1, <3>2
    <3> QED
      BY <2>6, <3>3, PowerValues DEF Bit
  <2>7. CASE q = 7
    <3>1. (x - 8192 * n) \div 128 = (x \div 128) - 2 * (32 * n)
      BY ReducedQuotients
    <3>2. x \div 128 \in Int /\ 32 * n \in Int
      BY SMT
    <3>3. ((x - 8192 * n) \div 128) % 2 = (x \div 128) % 2
      BY <1>2, <3>1, <3>2
    <3> QED
      BY <2>7, <3>3, PowerValues DEF Bit
  <2>8. CASE q = 8
    <3>1. (x - 8192 * n) \div 256 = (x \div 256) - 2 * (16 * n)
      BY ReducedQuotients
    <3>2. x \div 256 \in Int /\ 16 * n \in Int
      BY SMT
    <3>3. ((x - 8192 * n) \div 256) % 2 = (x \div 256) % 2
      BY <1>2, <3>1, <3>2
    <3> QED
      BY <2>8, <3>3, PowerValues DEF Bit
  <2>9. CASE q = 9
    <3>1. (x - 8192 * n) \div 512 = (x \div 512) - 2 * (8 * n)
      BY ReducedQuotients
    <3>2. x \div 512 \in Int /\ 8 * n \in Int
      BY SMT
    <3>3. ((x - 8192 * n) \div 512) % 2 = (x \div 512) % 2
      BY <1>2, <3>1, <3>2
    <3> QED
      BY <2>9, <3>3, PowerValues DEF Bit
  <2>10. CASE q = 10
    <3>1. (x - 8192 * n) \div 1024 = (x \div 1024) - 2 * (4 * n)
      BY ReducedQuotients
    <3>2. x \div 1024 \in Int /\ 4 * n \in Int
      BY SMT
    <3>3. ((x - 8192 * n) \div 1024) % 2 = (x \div 1024) % 2
      BY <1>2, <3>1, <3>2
    <3> QED
      BY <2>10, <3>3, PowerValues DEF Bit
  <2>11. CASE q = 11
    <3>1. (x - 8192 * n) \div 2048 = (x \div 2048) - 2 * (2 * n)
      BY ReducedQuotients
    <3>2. x \div 2048 \in Int /\ 2 * n \in Int
      BY SMT
    <3>3. ((x - 8192 * n) \div 2048) % 2 = (x \div 2048) % 2
      BY <1>2, <3>1, <3>2
    <3> QED
      BY <2>11, <3>3, PowerValues DEF Bit
  <2>12. CASE q = 12
    <3>1. (x - 8192 * n) \div 4096 = (x \div 4096) - 2 * (1 * n)
      BY ReducedQuotients
    <3>2. x \div 4096 \in Int /\ 1 * n \in Int
      BY SMT
    <3>3. ((x - 8192 * n) \div 4096) % 2 = (x \div 4096) % 2
      BY <1>2, <3>1, <3>2
    <3> QED
      BY <2>12, <3>3, PowerValues DEF Bit
  <2> QED
    BY <2>0, <2>1, <2>2, <2>3, <2>4, <2>5, <2>6, <2>7, <2>8, <2>9, <2>10, <2>11, <2>12, SMT
<1> QED
  BY <1>1, <1>3

LEMMA ShiftedQuotients ==
  ASSUME NEW v \in Nat, NEW byte \in 0..255
  PROVE  /\ (v * 256 + byte) \div 128  = 2 * v + (byte \div 128)
         /\ (v * 256 + byte) \div 256  = v
         /\ (v * 256 + byte) \div 512  = v \div 2
         /\ (v * 256 + byte) \div 1024 = v \div 4
         /\ (v * 256 + byte) \div 2048 = v \div 8
         /\ (v * 256 + byte) \div 4096 = v \div 16
<1>1. (v * 256 + byte) \div 128 = 2 * v + (byte \div 128)
  BY SMT
<1>2. (v * 256 + byte) \div 256 = v
  BY SMT
<1>3. (v * 256 + byte) \div 512 = v \div 2
  BY SMT
<1>4. (v * 256 + byte) \div 1024 = v \div 4
  BY SMT
<1>5. (v * 256 + byte) \div 2048 = v \div 8
  BY SMT
<1>6. (v * 256 + byte) \div 4096 = v \div 16
  BY SMT
<1> QED
  BY <1>1, <1>2, <1>3, <1>4, <1>5, <1>6

\* A byte shifted in becomes the low bits, and the others move up.
LEMMA ShiftedBit ==
  ASSUME NEW v \in Nat, NEW byte \in 0..255, NEW q \in 0..12
  PROVE  Bit(ShiftedIn(v, byte), q) = IF q < 8 THEN Bit(byte, q) ELSE Bit(v, q - 8)
<1>1. v * 256 + byte \in Nat
  OBVIOUS
<1>2. Bit(ShiftedIn(v, byte), q) = Bit(v * 256 + byte, q)
  BY <1>1, ReducedBit DEF ShiftedIn
<1>3. /\ (v * 256 + byte) \div 128  = 2 * v + (byte \div 128)
      /\ (v * 256 + byte) \div 256  = v
      /\ (v * 256 + byte) \div 512  = v \div 2
      /\ (v * 256 + byte) \div 1024 = v \div 4
      /\ (v * 256 + byte) \div 2048 = v \div 8
      /\ (v * 256 + byte) \div 4096 = v \div 16
  BY ShiftedQuotients
<1>4. Bit(v * 256 + byte, q) = IF q < 8 THEN Bit(byte, q) ELSE Bit(v, q - 8)
  <2>0. CASE q = 0
    BY <2>0, PowerValues, SMT DEF Bit
  <2>1. CASE q = 1
    BY <2>1, PowerValues, SMT DEF Bit
  <2>2. CASE q = 2
    BY <2>2, PowerValues, SMT DEF Bit
  <2>3. CASE q = 3
    BY <2>3, PowerValues, SMT DEF Bit
  <2>4. CASE q = 4
    BY <2>4, PowerValues, SMT DEF Bit
  <2>5. CASE q = 5
    BY <2>5, PowerValues, SMT DEF Bit
  <2>6. CASE q = 6
    BY <2>6, PowerValues, SMT DEF Bit
  <2>7. CASE q = 7
    BY <2>7, PowerValues, <1>3, SMT DEF Bit
  <2>8. CASE q = 8
    BY <2>8, PowerValues, <1>3, SMT DEF Bit
  <2>9. CASE q = 9
    BY <2>9, PowerValues, <1>3, SMT DEF Bit
  <2>10. CASE q = 10
    BY <2>10, PowerValues, <1>3, SMT DEF Bit
  <2>11. CASE q = 11
    BY <2>11, PowerValues, <1>3, SMT DEF Bit
  <2>12. CASE q = 12
    BY <2>12, PowerValues, <1>3, SMT DEF Bit
  <2> QED
    BY <2>0, <2>1, <2>2, <2>3, <2>4, <2>5, <2>6, <2>7, <2>8, <2>9, <2>10, <2>11, <2>12, SMT
<1> QED
  BY <1>2, <1>4

\* The low bits of a symbol are those of the number it is taken from.
LEMMA MaskedBit ==
  ASSUME NEW w \in Nat, NEW r \in 0..4
  PROVE  w % 32 \in 0..31 /\ Bit(w % 32, r) = Bit(w, r)
<1>1. w % 32 \in 0..31
  BY SMT
<1>2. Bit(w % 32, r) = Bit(w, r)
  <2>0. CASE r = 0
    BY <2>0, PowerValues, SMT DEF Bit
  <2>1. CASE r = 1
    BY <2>1, PowerValues, SMT DEF Bit
  <2>2. CASE r = 2
    BY <2>2, PowerValues, SMT DEF Bit
  <2>3. CASE r = 3
    BY <2>3, PowerValues, SMT DEF Bit
  <2>4. CASE r = 4
    BY <2>4, PowerValues, SMT DEF Bit
  <2> QED
    BY <2>0, <2>1, <2>2, <2>3, <2>4, SMT
<1> QED
  BY <1>1, <1>2

\* Bits of a quotient are higher bits of the number.
LEMMA QuotientBit ==
  ASSUME NEW v \in Nat, NEW b \in 0..7, NEW r \in 0..4
  PROVE  v \div Pow2[b] \in Nat /\ Bit(v \div Pow2[b], r) = Bit(v, b + r)
<1>1. r \in {0, 1, 2, 3, 4}
  BY SMT
<1>10. CASE b = 0
  BY <1>10, <1>1, PowerValues, SMT DEF Bit
<1>11. CASE b = 1
  BY <1>11, <1>1, PowerValues, SMT DEF Bit
<1>12. CASE b = 2
  BY <1>12, <1>1, PowerValues, SMT DEF Bit
<1>13. CASE b = 3
  BY <1>13, <1>1, PowerValues, SMT DEF Bit
<1>14. CASE b = 4
  BY <1>14, <1>1, PowerValues, SMT DEF Bit
<1>15. CASE b = 5
  BY <1>15, <1>1, PowerValues, SMT DEF Bit
<1>16. CASE b = 6
  BY <1>16, <1>1, PowerValues, SMT DEF Bit
<1>17. CASE b = 7
  BY <1>17, <1>1, PowerValues, SMT DEF Bit
<1> QED
  BY <1>10, <1>11, <1>12, <1>13, <1>14, <1>15, <1>16, <1>17, SMT

\* A symbol taken out above b waiting bits.
LEMMA TakenBit ==
  ASSUME NEW v \in Nat, NEW b \in 0..7, NEW r \in 0..4
  PROVE  /\ (v \div Pow2[b]) % 32 \in 0..31
         /\ Bit((v \div Pow2[b]) % 32, r) = Bit(v, b + r)
<1>1. v \div Pow2[b] \in Nat /\ Bit(v \div Pow2[b], r) = Bit(v, b + r)
  BY QuotientBit
<1> QED
  BY <1>1, MaskedBit

\* The last symbol: the waiting bits, then zeros.
LEMMA PadBit ==
  ASSUME NEW v \in Nat, NEW b \in 1..4, NEW r \in 0..4
  PROVE  /\ PadSymbol(v, b) \in 0..31
         /\ Bit(PadSymbol(v, b), r) = IF r < 5 - b THEN 0 ELSE Bit(v, r - (5 - b))
<1> DEFINE x == v * Pow2[5 - b]
<1>1. r \in {0, 1, 2, 3, 4}
  BY SMT
<1>2. x \in Nat /\ Bit(x, r) = IF r < 5 - b THEN 0 ELSE Bit(v, r - (5 - b))
  <2>0. CASE b = 1
    BY <2>0, <1>1, PowerValues, SMT DEF Bit
  <2>1. CASE b = 2
    BY <2>1, <1>1, PowerValues, SMT DEF Bit
  <2>2. CASE b = 3
    BY <2>2, <1>1, PowerValues, SMT DEF Bit
  <2>3. CASE b = 4
    BY <2>3, <1>1, PowerValues, SMT DEF Bit
  <2> QED
    BY <2>0, <2>1, <2>2, <2>3, SMT
<1> HIDE DEF x
<1>3. x % WordMod \in Nat
  BY <1>2, WordIsReduced, SMT DEF Base32Assumption
<1>4. Bit(x % WordMod, r) = Bit(x, r)
  BY <1>2, ReducedBit, SMT
<1> QED
  BY <1>2, <1>3, <1>4, MaskedBit DEF PadSymbol, x

-----------------------------------------------------------------------------
(* The inductive invariant.                                                     *)

Base32Types ==
  /\ input \in Seq(0..255) /\ inx_idx \in 0..Len(input)
  /\ val \in Nat /\ bits \in 0..12
  /\ out \in Seq(0..31) /\ result \in {"running", "encoded", "failed"}

\* Every bit of the bytes taken is written or waiting, in order.
BitsAccountedFor ==
  result = "running" =>
    /\ 5 * Len(out) + bits = 8 * inx_idx
    /\ \A p \in 0..(5 * Len(out) - 1) : SymbolBit(out, p) = ByteBit(input, p)
    /\ \A q \in 0..(bits - 1) : Bit(val, q) = ByteBit(input, 8 * inx_idx - 1 - q)

Base32Inv == Base32Types /\ BitsAccountedFor /\ EncodesLosslessly /\ RoomIsExact

\* Appending a symbol adds five bits behind those that are there.
LEMMA AppendedBits ==
  ASSUME NEW t \in Seq(0..31), NEW s \in 0..31
  PROVE  /\ Append(t, s) \in Seq(0..31) /\ Len(Append(t, s)) = Len(t) + 1
         /\ \A p \in 0..(5 * Len(t) - 1) : SymbolBit(Append(t, s), p) = SymbolBit(t, p)
         /\ \A r \in 0..4 : SymbolBit(Append(t, s), 5 * Len(t) + (4 - r)) = Bit(s, r)
<1> DEFINE u == Append(t, s)
           n == Len(t)
<1>1. u \in Seq(0..31) /\ Len(u) = n + 1 /\ n \in Nat
  OBVIOUS
<1>2. u[n + 1] = s /\ \A i \in 1..n : u[i] = t[i]
  OBVIOUS
<1> HIDE DEF u, n
<1>3. ASSUME NEW p \in 0..(5 * n - 1) PROVE SymbolBit(u, p) = SymbolBit(t, p)
  <2>1. p \div 5 + 1 \in 1..n
    BY <1>1, <1>3, SMT
  <2>2. u[p \div 5 + 1] = t[p \div 5 + 1]
    BY <1>2, <2>1
  <2> QED
    BY <2>2 DEF SymbolBit
<1>4. ASSUME NEW r \in 0..4 PROVE SymbolBit(u, 5 * n + (4 - r)) = Bit(s, r)
  <2> DEFINE p == 5 * n + (4 - r)
  <2>1. p \div 5 = n /\ 4 - (p % 5) = r
    BY <1>1, <1>4, SMT
  <2> HIDE DEF p
  <2>2. SymbolBit(u, p) = Bit(s, r)
    BY <1>2, <2>1 DEF SymbolBit
  <2> QED
    BY <2>2 DEF p
<1> QED
  BY <1>1, <1>3, <1>4 DEF u, n

\* The bits of the byte taken next.
LEMMA NextByteBits ==
  ASSUME NEW bytes, NEW i \in Nat, NEW q \in 0..7
  PROVE  ByteBit(bytes, 8 * (i + 1) - 1 - q) = Bit(bytes[i + 1], q)
<1> DEFINE p == 8 * (i + 1) - 1 - q
<1>1. p \div 8 = i /\ 7 - (p % 8) = q
  BY SMT
<1> HIDE DEF p
<1>2. ByteBit(bytes, p) = Bit(bytes[i + 1], q)
  BY <1>1 DEF ByteBit
<1> QED
  BY <1>2 DEF p

\* How many symbols it takes when n are written and b bits are left.
LEMMA SymbolsLeft ==
  ASSUME NEW i \in Nat, NEW n \in Nat, NEW b \in Nat
  PROVE  /\ SymbolsFor(i) \in Int
         /\ 5 * n + b = 8 * i /\ b \in 1..4 => SymbolsFor(i) = n + 1
         /\ 5 * n + b <= 8 * i /\ b >= 1 => SymbolsFor(i) >= n + 1
  BY SMT DEF SymbolsFor

\* An element of a sequence has the type of the elements.
LEMMA Member ==
  ASSUME NEW S, NEW s \in Seq(S), NEW i \in 1..Len(s)
  PROVE  s[i] \in S
  OBVIOUS

LEMMA InitBase32 == Base32Init => Base32Inv
<1> SUFFICES ASSUME Base32Init PROVE Base32Inv
  OBVIOUS
<1> USE DEF Base32Init
<1>1. input \in Seq(0..255)
  BY Base32Assumption
<1>2. Base32Types
  BY <1>1 DEF Base32Types
<1>3. BitsAccountedFor
  BY <1>1, SMT DEF BitsAccountedFor
<1>4. EncodesLosslessly /\ RoomIsExact
  BY DEF EncodesLosslessly, RoomIsExact
<1> QED
  BY <1>2, <1>3, <1>4 DEF Base32Inv

LEMMA TakeByteKeepsInv == Base32Inv /\ TakeByte => Base32Inv'
<1> SUFFICES ASSUME Base32Inv, TakeByte PROVE Base32Inv'
  OBVIOUS
<1> DEFINE byte == input[inx_idx + 1]
<1>1. Base32Types /\ BitsAccountedFor /\ result = "running"
  BY DEF Base32Inv, TakeByte
<1>2. inx_idx \in Nat /\ Len(input) \in Nat /\ inx_idx < Len(input) /\ bits < 5
  BY <1>1 DEF Base32Types, TakeByte
<1>3. byte \in 0..255
  <2>1. inx_idx + 1 \in 1..Len(input)
    BY <1>2, SMT
  <2>2. input \in Seq(0..255)
    BY <1>1 DEF Base32Types
  <2> QED
    BY <2>1, <2>2, Member
<1>4. val' = ShiftedIn(val, byte) /\ bits' = bits + 8 /\ inx_idx' = inx_idx + 1
  BY DEF TakeByte
<1>5. input' = input /\ out' = out /\ result' = result
  BY DEF TakeByte
<1>6. /\ val \in Nat /\ bits \in 0..12 /\ Len(out) \in Nat
      /\ 5 * Len(out) + bits = 8 * inx_idx
      /\ \A q \in 0..(bits - 1) : Bit(val, q) = ByteBit(input, 8 * inx_idx - 1 - q)
  BY <1>1 DEF Base32Types, BitsAccountedFor
<1> HIDE DEF byte
<1>7. val' \in Nat
  <2>1. val * 256 + byte \in Nat
    BY <1>3, <1>6, SMT
  <2>2. (val * 256 + byte) % WordMod \in Nat
    BY <2>1, WordIsReduced, SMT DEF Base32Assumption
  <2> QED
    BY <2>2, <1>4 DEF ShiftedIn
<1>8. bits' \in 0..12 /\ inx_idx' \in 0..Len(input)
  BY <1>2, <1>4, <1>6, SMT
<1>9. Base32Types'
  BY <1>1, <1>5, <1>7, <1>8 DEF Base32Types
<1>10. 5 * Len(out) + (bits + 8) = 8 * (inx_idx + 1)
  BY <1>2, <1>6, SMT
<1>11. ASSUME NEW q \in 0..(bits + 8 - 1)
       PROVE  Bit(val', q) = ByteBit(input, 8 * (inx_idx + 1) - 1 - q)
  <2>1. q \in 0..12
    BY <1>2, <1>6, <1>11, SMT
  <2>2. Bit(val', q) = IF q < 8 THEN Bit(byte, q) ELSE Bit(val, q - 8)
    BY <1>3, <1>4, <1>6, <2>1, ShiftedBit
  <2>3. CASE q < 8
    <3>1. q \in 0..7
      BY <2>1, <2>3, SMT
    <3>2. ByteBit(input, 8 * (inx_idx + 1) - 1 - q) = Bit(byte, q)
      BY <1>2, <3>1, NextByteBits DEF byte
    <3> QED
      BY <2>2, <2>3, <3>2
  <2>4. CASE ~(q < 8)
    <3>1. q - 8 \in 0..(bits - 1)
      BY <1>6, <1>11, <2>1, <2>4, SMT
    <3>2. 8 * (inx_idx + 1) - 1 - q = 8 * inx_idx - 1 - (q - 8)
      BY <1>2, <2>1, SMT
    <3>3. Bit(val, q - 8) = ByteBit(input, 8 * inx_idx - 1 - (q - 8))
      BY <1>6, <3>1
    <3> QED
      BY <2>2, <2>4, <3>2, <3>3
  <2> QED
    BY <2>3, <2>4
<1>12. BitsAccountedFor'
  <2>1. \A p \in 0..(5 * Len(out) - 1) : SymbolBit(out, p) = ByteBit(input, p)
    BY <1>1 DEF BitsAccountedFor
  <2>2. \A q \in 0..(bits + 8 - 1) : Bit(val', q) = ByteBit(input, 8 * (inx_idx + 1) - 1 - q)
    BY <1>11
  <2> QED
    <3>1. 5 * Len(out') + bits' = 8 * inx_idx'
      BY <1>4, <1>5, <1>10
    <3>2. \A p \in 0..(5 * Len(out') - 1) : SymbolBit(out', p) = ByteBit(input', p)
      BY <1>5, <2>1
    <3>3. \A q \in 0..(bits' - 1) : Bit(val', q) = ByteBit(input', 8 * inx_idx' - 1 - q)
      <4> SUFFICES ASSUME NEW q \in 0..(bits' - 1)
                   PROVE  Bit(val', q) = ByteBit(input', 8 * inx_idx' - 1 - q)
        OBVIOUS
      <4>1. q \in 0..(bits + 8 - 1)
        BY <1>4, <1>6
      <4>2. 8 * inx_idx' - 1 - q = 8 * (inx_idx + 1) - 1 - q
        BY <1>4
      <4> QED
        BY <1>5, <2>2, <4>1, <4>2
    <3> QED
      BY <3>1, <3>2, <3>3 DEF BitsAccountedFor
<1>13. EncodesLosslessly' /\ RoomIsExact'
  BY <1>1, <1>5 DEF EncodesLosslessly, RoomIsExact
<1> QED
  BY <1>9, <1>12, <1>13 DEF Base32Inv

LEMMA EmitSymbolKeepsInv == Base32Inv /\ EmitSymbol => Base32Inv'
<1> SUFFICES ASSUME Base32Inv, EmitSymbol PROVE Base32Inv'
  OBVIOUS
<1> DEFINE b == bits - 5
           n == Len(out)
           symbol == (val \div Pow2[b]) % 32
<1>1. Base32Types /\ BitsAccountedFor /\ result = "running"
  BY DEF Base32Inv, EmitSymbol
<1>2. b \in 0..7 /\ bits' = b /\ val \in Nat /\ bits \in 0..12 /\ bits = b + 5
  BY <1>1 DEF Base32Types, EmitSymbol
<1>3. input' = input /\ inx_idx' = inx_idx /\ val' = val
  BY DEF EmitSymbol
<1>4. symbol \in 0..31 /\ \A r \in 0..4 : Bit(symbol, r) = Bit(val, b + r)
  BY <1>2, TakenBit
<1>5. /\ 5 * n + bits = 8 * inx_idx /\ n \in Nat /\ inx_idx \in Nat
      /\ Len(input) \in Nat /\ inx_idx <= Len(input)
      /\ \A p \in 0..(5 * n - 1) : SymbolBit(out, p) = ByteBit(input, p)
      /\ \A q \in 0..(bits - 1) : Bit(val, q) = ByteBit(input, 8 * inx_idx - 1 - q)
  BY <1>1 DEF Base32Types, BitsAccountedFor
<1>6. CASE n >= OutMax
  <2>1. result' = "failed" /\ out' = out
    BY <1>6 DEF EmitSymbol, Write
  <2>2. SymbolsFor(Len(input)) > OutMax
    <3>1. 5 * n + bits <= 8 * Len(input) /\ bits \in Nat /\ bits >= 1
      BY <1>2, <1>5, SMT
    <3>2. SymbolsFor(Len(input)) >= n + 1 /\ SymbolsFor(Len(input)) \in Int
      BY <1>5, <3>1, SymbolsLeft
    <3> QED
      BY <1>5, <1>6, <3>2, Base32Assumption, SMT
  <2>3. Base32Types'
    BY <1>1, <1>2, <1>3, <2>1 DEF Base32Types
  <2>4. RoomIsExact'
    BY <1>3, <2>1, <2>2 DEF RoomIsExact
  <2> QED
    BY <2>1, <2>3, <2>4 DEF Base32Inv, BitsAccountedFor, EncodesLosslessly
<1>7. CASE ~(n >= OutMax)
  <2>1. result' = "running" /\ out' = Append(out, symbol)
    BY <1>7 DEF EmitSymbol, Write
  <2> HIDE DEF symbol, b
  <2>2. /\ out' \in Seq(0..31) /\ Len(out') = n + 1
        /\ \A p \in 0..(5 * n - 1) : SymbolBit(out', p) = SymbolBit(out, p)
        /\ \A r \in 0..4 : SymbolBit(out', 5 * n + (4 - r)) = Bit(symbol, r)
    BY <1>1, <1>4, <2>1, AppendedBits DEF Base32Types
  <2> HIDE DEF n
  <2>3. Base32Types'
    BY <1>1, <1>2, <1>3, <2>1, <2>2 DEF Base32Types
  <2>4. ASSUME NEW p \in 0..(5 * (n + 1) - 1) PROVE SymbolBit(out', p) = ByteBit(input, p)
    <3>1. CASE p < 5 * n
      <4>1. p \in 0..(5 * n - 1)
        BY <1>5, <2>4, <3>1, SMT
      <4> QED
        BY <1>5, <2>2, <4>1
    <3>2. CASE ~(p < 5 * n)
      <4> DEFINE r == 4 - (p - 5 * n)
      <4>1. r \in 0..4 /\ p = 5 * n + (4 - r)
        BY <1>5, <2>4, <3>2, SMT
      <4>2. b + r \in 0..(bits - 1) /\ 8 * inx_idx - 1 - (b + r) = p
        BY <1>2, <1>5, <2>4, <3>2, SMT
      <4> HIDE DEF r
      <4>3. Bit(val, b + r) = ByteBit(input, p)
        BY <1>5, <4>2
      <4>4. SymbolBit(out', p) = Bit(symbol, r)
        BY <2>2, <4>1
      <4> QED
        BY <1>4, <4>1, <4>3, <4>4
    <3> QED
      BY <3>1, <3>2
  <2>5. \A q \in 0..(b - 1) : Bit(val, q) = ByteBit(input, 8 * inx_idx - 1 - q)
    <3> SUFFICES ASSUME NEW q \in 0..(b - 1)
                 PROVE  Bit(val, q) = ByteBit(input, 8 * inx_idx - 1 - q)
      OBVIOUS
    <3>1. q \in 0..(bits - 1)
      BY <1>2, SMT
    <3> QED
      BY <1>5, <3>1
  <2>6. 5 * (n + 1) + b = 8 * inx_idx
    BY <1>2, <1>5, SMT
  <2>7. BitsAccountedFor'
    BY ONLY <1>2, <1>3, <2>2, <2>4, <2>5, <2>6, Zenon DEF BitsAccountedFor
  <2> QED
    BY <2>1, <2>3, <2>7 DEF Base32Inv, EncodesLosslessly, RoomIsExact
<1> QED
  BY <1>6, <1>7

LEMMA PadKeepsInv == Base32Inv /\ Pad => Base32Inv'
<1> SUFFICES ASSUME Base32Inv, Pad PROVE Base32Inv'
  OBVIOUS
<1> DEFINE i == Len(input)
           n == Len(out)
           symbol == PadSymbol(val, bits)
<1>1. Base32Types /\ BitsAccountedFor /\ result = "running"
  BY DEF Base32Inv, Pad
<1>2. i \in Nat /\ n \in Nat /\ bits \in 0..4 /\ val \in Nat /\ inx_idx = i
  BY <1>1 DEF Base32Types, Pad
<1>3. /\ 5 * n + bits = 8 * i
      /\ \A p \in 0..(5 * n - 1) : SymbolBit(out, p) = ByteBit(input, p)
      /\ \A q \in 0..(bits - 1) : Bit(val, q) = ByteBit(input, 8 * i - 1 - q)
  BY <1>1, <1>2 DEF BitsAccountedFor
<1>4. input' = input /\ inx_idx' = inx_idx /\ val' = val /\ bits' = bits
  BY DEF Pad
<1>5. CASE bits = 0
  <2>1. result' = "encoded" /\ out' = out
    BY <1>5 DEF Pad
  <2>2. SymbolsFor(i) = n /\ 8 * i = 5 * n
    BY <1>2, <1>3, <1>5, SMT DEF SymbolsFor
  <2>3. Base32Types'
    BY <1>1, <1>4, <2>1 DEF Base32Types
  <2>4. RoomIsExact'
    BY <1>4, <2>1, <2>2 DEF RoomIsExact
  <2>5. \A p \in 0..(5 * n - 1) : SymbolBit(out, p) = IF p < 8 * i THEN ByteBit(input, p) ELSE 0
    <3> SUFFICES ASSUME NEW p \in 0..(5 * n - 1)
                 PROVE  SymbolBit(out, p) = IF p < 8 * i THEN ByteBit(input, p) ELSE 0
      OBVIOUS
    <3>1. p < 8 * i
      BY <1>2, <2>2, SMT
    <3> QED
      BY <1>3, <3>1
  <2>6. EncodesLosslessly'
    BY <1>4, <2>1, <2>5 DEF EncodesLosslessly
  <2> QED
    BY <2>1, <2>3, <2>4, <2>6 DEF Base32Inv, BitsAccountedFor
<1>6. CASE bits # 0 /\ n >= OutMax
  <2>1. bits > 0
    BY <1>2, <1>6
  <2>2. result' = "failed" /\ out' = out
    BY <1>6, <2>1 DEF Pad, Write
  <2>3. SymbolsFor(i) = n + 1
    <3>1. 5 * n + bits = 8 * i /\ bits \in Nat /\ bits \in 1..4
      BY <1>2, <1>3, <2>1
    <3> QED
      BY ONLY <1>2, <3>1, SymbolsLeft
  <2>4. SymbolsFor(i) > OutMax
    BY <1>2, <1>6, <2>3, Base32Assumption, SMT
  <2>5. Base32Types'
    BY <1>1, <1>4, <2>2 DEF Base32Types
  <2>6. RoomIsExact'
    BY <1>4, <2>2, <2>4 DEF RoomIsExact
  <2> QED
    BY <2>2, <2>5, <2>6 DEF Base32Inv, BitsAccountedFor, EncodesLosslessly
<1>7. CASE bits # 0 /\ ~(n >= OutMax)
  <2>1. bits \in 1..4 /\ bits > 0
    BY <1>2, <1>7
  <2>2. symbol \in 0..31
        /\ \A r \in 0..4 : Bit(symbol, r) = IF r < 5 - bits THEN 0
                                            ELSE Bit(val, r - (5 - bits))
    BY <1>2, <2>1, PadBit
  <2> HIDE DEF symbol
  <2>3. result' = "encoded" /\ out' = Append(out, symbol)
    BY <1>7, <2>1 DEF Pad, Write, symbol
  <2>4. /\ out' \in Seq(0..31) /\ Len(out') = n + 1
        /\ \A p \in 0..(5 * n - 1) : SymbolBit(out', p) = SymbolBit(out, p)
        /\ \A r \in 0..4 : SymbolBit(out', 5 * n + (4 - r)) = Bit(symbol, r)
    BY <1>1, <2>2, <2>3, AppendedBits DEF Base32Types
  <2>5. SymbolsFor(i) = n + 1
    <3>1. 5 * n + bits = 8 * i /\ bits \in Nat /\ bits \in 1..4
      BY <1>2, <1>3, <2>1
    <3> QED
      BY ONLY <1>2, <3>1, SymbolsLeft
  <2>6. Base32Types' /\ RoomIsExact'
    BY <1>1, <1>4, <2>3, <2>4, <2>5 DEF Base32Types, RoomIsExact
  <2> HIDE DEF n, i
  <2>7. ASSUME NEW p \in 0..(5 * (n + 1) - 1)
        PROVE  SymbolBit(out', p) = IF p < 8 * i THEN ByteBit(input, p) ELSE 0
    <3>1. CASE p < 5 * n
      <4>1. p \in 0..(5 * n - 1) /\ p < 8 * i
        BY <1>2, <1>3, <2>1, <2>7, <3>1, SMT
      <4> QED
        BY <1>3, <2>4, <4>1
    <3>2. CASE ~(p < 5 * n)
      <4> DEFINE r == 4 - (p - 5 * n)
                 q == r - (5 - bits)
      <4>1. r \in 0..4 /\ p = 5 * n + (4 - r)
        BY <1>2, <2>7, <3>2, SMT
      <4>2. SymbolBit(out', p) = IF r < 5 - bits THEN 0 ELSE Bit(val, q)
        <5> HIDE DEF r
        <5> QED
          BY <2>2, <2>4, <4>1 DEF q
      <4>3. CASE r < 5 - bits
        <5>1. ~(p < 8 * i)
          BY <1>2, <1>3, <2>7, <4>3, SMT
        <5> QED
          BY <4>2, <4>3, <5>1
      <4>4. CASE ~(r < 5 - bits)
        <5>1. q \in 0..(bits - 1) /\ 8 * i - 1 - q = p /\ p < 8 * i
          BY <1>2, <1>3, <2>7, <3>2, <4>4, SMT
        <5> HIDE DEF q, r
        <5>2. Bit(val, q) = ByteBit(input, p)
          BY <1>3, <5>1
        <5> QED
          BY <4>2, <4>4, <5>1, <5>2
      <4> QED
        BY <4>3, <4>4
    <3> QED
      BY <3>1, <3>2
  <2>8. EncodesLosslessly'
    BY <1>4, <2>4, <2>7 DEF EncodesLosslessly, i
  <2> QED
    BY <2>3, <2>6, <2>8 DEF Base32Inv, BitsAccountedFor
<1> QED
  BY <1>5, <1>6, <1>7

LEMMA Base32Invariant == Base32Spec => []Base32Inv
<1>1. Base32Inv /\ [Base32Next]_base32Vars => Base32Inv'
  <2> SUFFICES ASSUME Base32Inv, [Base32Next]_base32Vars PROVE Base32Inv'
    OBVIOUS
  <2>1. CASE UNCHANGED base32Vars
    BY <2>1 DEF base32Vars, Base32Inv, Base32Types, BitsAccountedFor, EncodesLosslessly,
                RoomIsExact, SymbolsFor
  <2> QED
    BY <2>1, TakeByteKeepsInv, EmitSymbolKeepsInv, PadKeepsInv DEF Base32Next
<1> QED
  BY InitBase32, <1>1, PTL DEF Base32Spec

\* base32_encode loses nothing: the symbols are the bits of the bytes in their order,
\* filled up with zeros, for every byte string and every word of 13 bits or more.
THEOREM Base32IsLossless == Base32Spec => []EncodesLosslessly
<1>1. Base32Inv => EncodesLosslessly
  BY DEF Base32Inv
<1> QED
  BY <1>1, Base32Invariant, PTL

\* base32_encode writes as many symbols as ADDRESS_SIZE_BASE32 allows for, and fails
\* only when it is given less room: the encoding of an address cannot fail.
THEOREM Base32NeedsItsRoom == Base32Spec => []RoomIsExact
<1>1. Base32Inv => RoomIsExact
  BY DEF Base32Inv
<1> QED
  BY <1>1, Base32Invariant, PTL
================================================================================
