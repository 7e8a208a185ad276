----------------------------- MODULE Bech32Proofs -----------------------------
(* Proofs about the text of addresses of any content and length: it is made, it   *)
(* reads back, and its checksum is the remainder a wallet expects.                *)
EXTENDS Bech32, Base32Proofs, SequenceTheorems

-----------------------------------------------------------------------------
(* Words as sets of bits.                                                      *)

\* The exclusive or of words is that of their symbols.
LEMMA XorOfSymbols ==
  ASSUME NEW b, NEW c, NEW k \in 1..6
  PROVE  Symbol(Xor(b, c), k) = Xor(Symbol(b, k), Symbol(c, k))
BY Zenon DEF Symbol, Xor

LEMMA SymbolOfShifted ==
  ASSUME NEW c, NEW k \in 1..6
  PROVE  Symbol(Shifted(c), k) = IF k = 6 THEN {} ELSE Symbol(c, k + 1)
<1>1. CASE k = 6
  <2>1. \A q \in 0..4 : 5 * (6 - k) + q \notin 5..29
    BY <1>1
  <2> QED
    BY <1>1, <2>1 DEF Symbol, Shifted
<1>2. CASE k # 6
  <2>1. ASSUME NEW q \in 0..4
        PROVE  5 * (6 - k) + q \in 5..29 /\ (5 * (6 - k) + q) - 5 = 5 * (6 - (k + 1)) + q
    BY <1>2
  <2> QED
    BY <1>2, <2>1 DEF Symbol, Shifted
<1> QED
  BY <1>1, <1>2

LEMMA SymbolOfValue ==
  ASSUME NEW v \in SUBSET (0..4), NEW k \in 1..6
  PROVE  Symbol(v, k) = IF k = 6 THEN v ELSE {}
<1>1. CASE k = 6
  <2>1. \A q \in 0..4 : 5 * (6 - k) + q = q
    BY <1>1
  <2> QED
    BY <1>1, <2>1 DEF Symbol
<1>2. CASE k # 6
  <2>1. \A q \in 0..4 : 5 * (6 - k) + q \notin 0..4
    BY <1>2
  <2> QED
    BY <1>2, <2>1 DEF Symbol
<1> QED
  BY <1>1, <1>2

\* The bits of the constants.
GeneratorBits ==
  << {1, 4, 5, 7, 8, 9, 10, 12, 14, 17, 19, 21, 22, 24, 25, 27, 28, 29},
     {0, 2, 3, 5, 6, 9, 10, 11, 15, 20, 22, 25, 26, 29},
     {1, 3, 4, 5, 6, 7, 8, 11, 12, 16, 21, 23, 25, 26, 27, 28},
     {0, 2, 3, 4, 6, 7, 8, 9, 12, 13, 17, 22, 24, 26, 27, 28, 29},
     {0, 1, 4, 5, 7, 9, 13, 14, 18, 20, 25, 27, 29} >>

LEMMA Generator1 == Generator[1] = GeneratorBits[1]
<1>1. ASSUME NEW q \in 0..29
      PROVE  q \in Generator[1] <=> q \in GeneratorBits[1]
  BY PowerValues DEF Generator, GeneratorBits, Word, Bit
<1>2. Generator[1] \subseteq 0..29 /\ GeneratorBits[1] \subseteq 0..29
  BY DEF Generator, GeneratorBits, Word
<1> QED
  BY <1>1, <1>2

LEMMA Generator2 == Generator[2] = GeneratorBits[2]
<1>1. ASSUME NEW q \in 0..29
      PROVE  q \in Generator[2] <=> q \in GeneratorBits[2]
  BY PowerValues DEF Generator, GeneratorBits, Word, Bit
<1>2. Generator[2] \subseteq 0..29 /\ GeneratorBits[2] \subseteq 0..29
  BY DEF Generator, GeneratorBits, Word
<1> QED
  BY <1>1, <1>2

LEMMA Generator3 == Generator[3] = GeneratorBits[3]
<1>1. ASSUME NEW q \in 0..29
      PROVE  q \in Generator[3] <=> q \in GeneratorBits[3]
  BY PowerValues DEF Generator, GeneratorBits, Word, Bit
<1>2. Generator[3] \subseteq 0..29 /\ GeneratorBits[3] \subseteq 0..29
  BY DEF Generator, GeneratorBits, Word
<1> QED
  BY <1>1, <1>2

LEMMA Generator4 == Generator[4] = GeneratorBits[4]
<1>1. ASSUME NEW q \in 0..29
      PROVE  q \in Generator[4] <=> q \in GeneratorBits[4]
  BY PowerValues DEF Generator, GeneratorBits, Word, Bit
<1>2. Generator[4] \subseteq 0..29 /\ GeneratorBits[4] \subseteq 0..29
  BY DEF Generator, GeneratorBits, Word
<1> QED
  BY <1>1, <1>2

LEMMA Generator5 == Generator[5] = GeneratorBits[5]
<1>1. ASSUME NEW q \in 0..29
      PROVE  q \in Generator[5] <=> q \in GeneratorBits[5]
  BY PowerValues DEF Generator, GeneratorBits, Word, Bit
<1>2. Generator[5] \subseteq 0..29 /\ GeneratorBits[5] \subseteq 0..29
  BY DEF Generator, GeneratorBits, Word
<1> QED
  BY <1>1, <1>2

\* The symbols of the first constant are the divisor, those of the next ones a times
\* those of the one before.
LEMMA GeneratorOfDivisor ==
  ASSUME NEW k \in 1..6
  PROVE  Bits(Divisor[k]) = Symbol(Generator[1], k)
<1>1. ASSUME NEW q \in 0..4
      PROVE  q \in Bits(Divisor[k]) <=> q \in Symbol(GeneratorBits[1], k)
  BY PowerValues DEF Bits, Bit, Divisor, Symbol, GeneratorBits
<1>2. Bits(Divisor[k]) \subseteq 0..4 /\ Symbol(GeneratorBits[1], k) \subseteq 0..4
  BY DEF Bits, Symbol
<1> QED
  BY <1>1, <1>2, Generator1

LEMMA GeneratorStep1 ==
  ASSUME NEW k \in 1..6
  PROVE  TimesA(Symbol(Generator[1], k)) = Symbol(Generator[2], k)
<1>1. ASSUME NEW q \in 0..4
      PROVE  q \in TimesA(Symbol(GeneratorBits[1], k)) <=> q \in Symbol(GeneratorBits[2], k)
  BY DEF TimesA, Xor, Symbol, GeneratorBits
<1>2. /\ TimesA(Symbol(GeneratorBits[1], k)) \subseteq 0..4
      /\ Symbol(GeneratorBits[2], k) \subseteq 0..4
  BY DEF TimesA, Xor, Symbol
<1> QED
  BY <1>1, <1>2, Generator1, Generator2

LEMMA GeneratorStep2 ==
  ASSUME NEW k \in 1..6
  PROVE  TimesA(Symbol(Generator[2], k)) = Symbol(Generator[3], k)
<1>1. ASSUME NEW q \in 0..4
      PROVE  q \in TimesA(Symbol(GeneratorBits[2], k)) <=> q \in Symbol(GeneratorBits[3], k)
  BY DEF TimesA, Xor, Symbol, GeneratorBits
<1>2. /\ TimesA(Symbol(GeneratorBits[2], k)) \subseteq 0..4
      /\ Symbol(GeneratorBits[3], k) \subseteq 0..4
  BY DEF TimesA, Xor, Symbol
<1> QED
  BY <1>1, <1>2, Generator2, Generator3

LEMMA GeneratorStep3 ==
  ASSUME NEW k \in 1..6
  PROVE  TimesA(Symbol(Generator[3], k)) = Symbol(Generator[4], k)
<1>1. ASSUME NEW q \in 0..4
      PROVE  q \in TimesA(Symbol(GeneratorBits[3], k)) <=> q \in Symbol(GeneratorBits[4], k)
  BY DEF TimesA, Xor, Symbol, GeneratorBits
<1>2. /\ TimesA(Symbol(GeneratorBits[3], k)) \subseteq 0..4
      /\ Symbol(GeneratorBits[4], k) \subseteq 0..4
  BY DEF TimesA, Xor, Symbol
<1> QED
  BY <1>1, <1>2, Generator3, Generator4

LEMMA GeneratorStep4 ==
  ASSUME NEW k \in 1..6
  PROVE  TimesA(Symbol(Generator[4], k)) = Symbol(Generator[5], k)
<1>1. ASSUME NEW q \in 0..4
      PROVE  q \in TimesA(Symbol(GeneratorBits[4], k)) <=> q \in Symbol(GeneratorBits[5], k)
  BY DEF TimesA, Xor, Symbol, GeneratorBits
<1>2. /\ TimesA(Symbol(GeneratorBits[4], k)) \subseteq 0..4
      /\ Symbol(GeneratorBits[5], k) \subseteq 0..4
  BY DEF TimesA, Xor, Symbol
<1> QED
  BY <1>1, <1>2, Generator4, Generator5

-----------------------------------------------------------------------------
(* A step of the checksum divides by the divisor.                              *)

LEMMA XorLaws ==
  ASSUME NEW S, NEW T, NEW U
  PROVE  /\ Xor(S, T) = Xor(T, S) /\ Xor(Xor(S, T), U) = Xor(S, Xor(T, U))
         /\ Xor(S, {}) = S /\ Xor({}, S) = S /\ Xor(S, S) = {}
<1>1. Xor(S, T) = Xor(T, S)
  BY SMT DEF Xor
<1>2. Xor(Xor(S, T), U) = Xor(S, Xor(T, U))
  BY SMT DEF Xor
<1>3. Xor(S, {}) = S /\ Xor({}, S) = S /\ Xor(S, S) = {}
  BY SMT DEF Xor
<1> QED
  BY <1>1, <1>2, <1>3

\* The product with what leaves the checksum is what the constants add.
LEMMA TimesOfLeaving ==
  ASSUME NEW c, NEW k \in 1..6
  PROVE  Times(Symbol(c, 1), Bits(Divisor[k]))
           = Xor(Xor(Xor(Xor(Symbol(Masked(c, 1), k), Symbol(Masked(c, 2), k)),
                         Symbol(Masked(c, 3), k)), Symbol(Masked(c, 4), k)),
                 Symbol(Masked(c, 5), k))
<1> DEFINE x == Symbol(c, 1)
           y(m) == Symbol(Generator[m], k)
           If(q, z) == IF q \in x THEN z ELSE {}
<1>1. \A q \in 0..4 : q \in x <=> 25 + q \in c
  BY DEF Symbol
<1>2. ASSUME NEW m \in 1..5
      PROVE  Symbol(Masked(c, m), k) = If(m - 1, y(m))
  <2>1. m - 1 \in 0..4 /\ 25 + (m - 1) = 24 + m
    OBVIOUS
  <2>2. Symbol({}, k) = {}
    BY DEF Symbol
  <2>3. m - 1 \in x <=> 24 + m \in c
    BY <1>1, <2>1
  <2> HIDE DEF x
  <2> QED
    BY <2>2, <2>3 DEF Masked
<1>3. /\ Symbol(Masked(c, 1), k) = If(0, y(1)) /\ Symbol(Masked(c, 2), k) = If(1, y(2))
      /\ Symbol(Masked(c, 3), k) = If(2, y(3)) /\ Symbol(Masked(c, 4), k) = If(3, y(4))
      /\ Symbol(Masked(c, 5), k) = If(4, y(5))
  <2>1. /\ 1 \in 1..5 /\ 2 \in 1..5 /\ 3 \in 1..5 /\ 4 \in 1..5 /\ 5 \in 1..5
        /\ 1 - 1 = 0 /\ 2 - 1 = 1 /\ 3 - 1 = 2 /\ 4 - 1 = 3 /\ 5 - 1 = 4
    OBVIOUS
  <2> HIDE DEF x, y, If
  <2> QED
    BY <1>2, <2>1
<1>4. /\ Bits(Divisor[k]) = y(1) /\ TimesA(y(1)) = y(2) /\ TimesA(y(2)) = y(3)
      /\ TimesA(y(3)) = y(4) /\ TimesA(y(4)) = y(5)
  BY GeneratorOfDivisor, GeneratorStep1, GeneratorStep2, GeneratorStep3, GeneratorStep4
<1> HIDE DEF x, y
<1>5. Times(x, y(1))
        = Xor(Xor(Xor(Xor(If(0, y(1)), If(1, y(2))), If(2, y(3))), If(3, y(4))), If(4, y(5)))
  BY <1>4 DEF Times
<1> HIDE DEF If
<1> QED
  BY <1>3, <1>4, <1>5 DEF x

LEMMA XorRearranged ==
  ASSUME NEW S, NEW V, NEW T, (S = {} /\ T = V) \/ (V = {} /\ T = S),
         NEW a, NEW b, NEW c, NEW d, NEW e
  PROVE  Xor(Xor(Xor(Xor(Xor(Xor(S, a), b), c), d), e), V)
           = Xor(T, Xor(Xor(Xor(Xor(a, b), c), d), e))
<1> DEFINE r == Xor(Xor(Xor(Xor(a, b), c), d), e)
<1>1. Xor(Xor(Xor(Xor(Xor(S, a), b), c), d), e) = Xor(S, r)
  BY XorLaws
<1>2. Xor(Xor(S, r), V) = Xor(T, r)
  <2> HIDE DEF r
  <2>1. CASE S = {} /\ T = V
    BY <2>1, XorLaws
  <2>2. CASE V = {} /\ T = S
    BY <2>2, XorLaws
  <2> QED
    BY <2>1, <2>2
<1> QED
  BY <1>1, <1>2

\* bech32_polymod_step, seen by the wallet.
LEMMA StepDivides ==
  ASSUME NEW c, NEW v \in SUBSET (0..4), NEW k \in 1..6
  PROVE  Symbol(Xor(PolymodStep(c), v), k)
           = Xor(IF k = 6 THEN v ELSE Symbol(c, k + 1), Times(Symbol(c, 1), Bits(Divisor[k])))
<1> DEFINE h == Shifted(c)
           m(j) == Masked(c, j)
           S == Symbol(h, k)
           V == Symbol(v, k)
           T == IF k = 6 THEN v ELSE Symbol(c, k + 1)
           p1 == Xor(h, m(1))
           p2 == Xor(p1, m(2))
           p3 == Xor(p2, m(3))
           p4 == Xor(p3, m(4))
           p5 == Xor(p4, m(5))
<1>1. PolymodStep(c) = p5
  BY Zenon DEF PolymodStep
<1>2. (S = {} /\ T = V) \/ (V = {} /\ T = S)
  BY SymbolOfShifted, SymbolOfValue
<1>3. Symbol(Xor(PolymodStep(c), v), k)
        = Xor(Xor(Xor(Xor(Xor(Xor(S, Symbol(m(1), k)), Symbol(m(2), k)), Symbol(m(3), k)),
                      Symbol(m(4), k)), Symbol(m(5), k)), V)
  <2>1. Symbol(p1, k) = Xor(S, Symbol(m(1), k))
    BY XorOfSymbols, Zenon
  <2> HIDE DEF p1, h, S
  <2>2. Symbol(p2, k) = Xor(Symbol(p1, k), Symbol(m(2), k))
    BY XorOfSymbols, Zenon
  <2> HIDE DEF p2
  <2>3. Symbol(p3, k) = Xor(Symbol(p2, k), Symbol(m(3), k))
    BY XorOfSymbols, Zenon
  <2> HIDE DEF p3
  <2>4. Symbol(p4, k) = Xor(Symbol(p3, k), Symbol(m(4), k))
    BY XorOfSymbols, Zenon
  <2> HIDE DEF p4
  <2>5. Symbol(p5, k) = Xor(Symbol(p4, k), Symbol(m(5), k))
    BY XorOfSymbols, Zenon
  <2> HIDE DEF p5
  <2>6. Symbol(Xor(p5, v), k) = Xor(Symbol(p5, k), V)
    BY XorOfSymbols, Zenon
  <2> QED
    BY <1>1, <2>1, <2>2, <2>3, <2>4, <2>5, <2>6, Zenon
<1> HIDE DEF p1, p2, p3, p4, p5, h, m
<1> HIDE DEF S, V, T
<1>4. Symbol(Xor(PolymodStep(c), v), k)
        = Xor(T, Xor(Xor(Xor(Xor(Symbol(m(1), k), Symbol(m(2), k)), Symbol(m(3), k)),
                         Symbol(m(4), k)), Symbol(m(5), k)))
  BY <1>2, <1>3, XorRearranged
<1>5. Times(Symbol(c, 1), Bits(Divisor[k]))
        = Xor(Xor(Xor(Xor(Symbol(m(1), k), Symbol(m(2), k)), Symbol(m(3), k)),
                  Symbol(m(4), k)), Symbol(m(5), k))
  BY TimesOfLeaving DEF m
<1> QED
  BY <1>4, <1>5 DEF T

-----------------------------------------------------------------------------
(* Symbols and characters.                                                     *)

\* Every set of bits is a symbol.
LEMMA BitsOfNumber ==
  ASSUME NEW S \in SUBSET (0..4)
  PROVE  Number(S) \in 0..31 /\ Bits(Number(S)) = S
<1> DEFINE b(q) == IF q \in S THEN 1 ELSE 0
           v == 16 * b(4) + 8 * b(3) + 4 * b(2) + 2 * b(1) + b(0)
<1>1. /\ b(0) \in {0, 1} /\ b(1) \in {0, 1} /\ b(2) \in {0, 1} /\ b(3) \in {0, 1}
      /\ b(4) \in {0, 1}
  OBVIOUS
<1>2. \A q \in 0..4 : q \in S <=> b(q) = 1
  OBVIOUS
<1> HIDE DEF b
<1>3. /\ v \in 0..31 /\ v % 2 = b(0) /\ (v \div 2) % 2 = b(1) /\ (v \div 4) % 2 = b(2)
      /\ (v \div 8) % 2 = b(3) /\ (v \div 16) % 2 = b(4)
  BY <1>1
<1>4. v \div 1 = v
  BY <1>3
<1> HIDE DEF v
<1>5. ASSUME NEW q \in 0..4 PROVE Bit(v, q) = b(q)
  <2>1. q = 0 \/ q = 1 \/ q = 2 \/ q = 3 \/ q = 4
    OBVIOUS
  <2>2. /\ Bit(v, 0) = b(0) /\ Bit(v, 1) = b(1) /\ Bit(v, 2) = b(2) /\ Bit(v, 3) = b(3)
        /\ Bit(v, 4) = b(4)
    BY <1>3, <1>4, PowerValues DEF Bit
  <2> QED
    BY <2>1, <2>2
<1>6. Bits(v) = S
  <2>1. \A q \in 0..4 : q \in Bits(v) <=> q \in S
    BY <1>2, <1>5 DEF Bits
  <2>2. Bits(v) \subseteq 0..4
    BY DEF Bits
  <2> QED
    BY <2>1, <2>2
<1> QED
  BY <1>3, <1>6, Zenon DEF Number

LEMMA NoBits == Bits(0) = {}
<1>1. ASSUME NEW q \in 0..4 PROVE Bit(0, q) # 1
  BY PowerValues DEF Bit
<1> QED
  BY <1>1 DEF Bits

LEMMA CharsetFacts ==
  /\ \A k \in 1..32 : Charset[k] \in Nat /\ Charset[k] # Separator
  /\ \A j, k \in 1..32 : Charset[j] = Charset[k] => j = k
<1>1. \A k \in 1..32 : Charset[k] \in Nat /\ Charset[k] # Separator
  BY DEF Charset, Separator
<1>2. ASSUME NEW j \in 1..32, NEW k \in 1..32, Charset[j] = Charset[k]
      PROVE  j = k
  BY <1>2 DEF Charset
<1> QED
  BY <1>1, <1>2

LEMMA NetworkCases ==
  ASSUME NEW n \in Networks
  PROVE  \/ n = [coin |-> "iota", testnet |-> FALSE]
         \/ n = [coin |-> "iota", testnet |-> TRUE]
         \/ n = [coin |-> "shimmer", testnet |-> FALSE]
         \/ n = [coin |-> "shimmer", testnet |-> TRUE]
BY DEF Networks

\* The prefixes.
LEMMA HrpCases ==
  /\ Hrp([coin |-> "iota", testnet |-> FALSE]) = <<105, 111, 116, 97>>
  /\ Hrp([coin |-> "iota", testnet |-> TRUE]) = <<97, 116, 111, 105>>
  /\ Hrp([coin |-> "shimmer", testnet |-> FALSE]) = <<115, 109, 114>>
  /\ Hrp([coin |-> "shimmer", testnet |-> TRUE]) = <<114, 109, 115>>
BY DEF Hrp

LEMMA HrpFacts ==
  ASSUME NEW n \in Networks
  PROVE  Hrp(n) \in Seq(33..126) /\ Len(Hrp(n)) \in 3..4
<1>1. CASE n = [coin |-> "iota", testnet |-> FALSE]
  <2>1. Hrp(n) = <<105, 111, 116, 97>>
    BY <1>1, HrpCases, Zenon
  <2> QED
    BY <2>1
<1>2. CASE n = [coin |-> "iota", testnet |-> TRUE]
  <2>1. Hrp(n) = <<97, 116, 111, 105>>
    BY <1>2, HrpCases, Zenon
  <2> QED
    BY <2>1
<1>3. CASE n = [coin |-> "shimmer", testnet |-> FALSE]
  <2>1. Hrp(n) = <<115, 109, 114>>
    BY <1>3, HrpCases, Zenon
  <2> QED
    BY <2>1
<1>4. CASE n = [coin |-> "shimmer", testnet |-> TRUE]
  <2>1. Hrp(n) = <<114, 109, 115>>
    BY <1>4, HrpCases, Zenon
  <2> QED
    BY <2>1
<1> QED
  BY <1>1, <1>2, <1>3, <1>4, NetworkCases

\* The first character of the prefix tells the network.
LEMMA HrpIsInjective ==
  ASSUME NEW m \in Networks, NEW n \in Networks, Hrp(m) = Hrp(n)
  PROVE  m = n
<1> DEFINE first(c, b) == IF c = "iota" THEN IF b THEN 97 ELSE 105
                                        ELSE IF b THEN 114 ELSE 115
<1>1. ASSUME NEW q \in Networks
      PROVE  Hrp(q)[1] = first(q.coin, q.testnet)
  <2>1. CASE q = [coin |-> "iota", testnet |-> FALSE]
    <3>1. Hrp(q)[1] = 105
      BY <2>1, HrpCases
    <3> QED
      BY <2>1, <3>1
  <2>2. CASE q = [coin |-> "iota", testnet |-> TRUE]
    <3>1. Hrp(q)[1] = 97
      BY <2>2, HrpCases
    <3> QED
      BY <2>2, <3>1
  <2>3. CASE q = [coin |-> "shimmer", testnet |-> FALSE]
    <3>1. Hrp(q)[1] = 115
      BY <2>3, HrpCases
    <3> QED
      BY <2>3, <3>1
  <2>4. CASE q = [coin |-> "shimmer", testnet |-> TRUE]
    <3>1. Hrp(q)[1] = 114
      BY <2>4, HrpCases
    <3> QED
      BY <2>4, <3>1
  <2> QED
    BY <2>1, <2>2, <2>3, <2>4, NetworkCases
<1> HIDE DEF first
<1>2. first(m.coin, m.testnet) = first(n.coin, n.testnet)
  <2>1. /\ Hrp(m)[1] = first(m.coin, m.testnet)
        /\ Hrp(n)[1] = first(n.coin, n.testnet)
    BY <1>1
  <2> QED
    BY <2>1
<1> USE DEF first
<1>3. /\ m = [coin |-> m.coin, testnet |-> m.testnet] /\ n = [coin |-> n.coin, testnet |-> n.testnet]
      /\ m.coin \in {"iota", "shimmer"} /\ n.coin \in {"iota", "shimmer"}
      /\ m.testnet \in BOOLEAN /\ n.testnet \in BOOLEAN
  BY DEF Networks
<1>4. m.coin = n.coin /\ m.testnet = n.testnet
  BY <1>2, <1>3
<1> QED
  BY <1>3, <1>4, Zenon

-----------------------------------------------------------------------------
(* Sequences.                                                                  *)

LEMMA Concat ==
  ASSUME NEW S, NEW s \in Seq(S), NEW t \in Seq(S)
  PROVE  /\ s \o t \in Seq(S) /\ Len(s \o t) = Len(s) + Len(t)
         /\ \A k \in 1..Len(s) : (s \o t)[k] = s[k]
         /\ \A k \in 1..Len(t) : (s \o t)[Len(s) + k] = t[k]
<1>1. /\ s \o t \in Seq(S) /\ Len(s \o t) = Len(s) + Len(t)
      /\ \A k \in 1..(Len(s) + Len(t)) :
           (s \o t)[k] = IF k <= Len(s) THEN s[k] ELSE t[k - Len(s)]
  BY ConcatProperties
<1>2. Len(s) \in Nat /\ Len(t) \in Nat
  OBVIOUS
<1> QED
  BY <1>1, <1>2, SMT

\* What is known of a concatenation.
Joins(r, S, s, t) ==
  /\ r \in Seq(S) /\ Len(r) = Len(s) + Len(t)
  /\ \A k \in 1..Len(s) : r[k] = s[k]
  /\ \A k \in 1..Len(t) : r[Len(s) + k] = t[k]

LEMMA Joining ==
  ASSUME NEW S, NEW s \in Seq(S), NEW t \in Seq(S)
  PROVE  Joins(s \o t, S, s, t)
BY Concat DEF Joins

\* A beginning of a concatenation.
LEMMA Beginning ==
  ASSUME NEW S, NEW s \in Seq(S), NEW t \in Seq(S), NEW m \in Int, m = Len(s)
  PROVE  SubSeq(s \o t, 1, m) = s
<1> DEFINE r == s \o t
<1>1. r \in Seq(S) /\ Len(r) = Len(s) + Len(t) /\ \A k \in 1..Len(s) : r[k] = s[k]
  BY Concat
<1>2. Len(s) \in Nat /\ Len(t) \in Nat
  OBVIOUS
<1> HIDE DEF r
<1>3. \A k \in 1..m : r[k] \in S
  BY <1>1, <1>2
<1>4. /\ SubSeq(r, 1, m) \in Seq(S) /\ Len(SubSeq(r, 1, m)) = m
      /\ \A k \in 1..m : SubSeq(r, 1, m)[k] = r[k]
  BY <1>1, <1>2, <1>3
<1> QED
  BY <1>1, <1>2, <1>4 DEF r

\* What is left of a sequence when k of its elements are taken.
Rest(s, k) == SubSeq(s, k + 1, Len(s))

LEMMA RestIs ==
  ASSUME NEW S, NEW s \in Seq(S), NEW k \in 0..Len(s)
  PROVE  /\ Rest(s, 0) = s
         /\ Rest(s, k) = <<>> <=> k = Len(s)
         /\ k < Len(s) => Head(Rest(s, k)) = s[k + 1] /\ Tail(Rest(s, k)) = Rest(s, k + 1)
<1>1. Rest(s, 0) = s
  BY DEF Rest
<1>2. Rest(s, k) \in Seq(S) /\ Len(Rest(s, k)) = Len(s) - k
  BY DEF Rest
<1>3. Rest(s, k) = <<>> <=> k = Len(s)
  BY <1>2
<1>4. ASSUME k < Len(s)
      PROVE  Head(Rest(s, k)) = s[k + 1] /\ Tail(Rest(s, k)) = Rest(s, k + 1)
  BY <1>4 DEF Rest
<1> QED
  BY <1>1, <1>3, <1>4

-----------------------------------------------------------------------------
(* What the checksum is taken of.                                              *)

LEMMA ExpandedIs ==
  ASSUME NEW h \in Seq(33..126)
  PROVE  Expanded(h) \in Seq(0..31)
<1> DEFINE high == [j \in 1..Len(h) |-> h[j] \div 32]
           low  == [j \in 1..Len(h) |-> h[j] % 32]
<1>1. Len(h) \in Nat /\ \A j \in 1..Len(h) : h[j] \in 33..126
  BY Member
<1>0. \A v \in 33..126 : v \div 32 \in 0..31 /\ v % 32 \in 0..31
  OBVIOUS
<1>2. high \in Seq(0..31)
  <2>1. \A j \in 1..Len(h) : h[j] \div 32 \in 0..31
    BY <1>1, <1>0, Zenon
  <2> QED
    BY <1>1, <2>1
<1>3. low \in Seq(0..31)
  <2>1. \A j \in 1..Len(h) : h[j] % 32 \in 0..31
    BY <1>1, <1>0, Zenon
  <2> QED
    BY <1>1, <2>1
<1>4. <<0>> \in Seq(0..31)
  OBVIOUS
<1> HIDE DEF high, low
<1>5. high \o <<0>> \in Seq(0..31)
  BY <1>2, <1>4, Concat
<1>6. (high \o <<0>>) \o low \in Seq(0..31)
  BY <1>3, <1>5, Concat
<1> QED
  BY <1>6 DEF Expanded, high, low

Zeros == <<0, 0, 0, 0, 0, 0>>

\* The six symbols of the checksum.
LEMMA SymbolsOfIs ==
  ASSUME NEW c
  PROVE  /\ SymbolsOf(c) \in Seq(0..31) /\ Len(SymbolsOf(c)) = 6
         /\ \A k \in 1..6 : Bits(SymbolsOf(c)[k]) = Symbol(c, k)
<1>1. ASSUME NEW k \in 1..6
      PROVE  Number(Symbol(c, k)) \in 0..31 /\ Bits(Number(Symbol(c, k))) = Symbol(c, k)
  <2>1. Symbol(c, k) \in SUBSET (0..4)
    BY DEF Symbol
  <2> QED
    BY <2>1, BitsOfNumber
<1>2. SymbolsOf(c) \in Seq(0..31) /\ Len(SymbolsOf(c)) = 6
  BY <1>1 DEF SymbolsOf
<1>3. \A k \in 1..6 : SymbolsOf(c)[k] = Number(Symbol(c, k))
  BY DEF SymbolsOf
<1> QED
  BY <1>1, <1>2, <1>3

LEMMA ZerosIs ==
  /\ Zeros \in Seq(0..31) /\ Len(Zeros) = 6
  /\ \A k \in 1..6 : Zeros[k] = 0
BY DEF Zeros

\* The values of a text, with zeros or the symbols of the checksum at the end.
Before(n, data)    == Expanded(Hrp(n)) \o data
Ended(n, data, six) == Before(n, data) \o six

\* The values the checksum has taken when it has taken k of w, one after the other.
TakenFrom(f, w, k) ==
  /\ f[0] = {0}
  /\ \A j \in 0..(k - 1) : f[j + 1] = Xor(PolymodStep(f[j]), Bits(w[j + 1]))

LEMMA EndedIs ==
  ASSUME NEW n \in Networks, NEW data \in Seq(0..31), NEW six \in Seq(0..31), Len(six) = 6
  PROVE  /\ Before(n, data) \in Seq(0..31) /\ Ended(n, data, six) \in Seq(0..31)
         /\ Len(Ended(n, data, six)) = Len(Before(n, data)) + 6
         /\ \A k \in 1..Len(Before(n, data)) : Ended(n, data, six)[k] = Before(n, data)[k]
         /\ \A k \in 1..6 : Ended(n, data, six)[Len(Before(n, data)) + k] = six[k]
         /\ Ended(n, data, six) = Expanded(Hrp(n)) \o (data \o six)
<1>1. Expanded(Hrp(n)) \in Seq(0..31)
  BY HrpFacts, ExpandedIs
<1>2. Before(n, data) \in Seq(0..31)
  BY <1>1, Concat DEF Before
<1>3. (Expanded(Hrp(n)) \o data) \o six = Expanded(Hrp(n)) \o (data \o six)
  BY <1>1, ConcatAssociative
<1>4. Ended(n, data, six) = Expanded(Hrp(n)) \o (data \o six)
  BY <1>3, Zenon DEF Ended, Before
<1> DEFINE b == Before(n, data)
<1>5. b \in Seq(0..31)
  BY <1>2
<1> HIDE DEF b
<1>6. /\ b \o six \in Seq(0..31) /\ Len(b \o six) = Len(b) + 6
      /\ \A k \in 1..Len(b) : (b \o six)[k] = b[k]
      /\ \A k \in 1..6 : (b \o six)[Len(b) + k] = six[k]
  <2> DEFINE r == b \o six
  <2>1. /\ r \in Seq(0..31) /\ Len(r) = Len(b) + Len(six)
        /\ \A k \in 1..Len(b) : r[k] = b[k]
        /\ \A k \in 1..Len(six) : r[Len(b) + k] = six[k]
    <3>1. Joins(r, 0..31, b, six)
      BY <1>5, Joining
    <3> QED
      BY <3>1 DEF Joins
  <2> QED
    BY <2>1
<1> QED
  BY <1>2, <1>4, <1>6, Zenon DEF Ended, b

-----------------------------------------------------------------------------
(* What a wallet reads.                                                        *)

LEMMA WrittenIs ==
  ASSUME NEW d \in Seq(0..31)
  PROVE  /\ Written(d) \in Seq(Nat) /\ Len(Written(d)) = Len(d)
         /\ \A k \in 1..Len(d) : /\ Written(d)[k] = Charset[d[k] + 1]
                                 /\ Written(d)[k] # Separator
<1>1. ASSUME NEW k \in 1..Len(d)
      PROVE  Charset[d[k] + 1] \in Nat /\ Charset[d[k] + 1] # Separator
  <2>1. d[k] \in 0..31
    BY Member
  <2>2. \A v \in 0..31 : v + 1 \in 1..32
    OBVIOUS
  <2>3. d[k] + 1 \in 1..32
    BY <2>1, <2>2, Zenon
  <2> QED
    BY <2>3, CharsetFacts
<1>2. Len(d) \in Nat
  OBVIOUS
<1>3. Written(d) \in Seq(Nat) /\ Len(Written(d)) = Len(d)
  BY <1>1, <1>2 DEF Written
<1>4. \A k \in 1..Len(d) : Written(d)[k] = Charset[d[k] + 1]
  BY DEF Written
<1> QED
  BY <1>1, <1>3, <1>4

TextOf(h, d) == h \o <<Separator>> \o Written(d)

LEMMA TextIs ==
  ASSUME NEW h \in Seq(33..126), NEW d \in Seq(0..31)
  PROVE  /\ TextOf(h, d) \in Seq(Nat) /\ Len(TextOf(h, d)) = Len(h) + 1 + Len(d)
         /\ TextOf(h, d)[Len(h) + 1] = Separator
         /\ \A k \in 1..Len(d) : /\ TextOf(h, d)[Len(h) + 1 + k] = Charset[d[k] + 1]
                                 /\ TextOf(h, d)[Len(h) + 1 + k] # Separator
         /\ SubSeq(TextOf(h, d), 1, Len(h)) = h
<1> DEFINE s == <<Separator>>
           w == Written(d)
           b == h \o s
           r == b \o w
<1>1. /\ s \in Seq(Nat) /\ Len(s) = 1 /\ s[1] = Separator
  BY DEF Separator
<1>2. h \in Seq(Nat) /\ Len(h) \in Nat /\ Len(d) \in Nat
  <2>1. ASSUME NEW k \in 1..Len(h) PROVE h[k] \in Nat
    <3>1. h[k] \in 33..126
      BY Member
    <3>2. \A v \in 33..126 : v \in Nat
      OBVIOUS
    <3> QED
      BY <3>1, <3>2, Zenon
  <2> QED
    BY <2>1
<1>3. w \in Seq(Nat) /\ Len(w) = Len(d)
  BY WrittenIs
<1> HIDE DEF s, w
<1>4. Joins(b, Nat, h, s)
  BY <1>1, <1>2, Joining
<1>5. b \in Seq(Nat) /\ Len(b) = Len(h) + 1 /\ b[Len(h) + 1] = Separator
  <2> HIDE DEF b
  <2>1. /\ b \in Seq(Nat) /\ Len(b) = Len(h) + Len(s)
        /\ \A k \in 1..Len(s) : b[Len(h) + k] = s[k]
    BY <1>4, Zenon DEF Joins
  <2> QED
    BY <1>1, <2>1
<1> HIDE DEF b
<1>6. Joins(r, Nat, b, w)
  BY <1>3, <1>5, Joining
<1>7. /\ r \in Seq(Nat) /\ Len(r) = Len(h) + 1 + Len(d) /\ r[Len(h) + 1] = Separator
      /\ \A k \in 1..Len(d) : r[Len(h) + 1 + k] = w[k]
  <2> HIDE DEF r
  <2>1. /\ r \in Seq(Nat) /\ Len(r) = Len(b) + Len(w)
        /\ \A k \in 1..Len(b) : r[k] = b[k]
        /\ \A k \in 1..Len(w) : r[Len(b) + k] = w[k]
    BY <1>6, Zenon DEF Joins
  <2>2. Len(h) + 1 \in 1..Len(b)
    BY <1>2, <1>5
  <2>3. r[Len(h) + 1] = Separator
    BY <1>5, <2>1, <2>2, Zenon
  <2>4. \A k \in 1..Len(d) : r[Len(h) + 1 + k] = w[k]
    BY <1>3, <1>5, <2>1, Zenon
  <2> QED
    BY <1>3, <1>5, <2>1, <2>3, <2>4, Zenon
<1>8. r = h \o (s \o w)
  <2>1. (h \o s) \o w = h \o (s \o w)
    BY <1>1, <1>2, <1>3, ConcatAssociative
  <2> QED
    BY <2>1 DEF b
<1>9. SubSeq(r, 1, Len(h)) = h
  <2>1. s \o w \in Seq(Nat)
    BY <1>1, <1>3, Concat
  <2>2. SubSeq(h \o (s \o w), 1, Len(h)) = h
    BY <2>1, <1>2, Beginning
  <2> QED
    BY <2>2, <1>8
<1>10. \A k \in 1..Len(d) : w[k] = Charset[d[k] + 1] /\ w[k] # Separator
  BY WrittenIs DEF w
<1>11. TextOf(h, d) = r
  BY DEF TextOf, b, s, w
<1> HIDE DEF r
<1> QED
  BY <1>7, <1>9, <1>10, <1>11

\* The text, whatever its symbols, is read as the prefix and the symbols it was made of.
LEMMA WalletReads ==
  ASSUME NEW h \in Seq(33..126), NEW d \in Seq(0..31), text = TextOf(h, d)
  PROVE  SplitAt = Len(h) + 1 /\ Prefix = h /\ Symbols = d
<1> DEFINE n == Len(h) + 1
<1>1. /\ text \in Seq(Nat) /\ Len(text) = n + Len(d) /\ text[n] = Separator
      /\ \A k \in 1..Len(d) : text[n + k] = Charset[d[k] + 1] /\ text[n + k] # Separator
      /\ SubSeq(text, 1, Len(h)) = h
  BY TextIs
<1>2. Len(h) \in Nat /\ Len(d) \in Nat /\ n \in Nat /\ n - 1 = Len(h) /\ n >= 1
  OBVIOUS
<1> HIDE DEF n
<1>3. \A k \in (n + 1)..Len(text) : text[k] # Separator
  <2> SUFFICES ASSUME NEW k \in (n + 1)..Len(text)
               PROVE  text[k] # Separator
    OBVIOUS
  <2>1. k - n \in 1..Len(d) /\ n + (k - n) = k
    BY <1>1, <1>2
  <2> QED
    BY <1>1, <2>1
<1>4. SplitAt = n
  <2>1. n \in 1..Len(text)
    BY <1>1, <1>2
  <2>2. ASSUME NEW m \in 1..Len(text), text[m] = Separator,
               \A k \in (m + 1)..Len(text) : text[k] # Separator
        PROVE  m = n
    <3>1. ~(m < n)
      BY <2>1, <2>2, <1>1, <1>2
    <3>2. ~(n < m)
      BY <2>2, <1>3, <1>1, <1>2
    <3> QED
      BY <3>1, <3>2, <1>2
  <2> QED
    BY <2>1, <2>2, <1>1, <1>3, Zenon DEF SplitAt
<1>5. Prefix = h
  BY <1>1, <1>2, <1>4 DEF Prefix
<1>6. Symbols = d
  <2>1. Len(text) - n = Len(d)
    BY <1>1, <1>2
  <2>2. ASSUME NEW k \in 1..Len(d)
        PROVE  (CHOOSE v \in 0..31 : Charset[v + 1] = text[n + k]) = d[k]
    <3>1. d[k] \in 0..31
      BY Member
    <3>2. Charset[d[k] + 1] = text[n + k]
      BY <1>1
    <3>3. ASSUME NEW v \in 0..31, Charset[v + 1] = text[n + k]
          PROVE  v = d[k]
      <4> DEFINE w == d[k]
      <4>1. w \in 0..31 /\ Charset[v + 1] = Charset[w + 1]
        BY <3>1, <3>2, <3>3
      <4> HIDE DEF w
      <4>2. v + 1 \in 1..32 /\ w + 1 \in 1..32
        BY <4>1
      <4>3. v + 1 = w + 1
        BY <4>1, <4>2, CharsetFacts
      <4>4. v = w
        BY <4>1, <4>3
      <4> QED
        BY <4>4 DEF w
    <3> QED
      BY <3>1, <3>2, <3>3, Zenon
  <2> DEFINE behind(m) == [k \in 1..(Len(text) - m) |->
                             CHOOSE v \in 0..31 : Charset[v + 1] = text[m + k]]
  <2>5. Symbols = behind(SplitAt)
    BY Zenon DEF Symbols
  <2> HIDE DEF behind
  <2>6. Symbols = behind(n)
    BY <2>5, <1>4, Zenon
  <2> USE DEF behind
  <2>3. Symbols = [k \in 1..Len(d) |-> CHOOSE v \in 0..31 : Charset[v + 1] = text[n + k]]
    BY <2>1, <2>6, Zenon
  <2>4. Symbols = [k \in 1..Len(d) |-> d[k]]
    BY <2>2, <2>3, Zenon
  <2> QED
    BY <2>4
<1> QED
  BY <1>4, <1>5, <1>6 DEF n

-----------------------------------------------------------------------------
(* Reading divides what the checksum was taken of, the checksum in place of zeros. *)

LEMMA Extending ==
  ASSUME NEW f, NEW w, NEW k \in Nat, TakenFrom(f, w, k)
  PROVE  \E g : /\ TakenFrom(g, w, k + 1)
                /\ g[k + 1] = Xor(PolymodStep(f[k]), Bits(w[k + 1]))
<1> DEFINE next == Xor(PolymodStep(f[k]), Bits(w[k + 1]))
           g == [j \in 0..(k + 1) |-> IF j <= k THEN f[j] ELSE next]
<1>1. f[0] = {0} /\ \A j \in 0..(k - 1) : f[j + 1] = Xor(PolymodStep(f[j]), Bits(w[j + 1]))
  BY DEF TakenFrom
<1>2. g[k + 1] = next /\ \A j \in 0..k : g[j] = f[j]
  <2> HIDE DEF next
  <2> QED
    OBVIOUS
<1>3. 0 \in 0..k /\ k \in 0..k
  OBVIOUS
<1> HIDE DEF g
<1>4. ASSUME NEW j \in 0..((k + 1) - 1)
      PROVE  g[j + 1] = Xor(PolymodStep(g[j]), Bits(w[j + 1]))
  <2>1. CASE j = k
    BY <2>1, <1>2, <1>3
  <2>2. CASE j # k
    <3>1. j \in 0..(k - 1) /\ j \in 0..k /\ j + 1 \in 0..k
      BY <2>2
    <3> QED
      BY <3>1, <1>1, <1>2
  <2> QED
    BY <2>1, <2>2
<1>5. TakenFrom(g, w, k + 1)
  BY <1>1, <1>2, <1>3, <1>4 DEF TakenFrom
<1> QED
  BY <1>2, <1>5

\* The symbol of the checksum that has come to i when k values are read behind n others.
Arrived(six, n, k, i) == IF k + i - (n + 6) >= 1 THEN Bits(six[k + i - (n + 6)]) ELSE {}

LEMMA ArrivalPlaces ==
  ASSUME NEW n \in Nat, NEW k \in 0..(n + 5)
  PROVE  /\ k + 1 > n => /\ k + 1 + 6 - (n + 6) \in 1..6 /\ k + 1 + 6 - (n + 6) >= 1
                         /\ n + (k + 1 + 6 - (n + 6)) = k + 1
         /\ k + 1 <= n => ~(k + 1 + 6 - (n + 6) >= 1)
         /\ ~(k + 1 - (n + 6) >= 1)
         /\ \A i \in 1..6 : n + 6 + i - (n + 6) = i /\ i >= 1
OBVIOUS

\* What is left of the division when k values are read.
LeftOf(f, n, six, k) == [i \in 1..6 |-> Xor(Symbol(f[k], i), Arrived(six, n, k, i))]

\* Reading one more value is a step of the division.
DividesAt(f, u, n, six, k) ==
  Divided(LeftOf(f, n, six, k), Bits(u[k + 1])) = LeftOf(f, n, six, k + 1)

LEMMA ReadingDivides ==
  ASSUME NEW net \in Networks, NEW data \in Seq(0..31), NEW six \in Seq(0..31), Len(six) = 6,
         NEW f, NEW n, n = Len(Before(net, data)), NEW k \in 0..(n + 5),
         TakenFrom(f, Ended(net, data, Zeros), n + 6)
  PROVE  DividesAt(f, Ended(net, data, six), n, six, k)
<1> DEFINE w == Ended(net, data, Zeros)
           u == Ended(net, data, six)
           c == f[k]
           z == Bits(w[k + 1])
           v == Bits(u[k + 1])
           r == LeftOf(f, n, six, k)
           times(i) == Times(Symbol(c, 1), Bits(Divisor[i]))
<1>1. n \in Nat
  BY EndedIs
<1>2. f[k + 1] = Xor(PolymodStep(c), z)
  BY <1>1 DEF TakenFrom
<1>3. z \in SUBSET (0..4)
  BY DEF Bits
<1>4. v = Xor(z, Arrived(six, n, k + 1, 6))
  <2>1. CASE k + 1 <= n
    <3>1. u[k + 1] = w[k + 1]
      <4>1. k + 1 \in 1..n
        BY <2>1
      <4>2. /\ \A j \in 1..n : Ended(net, data, six)[j] = Before(net, data)[j]
            /\ \A j \in 1..n : Ended(net, data, Zeros)[j] = Before(net, data)[j]
        BY EndedIs, ZerosIs
      <4> QED
        BY <4>1, <4>2
    <3>2. Arrived(six, n, k + 1, 6) = {}
      <4>1. ~(k + 1 + 6 - (n + 6) >= 1)
        BY <2>1, <1>1, ArrivalPlaces
      <4> QED
        BY <4>1 DEF Arrived
    <3> QED
      BY <3>1, <3>2, XorLaws
  <2>2. CASE k + 1 > n
    <3> DEFINE j == k + 1 + 6 - (n + 6)
    <3>1. j \in 1..6 /\ j >= 1 /\ n + j = k + 1
      BY <2>2, <1>1, ArrivalPlaces
    <3>2. /\ \A q \in 1..6 : Ended(net, data, six)[n + q] = six[q]
          /\ \A q \in 1..6 : Ended(net, data, Zeros)[n + q] = Zeros[q]
      <4>1. \A q \in 1..6 : Ended(net, data, six)[Len(Before(net, data)) + q] = six[q]
        BY EndedIs
      <4>2. \A q \in 1..6 : Ended(net, data, Zeros)[Len(Before(net, data)) + q] = Zeros[q]
        BY EndedIs, ZerosIs
      <4> QED
        BY <4>1, <4>2, Zenon
    <3>3. Arrived(six, n, k + 1, 6) = Bits(six[j])
      BY <3>1 DEF Arrived
    <3> HIDE DEF j
    <3>4. u[k + 1] = six[j] /\ w[k + 1] = 0
      BY <3>1, <3>2, ZerosIs
    <3>5. z = {} /\ v = Bits(six[j])
      BY <3>4, NoBits
    <3> QED
      BY <3>3, <3>5, XorLaws
  <2> QED
    BY <2>1, <2>2, <1>1
<1>5. r[1] = Symbol(c, 1)
  <2>1. ~(k + 1 - (n + 6) >= 1)
    BY <1>1
  <2>2. Arrived(six, n, k, 1) = {}
    BY <2>1 DEF Arrived
  <2>3. r[1] = Xor(Symbol(c, 1), Arrived(six, n, k, 1))
    BY DEF LeftOf
  <2> QED
    BY <2>2, <2>3, XorLaws
<1>6. ASSUME NEW i \in 1..6
      PROVE  Symbol(f[k + 1], i) = Xor(IF i = 6 THEN z ELSE Symbol(c, i + 1), times(i))
  <2> HIDE DEF c, z
  <2> QED
    BY <1>2, <1>3, StepDivides
<1>7. ASSUME NEW i \in 1..6
      PROVE  Xor(IF i = 6 THEN v ELSE r[i + 1], times(i))
               = Xor(Symbol(f[k + 1], i), Arrived(six, n, k + 1, i))
  <2>1. CASE i = 6
    <3> DEFINE a == Arrived(six, n, k + 1, 6)
               t == times(6)
    <3>1. Symbol(f[k + 1], 6) = Xor(z, t) /\ v = Xor(z, a)
      BY <1>4, <1>6
    <3> HIDE DEF a, t, z, v
    <3>2. Xor(Xor(z, a), t) = Xor(Xor(z, t), a)
      BY XorLaws
    <3> QED
      BY <2>1, <3>1, <3>2 DEF a, t
  <2>2. CASE i # 6
    <3> DEFINE a == Arrived(six, n, k + 1, i)
               t == times(i)
               s == Symbol(c, i + 1)
    <3>1. r[i + 1] = Xor(s, a)
      <4>1. i + 1 \in 1..6 /\ k + (i + 1) - (n + 6) = k + 1 + i - (n + 6)
        BY <2>2, <1>1
      <4>2. Arrived(six, n, k, i + 1) = a
        BY <4>1 DEF Arrived
      <4>3. r[i + 1] = Xor(s, Arrived(six, n, k, i + 1))
        BY <4>1 DEF LeftOf
      <4> QED
        BY <4>2, <4>3
    <3>2. Symbol(f[k + 1], i) = Xor(s, t)
      BY <2>2, <1>6
    <3> HIDE DEF a, t, s, r
    <3>3. Xor(Xor(s, a), t) = Xor(Xor(s, t), a)
      BY XorLaws
    <3> QED
      BY <2>2, <3>1, <3>2, <3>3 DEF a, t
  <2> QED
    BY <2>1, <2>2
<1>8. Divided(r, v) = [i \in 1..6 |-> Xor(IF i = 6 THEN v ELSE r[i + 1], times(i))]
  <2>1. Divided(r, v) = [i \in 1..6 |-> Xor(IF i = 6 THEN v ELSE r[i + 1],
                                            Times(r[1], Bits(Divisor[i])))]
    BY Zenon DEF Divided
  <2> QED
    BY <2>1, <1>5, Zenon
<1>9. LeftOf(f, n, six, k + 1)
        = [i \in 1..6 |-> Xor(Symbol(f[k + 1], i), Arrived(six, n, k + 1, i))]
  BY Zenon DEF LeftOf
<1>10. Divided(r, v) = LeftOf(f, n, six, k + 1)
  BY <1>7, <1>8, <1>9, Zenon
<1> QED
  BY <1>10, Zenon DEF DividesAt

LEMMA OneIs == One = [i \in 1..6 |-> Symbol({0}, i)]
<1>1. {0} \in SUBSET (0..4)
  OBVIOUS
<1>2. \A i \in 1..6 : Symbol({0}, i) = IF i = 6 THEN {0} ELSE {}
  BY <1>1, SymbolOfValue
<1>3. One = [i \in 1..6 |-> IF i = 6 THEN {0} ELSE {}]
  BY DEF One
<1> QED
  BY <1>2, <1>3, Zenon

\* The division starts with 1, and with the checksum as it is written it ends with 1.
LEMMA DivisionStarts ==
  ASSUME NEW f, NEW n \in Nat, NEW six, f[0] = {0}
  PROVE  LeftOf(f, n, six, 0) = One
<1>1. ASSUME NEW i \in 1..6
      PROVE  Xor(Symbol(f[0], i), Arrived(six, n, 0, i)) = Symbol({0}, i)
  <2>1. Arrived(six, n, 0, i) = {}
    <3>1. ~(0 + i - (n + 6) >= 1)
      OBVIOUS
    <3> QED
      BY <3>1 DEF Arrived
  <2> QED
    BY <2>1, XorLaws
<1> QED
  BY <1>1, OneIs, Zenon DEF LeftOf

LEMMA DivisionEnds ==
  ASSUME NEW f, NEW n \in Nat
  PROVE  LeftOf(f, n, SymbolsOf(Xor(f[n + 6], {0})), n + 6) = One
<1> DEFINE c == f[n + 6]
           six == SymbolsOf(Xor(c, {0}))
<1>1. ASSUME NEW i \in 1..6
      PROVE  Xor(Symbol(c, i), Arrived(six, n, n + 6, i)) = Symbol({0}, i)
  <2>1. Arrived(six, n, n + 6, i) = Bits(six[i])
    <3>1. n + 6 + i - (n + 6) = i /\ i >= 1
      BY ArrivalPlaces
    <3> QED
      BY <3>1 DEF Arrived
  <2> HIDE DEF c
  <2>2. Bits(six[i]) = Symbol(Xor(c, {0}), i)
    BY SymbolsOfIs
  <2>3. Symbol(Xor(c, {0}), i) = Xor(Symbol(c, i), Symbol({0}, i))
    <3> DEFINE one == {0}
    <3> HIDE DEF one
    <3>1. Symbol(Xor(c, one), i) = Xor(Symbol(c, i), Symbol(one, i))
      BY XorOfSymbols, Zenon
    <3> QED
      BY <3>1, Zenon DEF one
  <2> DEFINE s == Symbol(c, i)
             o == Symbol({0}, i)
  <2>4. Xor(s, Arrived(six, n, n + 6, i)) = Xor(s, Xor(s, o))
    BY <2>1, <2>2, <2>3
  <2> HIDE DEF s, o
  <2>5. Xor(s, Xor(s, o)) = o
    <3>1. Xor(Xor(s, s), o) = Xor(s, Xor(s, o)) /\ Xor(s, s) = {} /\ Xor({}, o) = o
      BY XorLaws
    <3> QED
      BY <3>1
  <2> QED
    BY <2>4, <2>5 DEF s, o
<1> QED
  BY <1>1, OneIs, Zenon DEF LeftOf

-----------------------------------------------------------------------------
(* How far the checksum and the division have come.                            *)

\* c is the checksum when rest is still to be taken.
Taking(net, data, c, rest) ==
  \E f : \E k \in 0..(Len(Before(net, data)) + 6) :
    /\ TakenFrom(f, Ended(net, data, Zeros), k)
    /\ c = f[k] /\ rest = Rest(Ended(net, data, Zeros), k)

\* c is the checksum of it all.
ChecksumOf(net, data, c) ==
  \E f : /\ TakenFrom(f, Ended(net, data, Zeros), Len(Before(net, data)) + 6)
         /\ c = f[Len(Before(net, data)) + 6]

\* r is left of the division when rest is still to be read.
Reading(net, data, c, rest, r) ==
  \E f : \E k \in 0..(Len(Before(net, data)) + 6) :
    /\ TakenFrom(f, Ended(net, data, Zeros), Len(Before(net, data)) + 6)
    /\ c = f[Len(Before(net, data)) + 6]
    /\ rest = Rest(Ended(net, data, SymbolsOf(Xor(c, {0}))), k)
    /\ r = LeftOf(f, Len(Before(net, data)), SymbolsOf(Xor(c, {0})), k)

\* Both come to each value in turn and then to an end.
LEMMA RestOfEnded ==
  ASSUME NEW net \in Networks, NEW data \in Seq(0..31), NEW six \in Seq(0..31), Len(six) = 6,
         NEW k \in 0..(Len(Before(net, data)) + 6)
  PROVE  /\ Rest(Ended(net, data, six), 0) = Ended(net, data, six)
         /\ Rest(Ended(net, data, six), k) = <<>> <=> k = Len(Before(net, data)) + 6
         /\ k < Len(Before(net, data)) + 6 =>
              /\ Head(Rest(Ended(net, data, six), k)) = Ended(net, data, six)[k + 1]
              /\ Tail(Rest(Ended(net, data, six), k)) = Rest(Ended(net, data, six), k + 1)
<1> DEFINE s == Ended(net, data, six)
           m == Len(Before(net, data)) + 6
<1>1. s \in Seq(0..31) /\ Len(s) = m
  BY EndedIs
<1> HIDE DEF s, m
<1>2. k \in 0..Len(s)
  BY <1>1 DEF m
<1>3. /\ Rest(s, 0) = s /\ (Rest(s, k) = <<>> <=> k = m)
      /\ k < m => Head(Rest(s, k)) = s[k + 1] /\ Tail(Rest(s, k)) = Rest(s, k + 1)
  BY <1>1, <1>2, RestIs
<1> QED
  BY <1>3 DEF s, m

LEMMA TakingStarts ==
  ASSUME NEW net \in Networks, NEW data \in Seq(0..31)
  PROVE  Taking(net, data, {0}, Expanded(Hrp(net)) \o data \o Zeros)
<1> DEFINE f == [j \in {0} |-> {0}]
           w == Ended(net, data, Zeros)
           n == Len(Before(net, data))
<1>1. n \in Nat
  BY EndedIs, ZerosIs
<1>2. f[0] = {0}
  OBVIOUS
<1> HIDE DEF f
<1>3. TakenFrom(f, w, 0)
  BY <1>2 DEF TakenFrom
<1>4. 0 \in 0..(n + 6)
  BY <1>1
<1>5. Expanded(Hrp(net)) \o data \o Zeros = Rest(w, 0)
  <2>1. Rest(w, 0) = w
    BY <1>4, RestOfEnded, ZerosIs
  <2> QED
    BY <2>1, Zenon DEF Ended, Before
<1> QED
  BY <1>2, <1>3, <1>4, <1>5 DEF Taking

LEMMA TakingContinues ==
  ASSUME NEW net \in Networks, NEW data \in Seq(0..31), NEW c, NEW rest,
         Taking(net, data, c, rest), rest # <<>>
  PROVE  Taking(net, data, Xor(PolymodStep(c), Bits(Head(rest))), Tail(rest))
<1> DEFINE w == Ended(net, data, Zeros)
           n == Len(Before(net, data))
<1>1. PICK f : \E k \in 0..(n + 6) : TakenFrom(f, w, k) /\ c = f[k] /\ rest = Rest(w, k)
  BY Zenon DEF Taking
<1>2. PICK k \in 0..(n + 6) : TakenFrom(f, w, k) /\ c = f[k] /\ rest = Rest(w, k)
  BY <1>1
<1>3. n \in Nat
  BY EndedIs, ZerosIs
<1>4. /\ Rest(w, k) = <<>> <=> k = n + 6
      /\ k < n + 6 => Head(Rest(w, k)) = w[k + 1] /\ Tail(Rest(w, k)) = Rest(w, k + 1)
  BY RestOfEnded, ZerosIs
<1> HIDE DEF w, n
<1>5. k \in Nat /\ k < n + 6 /\ k + 1 \in 0..(n + 6)
  BY <1>2, <1>3, <1>4
<1>6. PICK g : TakenFrom(g, w, k + 1) /\ g[k + 1] = Xor(PolymodStep(f[k]), Bits(w[k + 1]))
  BY <1>2, <1>5, Extending
<1>7. /\ Xor(PolymodStep(c), Bits(Head(rest))) = g[k + 1]
      /\ Tail(rest) = Rest(w, k + 1)
  BY <1>2, <1>4, <1>5, <1>6
<1> QED
  BY <1>5, <1>6, <1>7, Zenon DEF Taking, w, n

LEMMA TakingEnds ==
  ASSUME NEW net \in Networks, NEW data \in Seq(0..31), NEW c, Taking(net, data, c, <<>>)
  PROVE  ChecksumOf(net, data, c)
<1> DEFINE w == Ended(net, data, Zeros)
           n == Len(Before(net, data))
<1>1. PICK f : \E k \in 0..(n + 6) : TakenFrom(f, w, k) /\ c = f[k] /\ <<>> = Rest(w, k)
  BY Zenon DEF Taking
<1>2. PICK k \in 0..(n + 6) : TakenFrom(f, w, k) /\ c = f[k] /\ <<>> = Rest(w, k)
  BY <1>1
<1>3. Rest(w, k) = <<>> <=> k = n + 6
  BY RestOfEnded, ZerosIs
<1>4. k = n + 6
  BY <1>2, <1>3
<1> QED
  BY <1>2, <1>4, Zenon DEF ChecksumOf

LEMMA ReadingStarts ==
  ASSUME NEW net \in Networks, NEW data \in Seq(0..31), NEW c, ChecksumOf(net, data, c)
  PROVE  Reading(net, data, c, Expanded(Hrp(net)) \o (data \o SymbolsOf(Xor(c, {0}))), One)
<1> DEFINE six == SymbolsOf(Xor(c, {0}))
           u == Ended(net, data, six)
           n == Len(Before(net, data))
<1>1. PICK f : TakenFrom(f, Ended(net, data, Zeros), n + 6) /\ c = f[n + 6]
  BY DEF ChecksumOf
<1>2. six \in Seq(0..31) /\ Len(six) = 6
  BY SymbolsOfIs
<1>3. n \in Nat /\ 0 \in 0..(n + 6)
  BY EndedIs, ZerosIs
<1>4. Expanded(Hrp(net)) \o (data \o six) = Rest(u, 0)
  <2> HIDE DEF six
  <2>1. u = Expanded(Hrp(net)) \o (data \o six)
    BY <1>2, EndedIs
  <2>2. Rest(u, 0) = u
    BY <1>2, <1>3, RestOfEnded
  <2> QED
    BY <2>1, <2>2, Zenon
<1>5. LeftOf(f, n, six, 0) = One
  <2>1. f[0] = {0}
    BY <1>1, Zenon DEF TakenFrom
  <2> QED
    BY <2>1, <1>3, DivisionStarts
<1> QED
  BY <1>1, <1>3, <1>4, <1>5, Zenon DEF Reading

LEMMA ReadingContinues ==
  ASSUME NEW net \in Networks, NEW data \in Seq(0..31), NEW c, NEW rest, NEW r,
         Reading(net, data, c, rest, r), rest # <<>>
  PROVE  Reading(net, data, c, Tail(rest), Divided(r, Bits(Head(rest))))
<1> DEFINE w == Ended(net, data, Zeros)
           six == SymbolsOf(Xor(c, {0}))
           u == Ended(net, data, six)
           n == Len(Before(net, data))
<1>1. PICK f : \E k \in 0..(n + 6) : /\ TakenFrom(f, w, n + 6) /\ c = f[n + 6]
                                     /\ rest = Rest(u, k) /\ r = LeftOf(f, n, six, k)
  BY Zenon DEF Reading
<1>2. PICK k \in 0..(n + 6) : /\ TakenFrom(f, w, n + 6) /\ c = f[n + 6]
                              /\ rest = Rest(u, k) /\ r = LeftOf(f, n, six, k)
  BY <1>1
<1>3. six \in Seq(0..31) /\ Len(six) = 6
  BY SymbolsOfIs
<1>4. n \in Nat
  BY EndedIs, ZerosIs
<1> HIDE DEF six
<1>5. /\ Rest(u, k) = <<>> <=> k = n + 6
      /\ k < n + 6 => Head(Rest(u, k)) = u[k + 1] /\ Tail(Rest(u, k)) = Rest(u, k + 1)
  BY <1>3, RestOfEnded
<1>6. k \in 0..(n + 5) /\ k < n + 6 /\ k + 1 \in 0..(n + 6)
  <2> HIDE DEF u, n
  <2> QED
    BY <1>2, <1>4, <1>5
<1>7. Divided(LeftOf(f, n, six, k), Bits(u[k + 1])) = LeftOf(f, n, six, k + 1)
  <2>1. n = Len(Before(net, data)) /\ TakenFrom(f, Ended(net, data, Zeros), n + 6)
    BY <1>2
  <2> HIDE DEF n
  <2>2. DividesAt(f, Ended(net, data, six), n, six, k)
    BY <1>3, <1>6, <2>1, ReadingDivides
  <2> QED
    BY <2>2, Zenon DEF DividesAt
<1>8. /\ Tail(rest) = Rest(u, k + 1)
      /\ Divided(r, Bits(Head(rest))) = LeftOf(f, n, six, k + 1)
  <2> HIDE DEF u, n
  <2> QED
    BY <1>2, <1>5, <1>6, <1>7
<1> QED
  BY <1>2, <1>6, <1>8, Zenon DEF Reading, six

LEMMA ReadingEnds ==
  ASSUME NEW net \in Networks, NEW data \in Seq(0..31), NEW c, NEW r,
         Reading(net, data, c, <<>>, r)
  PROVE  r = One
<1> DEFINE w == Ended(net, data, Zeros)
           six == SymbolsOf(Xor(c, {0}))
           u == Ended(net, data, six)
           n == Len(Before(net, data))
<1>1. PICK f : \E k \in 0..(n + 6) : /\ TakenFrom(f, w, n + 6) /\ c = f[n + 6]
                                     /\ <<>> = Rest(u, k) /\ r = LeftOf(f, n, six, k)
  BY Zenon DEF Reading
<1>2. PICK k \in 0..(n + 6) : /\ TakenFrom(f, w, n + 6) /\ c = f[n + 6]
                              /\ <<>> = Rest(u, k) /\ r = LeftOf(f, n, six, k)
  BY <1>1
<1>3. six \in Seq(0..31) /\ Len(six) = 6
  BY SymbolsOfIs
<1>4. n \in Nat
  BY EndedIs, ZerosIs
<1> HIDE DEF six
<1>5. k = n + 6
  <2>1. Rest(u, k) = <<>> <=> k = n + 6
    BY <1>3, RestOfEnded
  <2> QED
    BY <1>2, <2>1
<1>6. LeftOf(f, n, SymbolsOf(Xor(f[n + 6], {0})), n + 6) = One
  <2> HIDE DEF n
  <2> QED
    BY <1>4, DivisionEnds
<1> QED
  BY <1>2, <1>5, <1>6, Zenon DEF six

-----------------------------------------------------------------------------
(* The machine.                                                                *)

\* The symbols of the text that is shown.
Shown == out \o SymbolsOf(Xor(chk, {0}))

EncoderInv ==
  /\ Base32Inv /\ input \in Inputs /\ network \in Networks
  /\ phase \in {"base32", "checksum", "shown", "read"}
  /\ phase = "base32" => chk = {0}
  /\ phase # "base32" => result = "encoded"
  /\ phase # "read" => remainder = One

\* The checksum is that of the values it has taken, the text is written from it, and
\* the remainder is that of the values read.
TextInv ==
  /\ phase = "checksum" => Taking(network, out, chk, left)
  /\ phase \in {"shown", "read"} => /\ ChecksumOf(network, out, chk)
                                    /\ text = TextOf(Hrp(network), Shown)
  /\ phase = "read" => Reading(network, out, chk, unread, remainder)

Bech32Inv == EncoderInv /\ TextInv

LEMMA Base32InvStays == Base32Inv /\ UNCHANGED base32Vars => Base32Inv'
BY DEF base32Vars, Base32Inv, Base32Types, BitsAccountedFor, EncodesLosslessly, RoomIsExact,
       SymbolsFor

LEMMA OutIsSymbols == EncoderInv => out \in Seq(0..31) /\ network \in Networks
BY DEF EncoderInv, Base32Inv, Base32Types

LEMMA ShownIs ==
  EncoderInv => /\ Shown \in Seq(0..31) /\ Len(Shown) = Len(out) + 6
                /\ SubSeq(Shown, 1, Len(Shown) - 6) = out
<1> SUFFICES ASSUME EncoderInv
             PROVE  /\ Shown \in Seq(0..31) /\ Len(Shown) = Len(out) + 6
                    /\ SubSeq(Shown, 1, Len(Shown) - 6) = out
  OBVIOUS
<1> DEFINE six == SymbolsOf(Xor(chk, {0}))
<1>1. out \in Seq(0..31) /\ six \in Seq(0..31) /\ Len(six) = 6
  BY OutIsSymbols, SymbolsOfIs
<1> HIDE DEF six
<1>2. Joins(out \o six, 0..31, out, six)
  BY <1>1, Joining
<1>3. out \o six \in Seq(0..31) /\ Len(out \o six) = Len(out) + 6
  BY <1>1, <1>2 DEF Joins
<1>4. Len(out \o six) - 6 \in Int /\ Len(out \o six) - 6 = Len(out)
  BY <1>1, <1>3
<1>5. SubSeq(out \o six, 1, Len(out \o six) - 6) = out
  BY <1>1, <1>4, Beginning
<1> QED
  BY <1>3, <1>5, Zenon DEF Shown, six

LEMMA InitBech32 == Init => Bech32Inv
<1> SUFFICES ASSUME Init PROVE Bech32Inv
  OBVIOUS
<1>1. Base32Inv /\ input \in Inputs
  BY InitBase32 DEF Init, Base32Init
<1>2. EncoderInv
  BY <1>1 DEF EncoderInv, Init
<1>3. TextInv
  BY DEF TextInv, Init
<1> QED
  BY <1>2, <1>3 DEF Bech32Inv

\* Everything but the encoder leaves its symbols alone.
LEMMA EncoderKept ==
  Bech32Inv /\ UNCHANGED <<base32Vars, network>> =>
    Base32Inv' /\ (input \in Inputs)' /\ (network \in Networks)' /\ out' = out
      /\ result' = result
BY Base32InvStays DEF Bech32Inv, EncoderInv, base32Vars

LEMMA EncodeBase32KeepsInv == Bech32Inv /\ EncodeBase32 => Bech32Inv'
<1> SUFFICES ASSUME Bech32Inv, EncodeBase32 PROVE Bech32Inv'
  OBVIOUS
<1>1. /\ phase = "base32" /\ phase' = phase /\ chk' = chk /\ network' = network
      /\ remainder' = remainder
  BY DEF EncodeBase32, bech32Vars, walletVars
<1>2. Base32Inv' /\ input' = input
  BY TakeByteKeepsInv, EmitSymbolKeepsInv, PadKeepsInv
     DEF Bech32Inv, EncoderInv, EncodeBase32, Base32Next, TakeByte, EmitSymbol, Pad
<1>3. EncoderInv'
  BY <1>1, <1>2 DEF Bech32Inv, EncoderInv
<1>4. TextInv'
  BY <1>1 DEF TextInv
<1> QED
  BY <1>3, <1>4 DEF Bech32Inv

LEMMA StartChecksumKeepsInv == Bech32Inv /\ StartChecksum => Bech32Inv'
<1> SUFFICES ASSUME Bech32Inv, StartChecksum PROVE Bech32Inv'
  OBVIOUS
<1>1. /\ phase = "base32" /\ result = "encoded" /\ phase' = "checksum" /\ chk' = chk
      /\ left' = Expanded(Hrp(network)) \o out \o Zeros
      /\ remainder' = remainder /\ network' = network
  BY DEF StartChecksum, walletVars, Zeros
<1>2. /\ Base32Inv' /\ (input \in Inputs)' /\ (network \in Networks)' /\ out' = out
      /\ result' = result
  BY EncoderKept DEF StartChecksum
<1>3. chk = {0} /\ remainder = One
  BY <1>1 DEF Bech32Inv, EncoderInv
<1>4. EncoderInv'
  BY <1>1, <1>2, <1>3 DEF EncoderInv
<1>5. Taking(network, out, {0}, Expanded(Hrp(network)) \o out \o Zeros)
  BY OutIsSymbols, TakingStarts DEF Bech32Inv
<1>6. Taking(network', out', chk', left')
  BY <1>1, <1>2, <1>3, <1>5, Zenon
<1>7. TextInv'
  BY <1>1, <1>6 DEF TextInv
<1> QED
  BY <1>4, <1>7 DEF Bech32Inv

LEMMA TakeValueKeepsInv == Bech32Inv /\ TakeValue => Bech32Inv'
<1> SUFFICES ASSUME Bech32Inv, TakeValue PROVE Bech32Inv'
  OBVIOUS
<1>1. /\ phase = "checksum" /\ left # <<>> /\ phase' = phase /\ left' = Tail(left)
      /\ chk' = Xor(PolymodStep(chk), Bits(Head(left)))
      /\ remainder' = remainder /\ network' = network
  BY Zenon DEF TakeValue, walletVars
<1>2. /\ Base32Inv' /\ (input \in Inputs)' /\ (network \in Networks)' /\ out' = out
      /\ result' = result
  BY EncoderKept DEF TakeValue
<1>3. remainder = One /\ result = "encoded"
  BY <1>1 DEF Bech32Inv, EncoderInv
<1>4. EncoderInv'
  BY <1>1, <1>2, <1>3 DEF EncoderInv
<1>5. Taking(network, out, chk, left)
  BY <1>1 DEF Bech32Inv, TextInv
<1>6. Taking(network, out, Xor(PolymodStep(chk), Bits(Head(left))), Tail(left))
  BY <1>1, <1>5, OutIsSymbols, TakingContinues DEF Bech32Inv
<1>7. Taking(network', out', chk', left')
  BY <1>1, <1>2, <1>6, Zenon
<1>8. TextInv'
  BY <1>1, <1>7 DEF TextInv
<1> QED
  BY <1>4, <1>8 DEF Bech32Inv

LEMMA WriteTextKeepsInv == Bech32Inv /\ WriteText => Bech32Inv'
<1> SUFFICES ASSUME Bech32Inv, WriteText PROVE Bech32Inv'
  OBVIOUS
<1>1. /\ phase = "checksum" /\ left = <<>> /\ phase' = "shown" /\ chk' = chk
      /\ text' = TextOf(Hrp(network), Shown)
      /\ remainder' = remainder /\ network' = network
  BY Zenon DEF WriteText, walletVars, TextOf, Shown
<1>2. /\ Base32Inv' /\ (input \in Inputs)' /\ (network \in Networks)' /\ out' = out
      /\ result' = result
  BY EncoderKept DEF WriteText
<1>3. remainder = One /\ result = "encoded"
  BY <1>1 DEF Bech32Inv, EncoderInv
<1>4. EncoderInv'
  BY <1>1, <1>2, <1>3 DEF EncoderInv
<1>5. Taking(network, out, chk, <<>>)
  BY <1>1 DEF Bech32Inv, TextInv
<1>6. ChecksumOf(network, out, chk)
  BY <1>5, OutIsSymbols, TakingEnds DEF Bech32Inv
<1>7. ChecksumOf(network', out', chk') /\ text' = TextOf(Hrp(network'), Shown')
  BY <1>1, <1>2, <1>6, Zenon DEF Shown
<1>8. TextInv'
  BY <1>1, <1>7 DEF TextInv
<1> QED
  BY <1>4, <1>8 DEF Bech32Inv

\* What the wallet sees of the text.
LEMMA TextReads ==
  Bech32Inv /\ phase \in {"shown", "read"} =>
    /\ text = TextOf(Hrp(network), Shown)
    /\ Prefix = Hrp(network) /\ Symbols = Shown /\ Payload = out
<1> SUFFICES ASSUME Bech32Inv, phase \in {"shown", "read"}
             PROVE  /\ text = TextOf(Hrp(network), Shown)
                    /\ Prefix = Hrp(network) /\ Symbols = Shown /\ Payload = out
  OBVIOUS
<1>1. text = TextOf(Hrp(network), Shown)
  BY Zenon DEF Bech32Inv, TextInv
<1>2. /\ Hrp(network) \in Seq(33..126) /\ Shown \in Seq(0..31)
      /\ SubSeq(Shown, 1, Len(Shown) - 6) = out
  BY OutIsSymbols, HrpFacts, ShownIs DEF Bech32Inv
<1>3. Prefix = Hrp(network) /\ Symbols = Shown
  BY <1>1, <1>2, WalletReads
<1>4. Payload = out
  BY <1>2, <1>3, Zenon DEF Payload
<1> QED
  BY <1>1, <1>3, <1>4

LEMMA StartReadingKeepsInv == Bech32Inv /\ StartReading => Bech32Inv'
<1> SUFFICES ASSUME Bech32Inv, StartReading PROVE Bech32Inv'
  OBVIOUS
<1>1. /\ phase = "shown" /\ phase' = "read" /\ chk' = chk /\ text' = text
      /\ unread' = Expanded(Prefix) \o Symbols
      /\ remainder' = remainder /\ network' = network
  BY Zenon DEF StartReading
<1>2. /\ Base32Inv' /\ (input \in Inputs)' /\ (network \in Networks)' /\ out' = out
      /\ result' = result
  BY EncoderKept DEF StartReading
<1>3. remainder = One /\ result = "encoded"
  BY <1>1 DEF Bech32Inv, EncoderInv
<1>4. EncoderInv'
  BY <1>1, <1>2, <1>3 DEF EncoderInv
<1>5. ChecksumOf(network, out, chk) /\ text = TextOf(Hrp(network), Shown)
  BY <1>1, Zenon DEF Bech32Inv, TextInv
<1>6. Reading(network, out, chk, Expanded(Hrp(network)) \o Shown, One)
  BY <1>5, OutIsSymbols, ReadingStarts DEF Bech32Inv, Shown
<1>7. unread' = Expanded(Hrp(network)) \o Shown
  BY <1>1, TextReads
<1>8. /\ ChecksumOf(network', out', chk') /\ text' = TextOf(Hrp(network'), Shown')
      /\ Reading(network', out', chk', unread', remainder')
  BY <1>1, <1>2, <1>3, <1>5, <1>6, <1>7, Zenon DEF Shown
<1>9. TextInv'
  BY <1>1, <1>8 DEF TextInv
<1> QED
  BY <1>4, <1>9 DEF Bech32Inv

LEMMA ReadValueKeepsInv == Bech32Inv /\ ReadValue => Bech32Inv'
<1> SUFFICES ASSUME Bech32Inv, ReadValue PROVE Bech32Inv'
  OBVIOUS
<1>1. /\ phase = "read" /\ phase' = phase /\ chk' = chk /\ text' = text
      /\ unread # <<>> /\ unread' = Tail(unread)
      /\ remainder' = Divided(remainder, Bits(Head(unread))) /\ network' = network
  BY Zenon DEF ReadValue, bech32Vars
<1>2. /\ Base32Inv' /\ (input \in Inputs)' /\ (network \in Networks)' /\ out' = out
      /\ result' = result
  BY <1>1, EncoderKept DEF ReadValue
<1>3. result = "encoded"
  BY <1>1 DEF Bech32Inv, EncoderInv
<1>4. EncoderInv'
  BY <1>1, <1>2, <1>3 DEF EncoderInv
<1>5. /\ ChecksumOf(network, out, chk) /\ text = TextOf(Hrp(network), Shown)
      /\ Reading(network, out, chk, unread, remainder)
  BY <1>1, Zenon DEF Bech32Inv, TextInv
<1>6. Reading(network, out, chk, Tail(unread), Divided(remainder, Bits(Head(unread))))
  BY <1>1, <1>5, OutIsSymbols, ReadingContinues DEF Bech32Inv
<1>7. /\ ChecksumOf(network', out', chk') /\ text' = TextOf(Hrp(network'), Shown')
      /\ Reading(network', out', chk', unread', remainder')
  BY <1>1, <1>2, <1>5, <1>6, Zenon DEF Shown
<1>8. TextInv'
  BY <1>1, <1>7 DEF TextInv
<1> QED
  BY <1>4, <1>8 DEF Bech32Inv

LEMMA Bech32Invariant == Spec => []Bech32Inv
<1>1. Bech32Inv /\ UNCHANGED vars => Bech32Inv'
  <2> SUFFICES ASSUME Bech32Inv, UNCHANGED vars PROVE Bech32Inv'
    OBVIOUS
  <2>1. /\ network' = network /\ chk' = chk /\ left' = left /\ text' = text /\ phase' = phase
        /\ unread' = unread /\ remainder' = remainder /\ UNCHANGED base32Vars
    BY Zenon DEF vars, bech32Vars, walletVars
  <2>2. Base32Inv' /\ (input \in Inputs)' /\ (network \in Networks)' /\ out' = out
          /\ result' = result
    BY <2>1, EncoderKept
  <2>3. EncoderInv'
    BY <2>1, <2>2 DEF Bech32Inv, EncoderInv
  <2>4. TextInv'
    BY <2>1, <2>2 DEF Bech32Inv, TextInv, Shown
  <2> QED
    BY <2>3, <2>4 DEF Bech32Inv
<1>2. Bech32Inv /\ [Next]_vars => Bech32Inv'
  BY <1>1, EncodeBase32KeepsInv, StartChecksumKeepsInv, TakeValueKeepsInv, WriteTextKeepsInv,
     StartReadingKeepsInv, ReadValueKeepsInv DEF Next
<1> QED
  BY InitBech32, <1>2, PTL DEF Spec

-----------------------------------------------------------------------------

LEMMA HrpLength ==
  ASSUME NEW n \in Networks
  PROVE  /\ Hrp(n) # <<>> /\ Len(Hrp(n)) \in Nat /\ Len(Hrp(n)) <= 4
         /\ \A k \in 1..Len(Hrp(n)) : Hrp(n)[k] \in 33..126
<1> DEFINE h == Hrp(n)
<1>1. h \in Seq(33..126) /\ Len(h) \in 3..4
  BY HrpFacts
<1> HIDE DEF h
<1>2. h # <<>> /\ Len(h) \in Nat /\ Len(h) <= 4 /\ \A k \in 1..Len(h) : h[k] \in 33..126
  <2>1. \A k \in 1..Len(h) : h[k] \in 33..126
    BY <1>1, Member
  <2>2. Len(h) \in Nat /\ Len(h) <= 4 /\ Len(h) # 0
    <3>1. \A v \in 3..4 : v \in Nat /\ v <= 4 /\ v # 0
      OBVIOUS
    <3> QED
      BY <1>1, <3>1, Zenon
  <2>3. h # <<>>
    <3>1. Len(<<>>) = 0
      OBVIOUS
    <3> QED
      BY <2>2, <3>1, Zenon
  <2> QED
    BY <2>1, <2>2, <2>3
<1> QED
  BY <1>2 DEF h

\* address_encode_bech32 does not give up for any address within its room: no address
\* page stays empty, although cb_address_preinit ignores the result.
THEOREM AddressesAreShown == Spec => []AddressIsShown
<1>1. Bech32Inv => AddressIsShown
  <2> SUFFICES ASSUME Bech32Inv, phase = "base32" PROVE
        /\ HasRoom /\ result # "failed"
        /\ result = "encoded" => Encodable(Hrp(network), out)
    BY DEF AddressIsShown
  <2>1. HasRoom
    BY Bech32Assumption, Base32Assumption DEF HasRoom
  <2>2. /\ Len(input) > 0 /\ SymbolsFor(Len(input)) <= OutMax /\ Len(input) \in Nat
        /\ RoomIsExact
    BY Bech32Assumption DEF Bech32Inv, EncoderInv, Base32Inv, Base32Types
  <2>3. SymbolsFor(Len(input)) \in Nat /\ SymbolsFor(Len(input)) > 0
    BY <2>2 DEF SymbolsFor
  <2>4. result # "failed"
    BY <2>2, <2>3, Base32Assumption DEF RoomIsExact
  <2>5. ASSUME result = "encoded" PROVE Encodable(Hrp(network), out)
    <3>1. /\ out \in Seq(0..31) /\ Len(out) \in Nat /\ Len(out) > 0 /\ Len(out) <= OutMax
      BY <2>2, <2>3, <2>5, OutIsSymbols DEF RoomIsExact, Bech32Inv
    <3>2. out # <<>> /\ \A k \in 1..Len(out) : out[k] < 32
      <4>1. \A k \in 1..Len(out) : out[k] \in 0..31
        BY <3>1, Member
      <4>2. \A v \in 0..31 : v < 32
        OBVIOUS
      <4>3. \A k \in 1..Len(out) : out[k] < 32
        BY <4>1, <4>2, Zenon
      <4>4. out # <<>>
        BY <3>1
      <4> QED
        BY <4>3, <4>4
    <3> DEFINE h == Hrp(network)
    <3>3. /\ h # <<>> /\ Len(h) \in Nat /\ Len(h) <= 4
          /\ \A k \in 1..Len(h) : h[k] \in 33..126
      BY OutIsSymbols, HrpLength DEF Bech32Inv
    <3> HIDE DEF h
    <3>4. Len(h) + Len(out) + 7 <= 108 /\ Len(h) + Len(out) + 7 < Room
      BY <3>1, <3>3, Bech32Assumption, Base32Assumption
    <3> QED
      BY <3>2, <3>3, <3>4, Zenon DEF Encodable, h
  <2> QED
    BY <2>1, <2>4, <2>5
<1> QED
  BY <1>1, Bech32Invariant, PTL

\* The text address_encode_bech32 writes fits the buffer of the screen, tells the
\* network and holds every bit of the address.
THEOREM AddressTextsDecode == Spec => []AddressTextDecodes
<1>1. Bech32Inv => AddressTextDecodes
  <2> SUFFICES ASSUME Bech32Inv, phase = "shown" PROVE
        /\ Len(text) < Room
        /\ { n \in Networks : Hrp(n) = Prefix } = {network}
        /\ Len(Payload) = SymbolsFor(Len(input))
        /\ \A p \in 0..(5 * Len(Payload) - 1) :
             SymbolBit(Payload, p) = IF p < 8 * Len(input) THEN ByteBit(input, p) ELSE 0
    BY Zenon DEF AddressTextDecodes
  <2>1. /\ text = TextOf(Hrp(network), Shown) /\ Prefix = Hrp(network) /\ Payload = out
    BY TextReads
  <2>2. result = "encoded" /\ RoomIsExact /\ EncodesLosslessly /\ input \in Inputs
    BY DEF Bech32Inv, EncoderInv, Base32Inv
  <2>3. Len(out) = SymbolsFor(Len(input))
    BY <2>2 DEF RoomIsExact
  <2>4. Len(text) < Room
    <3> DEFINE h == Hrp(network)
    <3>1. h \in Seq(33..126) /\ Len(h) \in Nat /\ Len(h) <= 4
      BY OutIsSymbols, HrpFacts, HrpLength DEF Bech32Inv
    <3>2. Shown \in Seq(0..31) /\ Len(Shown) = Len(out) + 6 /\ Len(out) \in Nat
      BY ShownIs, OutIsSymbols DEF Bech32Inv
    <3> HIDE DEF h
    <3>3. Len(text) = Len(h) + 1 + Len(Shown)
      BY <2>1, <3>1, <3>2, TextIs DEF h
    <3>4. Len(out) <= OutMax
      BY <2>2, <2>3, Bech32Assumption
    <3> QED
      BY <3>1, <3>2, <3>3, <3>4, Bech32Assumption, Base32Assumption
  <2>5. { n \in Networks : Hrp(n) = Prefix } = {network}
    <3>1. network \in Networks
      BY OutIsSymbols DEF Bech32Inv
    <3>2. \A n \in Networks : Hrp(n) = Hrp(network) => n = network
      BY <3>1, HrpIsInjective
    <3> QED
      BY <2>1, <3>1, <3>2, Zenon
  <2>6. \A p \in 0..(5 * Len(out) - 1) :
          SymbolBit(out, p) = IF p < 8 * Len(input) THEN ByteBit(input, p) ELSE 0
    BY <2>2 DEF EncodesLosslessly
  <2> QED
    BY <2>1, <2>3, <2>4, <2>5, <2>6, Zenon
<1> QED
  BY <1>1, Bech32Invariant, PTL

\* The checksum bech32_encode computes is the one a wallet expects: the text leaves the
\* remainder 1.
THEOREM ChecksumsAreRemainders == Spec => []ChecksumIsRemainder
<1>1. Bech32Inv => ChecksumIsRemainder
  <2> SUFFICES ASSUME Bech32Inv, phase = "read", unread = <<>> PROVE remainder = One
    BY DEF ChecksumIsRemainder
  <2>1. Reading(network, out, chk, <<>>, remainder)
    BY DEF Bech32Inv, TextInv
  <2> QED
    BY <2>1, OutIsSymbols, ReadingEnds DEF Bech32Inv
<1> QED
  BY <1>1, Bech32Invariant, PTL

================================================================================
