--------------------------- MODULE ConversionsProofs ---------------------------
(* Proofs about the conversions: amounts, paths and keys of any size are read      *)
(* back by their readers.  First the digits of numbers in any base.               *)
EXTENDS Conversions, FiniteSetTheorems, SequenceTheorems, TLAPS

-----------------------------------------------------------------------------
(* Induction, in a form that names a set: the provers cannot instantiate the      *)
(* library's theorems, which take an operator.                                   *)

LEMMA LeastNumber ==
  ASSUME NEW T, T \subseteq Nat, T # {}
  PROVE  \E x \in T : \A y \in T : x <= y
<1>1. PICK x \in T : \A y \in T : <<y, x>> \notin OpToRel(<, Nat)
  BY NatLessThanWellFounded, WFMin, Zenon
<1>2. \A y \in T : ~ (y < x)
  BY <1>1, Zenon DEF OpToRel
<1>3. \A y \in T : x <= y
  BY <1>2
<1> QED
  BY <1>3

LEMMA SetInduction ==
  ASSUME NEW S, 0 \in S, \A n \in Nat : n \in S => n + 1 \in S
  PROVE  Nat \subseteq S
<1> DEFINE T == Nat \ S
<1>1. SUFFICES ASSUME T # {} PROVE FALSE
  OBVIOUS
<1>2. T \subseteq Nat
  OBVIOUS
<1>3. PICK x \in T : \A y \in T : x <= y
  BY <1>1, <1>2, LeastNumber
<1>4. x - 1 \in Nat /\ x - 1 \notin T
  BY <1>3
<1> QED
  BY <1>3, <1>4

-----------------------------------------------------------------------------
(* Power satisfies its equation.                                               *)

\* f is the function of powers up to m.
PowersUpTo(base, f, m) ==
  /\ f = [k \in 0..m |-> f[k]] /\ f[0] = 1
  /\ \A k \in 0..(m - 1) : f[k + 1] = base * f[k]

LEMMA PowersExist ==
  ASSUME NEW base \in Nat
  PROVE  \A m \in Nat : \E f : PowersUpTo(base, f, m)
<1> DEFINE S == { m \in Nat : \E f : PowersUpTo(base, f, m) }
<1>1. 0 \in S
  <2>1. PowersUpTo(base, [k \in 0..0 |-> 1], 0)
    BY DEF PowersUpTo
  <2> QED
    BY <2>1
<1>2. ASSUME NEW m \in Nat, m \in S
      PROVE  m + 1 \in S
  <2>1. PICK f : PowersUpTo(base, f, m)
    BY <1>2
  <2> DEFINE g == [k \in 0..(m + 1) |-> IF k = m + 1 THEN base * f[m] ELSE f[k]]
  <2>2. PowersUpTo(base, g, m + 1)
    <3>1. g = [k \in 0..(m + 1) |-> g[k]] /\ g[0] = 1
      BY <2>1 DEF PowersUpTo
    <3>2. ASSUME NEW k \in 0..m
          PROVE  g[k + 1] = base * g[k]
      <4>1. k \in 0..(m + 1) /\ k + 1 \in 0..(m + 1) /\ k # m + 1
        OBVIOUS
      <4>2. CASE k = m
        BY <4>1, <4>2
      <4>3. CASE k # m
        <5>1. k \in 0..(m - 1) /\ k + 1 # m + 1
          BY <4>3
        <5>2. f[k + 1] = base * f[k]
          BY <2>1, <5>1 DEF PowersUpTo
        <5> QED
          BY <4>1, <5>1, <5>2
      <4> QED
        BY <4>2, <4>3
    <3> QED
      BY <3>1, <3>2 DEF PowersUpTo
  <2> QED
    BY <2>2
<1> HIDE DEF S
<1>3. Nat \subseteq S
  BY <1>1, <1>2, SetInduction
<1> QED
  BY <1>3 DEF S

LEMMA PowersAgree ==
  ASSUME NEW base \in Nat, NEW m \in Nat, NEW n \in Nat, m <= n,
         NEW f, NEW g, PowersUpTo(base, f, m), PowersUpTo(base, g, n)
  PROVE  \A k \in 0..m : f[k] = g[k]
<1> DEFINE S == { k \in Nat : k \in 0..m => f[k] = g[k] }
<1>1. 0 \in S
  BY DEF PowersUpTo
<1>2. ASSUME NEW k \in Nat, k \in S
      PROVE  k + 1 \in S
  <2>1. CASE k + 1 \in 0..m
    <3>1. k \in 0..(m - 1) /\ k \in 0..(n - 1) /\ k \in 0..m
      BY <2>1
    <3>2. f[k + 1] = base * f[k] /\ g[k + 1] = base * g[k] /\ f[k] = g[k]
      BY <1>2, <3>1 DEF PowersUpTo
    <3> QED
      BY <3>2
  <2> QED
    BY <2>1
<1> HIDE DEF S
<1>3. Nat \subseteq S
  BY <1>1, <1>2, SetInduction
<1> QED
  BY <1>3 DEF S

\* The powers of a base, each from the one before.
LEMMA PowerSteps ==
  ASSUME NEW base \in Nat
  PROVE  /\ Power(base)[0] = 1
         /\ \A n \in Nat : Power(base)[n + 1] = base * Power(base)[n]
<1> DEFINE Upto(m) == CHOOSE f : PowersUpTo(base, f, m)
           F       == [n \in Nat |-> Upto(n)[n]]
           Eq(p)   == p = [n \in Nat |-> IF n = 0 THEN 1 ELSE base * p[n - 1]]
<1>1. \A m \in Nat : PowersUpTo(base, Upto(m), m)
  BY PowersExist
<1> HIDE DEF Upto
<1>2. F[0] = 1
  BY <1>1 DEF PowersUpTo
<1>3. ASSUME NEW n \in Nat
      PROVE  F[n + 1] = base * F[n]
  <2>1. Upto(n)[n] = Upto(n + 1)[n]
    BY <1>1, PowersAgree
  <2>2. n \in 0..((n + 1) - 1) /\ n + 1 \in Nat
    OBVIOUS
  <2>3. Upto(n + 1)[n + 1] = base * Upto(n + 1)[n]
    BY <1>1, <2>2 DEF PowersUpTo
  <2> QED
    BY <2>1, <2>3
<1>4. Eq(F)
  <2>1. ASSUME NEW n \in Nat, n # 0
        PROVE  F[n] = base * F[n - 1]
    <3>1. n - 1 \in Nat /\ (n - 1) + 1 = n
      BY <2>1
    <3> HIDE DEF F
    <3> QED
      BY <1>3, <3>1
  <2>2. F = [n \in Nat |-> F[n]]
    OBVIOUS
  <2> HIDE DEF F
  <2>3. [n \in Nat |-> F[n]] = [n \in Nat |-> IF n = 0 THEN 1 ELSE base * F[n - 1]]
    BY <1>2, <2>1
  <2> QED
    BY <2>2, <2>3
<1> HIDE DEF F
<1>5. Eq(Power(base))
  BY <1>4 DEF Power
<1> HIDE DEF Eq
<1>6. Power(base)[0] = 1
  BY <1>5 DEF Eq
<1>7. ASSUME NEW n \in Nat
      PROVE  Power(base)[n + 1] = base * Power(base)[n]
  <2>1. n + 1 \in Nat /\ n + 1 # 0 /\ (n + 1) - 1 = n
    OBVIOUS
  <2> QED
    BY <1>5, <2>1 DEF Eq
<1> QED
  BY <1>6, <1>7

LEMMA PowerIsPositive ==
  ASSUME NEW base \in Nat \ {0}
  PROVE  \A n \in Nat : Power(base)[n] \in Nat \ {0}
<1> DEFINE S == { n \in Nat : Power(base)[n] \in Nat \ {0} }
<1>1. 0 \in S
  BY PowerSteps
<1>2. ASSUME NEW n \in Nat, n \in S
      PROVE  n + 1 \in S
  <2>1. Power(base)[n + 1] = base * Power(base)[n]
    BY PowerSteps
  <2>2. \A a, b \in Nat \ {0} : a * b \in Nat \ {0}
    BY SMT
  <2> QED
    BY <1>2, <2>1, <2>2
<1> HIDE DEF S
<1>3. Nat \subseteq S
  BY <1>1, <1>2, SetInduction
<1> QED
  BY <1>3 DEF S

LEMMA PowerSum ==
  ASSUME NEW base \in Nat \ {0}, NEW m \in Nat
  PROVE  \A n \in Nat : Power(base)[m + n] = Power(base)[m] * Power(base)[n]
<1> DEFINE P(n) == Power(base)[n]
           S == { n \in Nat : P(m + n) = P(m) * P(n) }
<1>1. /\ P(0) = 1 /\ \A n \in Nat : P(n + 1) = base * P(n)
      /\ \A n \in Nat : P(n) \in Nat
  BY PowerSteps, PowerIsPositive
<1> HIDE DEF P
<1>2. 0 \in S
  BY <1>1
<1>3. ASSUME NEW n \in Nat, n \in S
      PROVE  n + 1 \in S
  <2>1. P(m + (n + 1)) = base * P(m + n)
    <3>1. m + n \in Nat /\ m + (n + 1) = (m + n) + 1
      OBVIOUS
    <3> QED
      BY <1>1, <3>1
  <2>2. P(n + 1) = base * P(n) /\ P(m + n) = P(m) * P(n)
    BY <1>1, <1>3
  <2>3. \A a, b, c \in Nat : a * (b * c) = b * (a * c)
    BY SMT
  <2>4. base * (P(m) * P(n)) = P(m) * (base * P(n))
    BY <1>1, <2>3
  <2> QED
    BY <2>1, <2>2, <2>4
<1> HIDE DEF S
<1>4. Nat \subseteq S
  BY <1>2, <1>3, SetInduction
<1> QED
  BY <1>4 DEF S, P

LEMMA PowerGrows ==
  ASSUME NEW base \in Nat \ {0}, NEW m \in Nat, NEW n \in Nat, m <= n
  PROVE  Power(base)[m] <= Power(base)[n]
<1>1. n - m \in Nat /\ m + (n - m) = n
  OBVIOUS
<1>2. Power(base)[n] = Power(base)[m] * Power(base)[n - m]
  BY <1>1, PowerSum
<1>3. \A a, b \in Nat \ {0} : a <= a * b
  BY SMT
<1> QED
  BY <1>1, <1>2, <1>3, PowerIsPositive

-----------------------------------------------------------------------------
(* Quotients and remainders by any number.                                     *)

LEMMA Division ==
  ASSUME NEW a \in Nat, NEW m \in Nat \ {0}
  PROVE  /\ a \div m \in Nat /\ a % m \in 0..(m - 1)
         /\ a = m * (a \div m) + (a % m)
  BY SMTT(30)

LEMMA QuotientIsUnique ==
  ASSUME NEW m \in Nat \ {0}, NEW q \in Nat, NEW r \in 0..(m - 1),
         NEW p \in Nat, NEW s \in 0..(m - 1), m * q + r = m * p + s
  PROVE  q = p /\ r = s
<1>1. ASSUME NEW x \in Nat, NEW y \in Nat, x < y
      PROVE  m * x + m <= m * y
  <2>1. PICK d \in Nat : y = x + 1 + d
    <3>1. y - x - 1 \in Nat /\ y = x + 1 + (y - x - 1)
      BY <1>1
    <3> QED
      BY <3>1
  <2>2. m * (x + 1 + d) = m * x + m + m * d /\ m * d \in Nat
    BY SMT
  <2> QED
    BY <2>1, <2>2, SMT
<1>2. m * q \in Nat /\ m * p \in Nat
  BY SMT
<1> DEFINE mq == m * q
           mp == m * p
<1>3. q < p => mq + m <= mp
  BY <1>1
<1>4. p < q => mp + m <= mq
  BY <1>1
<1>5. mq \in Nat /\ mp \in Nat /\ mq + r = mp + s
  BY <1>2
<1> HIDE DEF mq, mp
<1>6. q = p
  BY <1>3, <1>4, <1>5
<1>7. mq = mp
  BY <1>6 DEF mq, mp
<1> QED
  BY <1>5, <1>6, <1>7

LEMMA Quotient ==
  ASSUME NEW m \in Nat \ {0}, NEW q \in Nat, NEW r \in 0..(m - 1)
  PROVE  /\ m * q + r \in Nat
         /\ (m * q + r) \div m = q /\ (m * q + r) % m = r
<1> DEFINE a == m * q + r
<1>1. a \in Nat
  BY SMT
<1> HIDE DEF a
<1>2. /\ a \div m \in Nat /\ a % m \in 0..(m - 1)
      /\ a = m * (a \div m) + (a % m)
  BY <1>1, Division
<1>3. m * q + r = m * (a \div m) + (a % m)
  BY <1>2 DEF a
<1>4. q = a \div m /\ r = a % m
  BY <1>2, <1>3, QuotientIsUnique
<1> QED
  BY <1>1, <1>4 DEF a

\* Dividing twice is dividing by the product.
LEMMA QuotientOfQuotient ==
  ASSUME NEW a \in Nat, NEW m \in Nat \ {0}, NEW n \in Nat \ {0}
  PROVE  /\ a \div (m * n) = (a \div m) \div n
         /\ a % (m * n) = m * ((a \div m) % n) + (a % m)
<1> DEFINE q == a \div m
           r == a % m
           p == q \div n
           s == q % n
<1>1. q \in Nat /\ r \in 0..(m - 1) /\ a = m * q + r
  BY Division
<1> HIDE DEF q, r
<1>2. p \in Nat /\ s \in 0..(n - 1) /\ q = n * p + s
  BY <1>1, Division
<1> HIDE DEF p, s
<1>3. m * n \in Nat \ {0}
  BY SMT
<1>4. a = (m * n) * p + (m * s + r)
  <2>1. m * (n * p + s) = (m * n) * p + m * s
    BY <1>2, SMT
  <2>2. m * q = (m * n) * p + m * s
    BY <1>2, <2>1
  <2>3. (m * n) * p \in Nat /\ m * s \in Nat
    BY <1>2, SMT
  <2> QED
    BY <1>1, <2>2, <2>3
<1>5. m * s + r \in 0..(m * n - 1)
  <2>1. PICK d \in Nat : n = s + 1 + d
    <3>1. n - s - 1 \in Nat /\ n = s + 1 + (n - s - 1)
      BY <1>2
    <3> QED
      BY <3>1
  <2>2. m * (s + 1 + d) = m * s + m + m * d /\ m * d \in Nat /\ m * s \in Nat
    BY <1>2, SMT
  <2>3. m * n = m * s + m + m * d
    BY <2>1, <2>2
  <2> QED
    BY <1>1, <2>2, <2>3
<1> DEFINE mn == m * n
           t  == m * s + r
<1>6. mn \in Nat \ {0} /\ t \in 0..(mn - 1) /\ a = mn * p + t
  BY <1>3, <1>4, <1>5
<1> HIDE DEF mn, t
<1>7. a \div mn = p /\ a % mn = t
  BY <1>2, <1>6, Quotient
<1> QED
  BY <1>7 DEF mn, t, p, s, q, r

-----------------------------------------------------------------------------
(* Digits.                                                                     *)

LEMMA DigitSteps ==
  ASSUME NEW base \in Nat \ {0}, NEW v \in Nat, NEW k \in Nat
  PROVE  /\ v \div Power(base)[k] \in Nat
         /\ Digit(v, base, k) \in 0..(base - 1)
         /\ v \div Power(base)[k] = base * (v \div Power(base)[k + 1]) + Digit(v, base, k)
<1> DEFINE m == Power(base)[k]
<1>1. m \in Nat \ {0} /\ k + 1 \in Nat
  BY PowerIsPositive
<1>2. Power(base)[k + 1] = m * base
  <2>1. base * m = m * base
    BY <1>1, SMT
  <2> QED
    BY <2>1, PowerSteps
<1> HIDE DEF m
<1>3. v \div m \in Nat
  BY <1>1, Division
<1>4. v \div (m * base) = (v \div m) \div base
  <2>1. \A x, y \in Nat \ {0} : v \div (x * y) = (v \div x) \div y
    BY QuotientOfQuotient, Zenon
  <2> QED
    BY <1>1, <2>1
<1>5. v \div m = base * ((v \div m) \div base) + ((v \div m) % base)
  BY <1>3, Division
<1>6. (v \div m) % base \in 0..(base - 1)
  BY <1>3, Division
<1> QED
  BY <1>2, <1>3, <1>4, <1>5, <1>6 DEF Digit, m

LEMMA NoDigitsLeft ==
  ASSUME NEW base \in Nat \ {0}, NEW v \in Nat, NEW n \in Nat, v < Power(base)[n]
  PROVE  v \div Power(base)[n] = 0
<1>1. Power(base)[n] \in Nat \ {0}
  BY PowerIsPositive
<1> DEFINE m == Power(base)[n]
<1>2. m \in Nat \ {0} /\ v < m /\ v \in 0..(m - 1)
  BY <1>1
<1> HIDE DEF m
<1>3. m * 0 + v = v
  BY <1>2
<1>4. 0 \in Nat
  OBVIOUS
<1>5. (m * 0 + v) \div m = 0
  BY <1>2, <1>4, Quotient, Zenon
<1>6. v \div m = 0
  BY <1>3, <1>5, Zenon
<1> QED
  BY <1>6 DEF m

LEMMA QuotientByPowers ==
  ASSUME NEW base \in Nat \ {0}, NEW v \in Nat, NEW m \in Nat, NEW n \in Nat
  PROVE  (v \div Power(base)[m]) \div Power(base)[n] = v \div Power(base)[m + n]
<1>1. \A x, y \in Nat \ {0} : v \div (x * y) = (v \div x) \div y
  BY QuotientOfQuotient, Zenon
<1>2. Power(base)[m] \in Nat \ {0} /\ Power(base)[n] \in Nat \ {0}
  BY PowerIsPositive
<1>3. Power(base)[m + n] = Power(base)[m] * Power(base)[n]
  BY PowerSum
<1> QED
  BY <1>1, <1>2, <1>3

LEMMA DigitOfQuotient ==
  ASSUME NEW base \in Nat \ {0}, NEW v \in Nat, NEW m \in Nat, NEW k \in Nat
  PROVE  Digit(v \div Power(base)[m], base, k) = Digit(v, base, m + k)
BY QuotientByPowers DEF Digit

LEMMA DigitOfRemainder ==
  ASSUME NEW base \in Nat \ {0}, NEW v \in Nat, NEW m \in Nat, NEW k \in 0..(m - 1)
  PROVE  Digit(v % Power(base)[m], base, k) = Digit(v, base, k)
<1> DEFINE a == Power(base)[k]
           b == Power(base)[m - k - 1]
           q == v \div Power(base)[m]
           r == v % Power(base)[m]
           p == r \div a
           s == r % a
<1>1. /\ a \in Nat \ {0} /\ b \in Nat \ {0}
      /\ Power(base)[m] \in Nat \ {0} /\ Power(base)[m] = a * (base * b)
  <2>1. k \in Nat /\ m - k - 1 \in Nat /\ m = k + (m - k) /\ m - k \in Nat
        /\ m - k = (m - k - 1) + 1
    OBVIOUS
  <2>2. Power(base)[m - k] = base * b
    BY <2>1, PowerSteps
  <2>3. Power(base)[k + (m - k)] = Power(base)[k] * Power(base)[m - k]
    BY <2>1, PowerSum
  <2> QED
    BY <2>1, <2>2, <2>3, PowerIsPositive
<1>2. q \in Nat /\ r \in Nat /\ v = (a * (base * b)) * q + r
  <2> DEFINE c == Power(base)[m]
  <2>1. c \in Nat \ {0} /\ c = a * (base * b)
    BY <1>1
  <2>2. q = v \div c /\ r = v % c
    OBVIOUS
  <2> HIDE DEF c, q, r, a, b
  <2>3. /\ v \div c \in Nat /\ v % c \in 0..(c - 1)
        /\ v = c * (v \div c) + (v % c)
    BY <2>1, Division
  <2>4. q \in Nat /\ r \in Nat /\ v = c * q + r
    BY <2>1, <2>2, <2>3
  <2> QED
    BY <2>1, <2>4
<1> HIDE DEF q, r, a, b
<1>3. p \in Nat /\ s \in 0..(a - 1) /\ r = a * p + s
  BY <1>1, <1>2, Division
<1> HIDE DEF p, s
<1> DEFINE t == base * (b * q) + p
<1>4. v = a * t + s /\ t \in Nat
  <2>1. a * (base * (b * q) + p) = (a * (base * b)) * q + a * p
    BY <1>1, <1>2, <1>3, SMT
  <2>2. b * q \in Nat /\ base * (b * q) \in Nat /\ (a * (base * b)) * q \in Nat /\ a * p \in Nat
    BY <1>1, <1>2, <1>3, SMT
  <2> QED
    BY <1>2, <1>3, <2>1, <2>2
<1> HIDE DEF t
<1>5. v \div a = t
  BY <1>1, <1>3, <1>4, Quotient
<1>6. t % base = p % base
  <2> DEFINE c == b * q
             d == p \div base
             e == p % base
  <2>1. c \in Nat /\ d \in Nat /\ e \in 0..(base - 1) /\ p = base * d + e
    <3>1. c \in Nat
      BY <1>1, <1>2, SMT
    <3> QED
      BY <1>3, <3>1, Division
  <2>2. t = base * c + p
    BY DEF t
  <2> HIDE DEF c, d, e
  <2>3. t = base * (c + d) + e /\ c + d \in Nat
    <3>1. base * (c + d) = base * c + base * d /\ base * c \in Nat /\ base * d \in Nat
      BY <2>1, SMT
    <3> QED
      BY <2>1, <2>2, <3>1
  <2>4. t % base = e
    BY <2>1, <2>3, Quotient
  <2> QED
    BY <2>4 DEF e
<1>7. Digit(v, base, k) = t % base
  BY <1>5 DEF Digit, a
<1>8. Digit(r, base, k) = p % base
  BY DEF Digit, p, a
<1> QED
  BY <1>6, <1>7, <1>8 DEF r

\* A number of w digits divided by base^m has w - m digits.
LEMMA QuotientIsSmall ==
  ASSUME NEW base \in Nat \ {0}, NEW v \in Nat, NEW m \in Nat, NEW n \in Nat,
         v < Power(base)[m + n]
  PROVE  v \div Power(base)[m] \in Nat /\ v \div Power(base)[m] < Power(base)[n]
<1> DEFINE a == Power(base)[m]
           b == Power(base)[n]
           q == v \div a
<1>1. a \in Nat \ {0} /\ b \in Nat \ {0} /\ v < a * b
  BY PowerIsPositive, PowerSum
<1> HIDE DEF a, b
<1>2. q \in Nat /\ v = a * q + (v % a) /\ v % a \in Nat
  <2>1. /\ v \div a \in Nat /\ v % a \in 0..(a - 1)
        /\ v = a * (v \div a) + (v % a)
    BY <1>1, Division
  <2> QED
    BY <1>1, <2>1
<1> HIDE DEF q
<1>3. ASSUME b <= q PROVE FALSE
  <2>1. PICK d \in Nat : q = b + d
    <3>1. q - b \in Nat /\ q = b + (q - b)
      BY <1>1, <1>2, <1>3
    <3> QED
      BY <3>1
  <2>2. a * (b + d) = a * b + a * d /\ a * d \in Nat /\ a * b \in Nat
    BY <1>1, SMT
  <2> QED
    BY <1>1, <1>2, <2>1, <2>2
<1>4. q < b
  BY <1>1, <1>2, <1>3
<1> QED
  BY <1>2, <1>4 DEF q, a, b

\* Two numbers of n digits with the same digits are the same.
LEMMA SameDigits ==
  ASSUME NEW base \in Nat \ {0}, NEW n \in Nat, NEW u \in Nat, NEW v \in Nat,
         u < Power(base)[n], v < Power(base)[n],
         \A k \in 0..(n - 1) : Digit(u, base, k) = Digit(v, base, k)
  PROVE  u = v
<1> DEFINE S == { j \in Nat : j <= n => u \div Power(base)[n - j] = v \div Power(base)[n - j] }
<1>1. 0 \in S
  BY NoDigitsLeft
<1>2. ASSUME NEW j \in Nat, j \in S
      PROVE  j + 1 \in S
  <2>1. CASE j + 1 <= n
    <3> DEFINE k == n - (j + 1)
    <3>1. k \in 0..(n - 1) /\ k \in Nat /\ n - j = k + 1 /\ j <= n
      BY <2>1
    <3>2. u \div Power(base)[k + 1] = v \div Power(base)[k + 1]
      BY <1>2, <3>1
    <3> HIDE DEF k
    <3>3. /\ u \div Power(base)[k] = base * (u \div Power(base)[k + 1]) + Digit(u, base, k)
          /\ v \div Power(base)[k] = base * (v \div Power(base)[k + 1]) + Digit(v, base, k)
      BY <3>1, DigitSteps
    <3>4. u \div Power(base)[k] = v \div Power(base)[k]
      BY <3>1, <3>2, <3>3
    <3> QED
      BY <3>4 DEF k
  <2> QED
    BY <2>1
<1> HIDE DEF S
<1>3. Nat \subseteq S
  BY <1>1, <1>2, SetInduction
<1>4. u \div Power(base)[n - n] = v \div Power(base)[n - n]
  BY <1>3 DEF S
<1>5. n - n = 0 /\ Power(base)[0] = 1
  BY PowerSteps
<1>6. u \div 1 = u /\ v \div 1 = v
  BY SMT
<1> QED
  BY <1>4, <1>5, <1>6

LEMMA PaddedIsDigits ==
  ASSUME NEW base \in Nat \ {0}, NEW v \in Nat, NEW w \in Nat
  PROVE  /\ Padded(v, base, w) \in Seq(0..(base - 1)) /\ Len(Padded(v, base, w)) = w
         /\ \A k \in 1..w : Padded(v, base, w)[k] = Digit(v, base, w - k)
<1>1. \A k \in 1..w : Digit(v, base, w - k) \in 0..(base - 1)
  BY DigitSteps
<1>2. Padded(v, base, w) \in [1..w -> 0..(base - 1)]
  BY <1>1 DEF Padded
<1> QED
  BY <1>2 DEF Padded

\* Reading the digits gives the number.
LEMMA ValueOfPadded ==
  ASSUME NEW base \in Nat \ {0}, NEW w \in Nat, NEW v \in Nat, v < Power(base)[w]
  PROVE  Value(Padded(v, base, w), base) = v
<1> DEFINE s     == Padded(v, base, w)
           Eq(f) == f = [k \in 0..w |-> IF k = 0 THEN 0 ELSE base * f[k - 1] + s[k]]
           g     == [k \in 0..w |-> v \div Power(base)[w - k]]
           f     == CHOOSE h : Eq(h)
<1>1. Len(s) = w /\ \A k \in 1..w : s[k] = Digit(v, base, w - k)
  BY PaddedIsDigits
<1> HIDE DEF s
<1>2. g[0] = 0
  BY NoDigitsLeft
<1>3. ASSUME NEW k \in 1..w
      PROVE  g[k] = base * g[k - 1] + s[k]
  <2> DEFINE j == w - k
  <2>1. j \in Nat /\ j + 1 = w - (k - 1) /\ k \in 0..w /\ k - 1 \in 0..w
    OBVIOUS
  <2>2. g[k] = v \div Power(base)[j] /\ g[k - 1] = v \div Power(base)[j + 1]
    BY <2>1
  <2>3. s[k] = Digit(v, base, j)
    BY <1>1
  <2> HIDE DEF j, g
  <2>4. v \div Power(base)[j] = base * (v \div Power(base)[j + 1]) + Digit(v, base, j)
    BY <2>1, DigitSteps
  <2> QED
    BY <2>2, <2>3, <2>4
<1>4. Eq(g)
  <2>1. g = [k \in 0..w |-> g[k]]
    OBVIOUS
  <2> HIDE DEF g
  <2>2. \A k \in 0..w : g[k] = IF k = 0 THEN 0 ELSE base * g[k - 1] + s[k]
    BY <1>2, <1>3
  <2> QED
    BY <2>1, <2>2
<1> HIDE DEF g
<1>5. Eq(f)
  BY <1>4
<1>6. Value(s, base) = f[w]
  BY <1>1 DEF Value
<1> HIDE DEF f
<1> DEFINE S == { k \in Nat : k <= w => f[k] = g[k] }
<1>7. 0 \in S
  BY <1>2, <1>5
<1>8. ASSUME NEW k \in Nat, k \in S
      PROVE  k + 1 \in S
  <2>1. CASE k + 1 <= w
    <3>1. k + 1 \in 1..w /\ k + 1 \in 0..w /\ (k + 1) - 1 = k /\ k + 1 # 0 /\ k <= w
      BY <2>1
    <3>2. f[k + 1] = base * f[k] + s[k + 1]
      BY <1>5, <3>1
    <3>3. g[k + 1] = base * g[k] + s[k + 1]
      BY <1>3, <3>1
    <3> QED
      BY <1>8, <3>1, <3>2, <3>3
  <2> QED
    BY <2>1
<1> HIDE DEF S
<1>9. Nat \subseteq S
  BY <1>7, <1>8, SetInduction
<1>10. f[w] = g[w]
  BY <1>9 DEF S
<1>11. g[w] = v
  <2>1. g[w] = v \div Power(base)[w - w] /\ w - w = 0
    BY DEF g
  <2>2. Power(base)[0] = 1 /\ v \div 1 = v
    BY PowerSteps, SMT
  <2> QED
    BY <2>1, <2>2
<1> QED
  BY <1>6, <1>10, <1>11 DEF s

\* The first digits are those of the quotient, the last ones those of the remainder.
LEMMA PaddedParts ==
  ASSUME NEW base \in Nat \ {0}, NEW v \in Nat, NEW m \in Nat, NEW n \in Nat
  PROVE  /\ SubSeq(Padded(v, base, n + m), 1, n)
              = Padded(v \div Power(base)[m], base, n)
         /\ SubSeq(Padded(v, base, n + m), n + 1, n + m)
              = Padded(v % Power(base)[m], base, m)
<1> DEFINE s == Padded(v, base, n + m)
           q == v \div Power(base)[m]
           r == v % Power(base)[m]
<1>1. q \in Nat /\ r \in Nat
  <2>1. Power(base)[m] \in Nat \ {0}
    BY PowerIsPositive
  <2> DEFINE c == Power(base)[m]
  <2> HIDE DEF c
  <2>2. c \in Nat \ {0}
    BY <2>1 DEF c
  <2>3. v \div c \in Nat /\ v % c \in 0..(c - 1)
    BY <2>2, Division
  <2>4. v % c \in Nat
    BY <2>2, <2>3
  <2> QED
    BY <2>3, <2>4 DEF c
<1>2. /\ s \in Seq(0..(base - 1)) /\ Len(s) = n + m
      /\ \A k \in 1..(n + m) : s[k] = Digit(v, base, (n + m) - k)
  BY PaddedIsDigits
<1>3. \A k \in 1..n : s[k] = Digit(q, base, n - k)
  <2> SUFFICES ASSUME NEW k \in 1..n PROVE s[k] = Digit(q, base, n - k)
    OBVIOUS
  <2>1. n - k \in Nat /\ m + (n - k) = (n + m) - k /\ k \in 1..(n + m)
    OBVIOUS
  <2>2. Digit(q, base, n - k) = Digit(v, base, m + (n - k))
    BY <2>1, DigitOfQuotient
  <2> QED
    BY <1>2, <2>1, <2>2
<1>4. \A k \in 1..m : s[n + k] = Digit(r, base, m - k)
  <2> SUFFICES ASSUME NEW k \in 1..m PROVE s[n + k] = Digit(r, base, m - k)
    OBVIOUS
  <2>1. m - k \in 0..(m - 1) /\ (n + m) - (n + k) = m - k /\ n + k \in 1..(n + m)
    OBVIOUS
  <2>2. Digit(r, base, m - k) = Digit(v, base, m - k)
    BY <2>1, DigitOfRemainder
  <2> QED
    BY <1>2, <2>1, <2>2
<1> HIDE DEF s, q, r
<1>5. SubSeq(s, 1, n) = Padded(q, base, n)
  <2>1. SubSeq(s, 1, n) = [k \in 1..n |-> s[k]]
    BY <1>2
  <2> QED
    BY <1>3, <2>1 DEF Padded
<1>6. SubSeq(s, n + 1, n + m) = Padded(r, base, m)
  <2>1. SubSeq(s, n + 1, n + m) = [k \in 1..m |-> s[n + k]]
    BY <1>2
  <2> QED
    BY <1>4, <2>1 DEF Padded
<1> QED
  BY <1>5, <1>6 DEF s, q, r

\* %u prints as many digits as there are.
LEMMA UnpaddedIsPadded ==
  ASSUME NEW base \in Nat \ {0}, NEW max \in Nat \ {0}, NEW v \in Nat, v < Power(base)[max]
  PROVE  \E w \in 1..max : /\ Unpadded(v, base, max) = Padded(v, base, w)
                           /\ v < Power(base)[w] /\ (w = 1 \/ v >= Power(base)[w - 1])
<1> DEFINE T    == { w \in Nat : w # 0 /\ v < Power(base)[w] }
           P(w) == (w = max \/ v < Power(base)[w]) /\ (w = 1 \/ v >= Power(base)[w - 1])
<1>1. T \subseteq Nat /\ max \in T
  OBVIOUS
<1>2. PICK t \in T : \A y \in T : t <= y
  BY <1>1, LeastNumber
<1>3. t \in 1..max /\ v < Power(base)[t]
  BY <1>1, <1>2
<1>4. t = 1 \/ v >= Power(base)[t - 1]
  <2>1. t # 1 => t - 1 \in Nat /\ t - 1 # 0 /\ ~(t <= t - 1)
    BY <1>3
  <2>2. t # 1 => Power(base)[t - 1] \in Nat
    BY <2>1, PowerIsPositive
  <2> QED
    BY <1>2, <2>1, <2>2
<1>5. P(t)
  BY <1>3, <1>4
<1> DEFINE w == CHOOSE x \in 1..max : P(x)
<1>6. w \in 1..max /\ P(w)
  BY <1>3, <1>5
<1>7. Unpadded(v, base, max) = Padded(v, base, w)
  BY DEF Unpadded
<1> HIDE DEF w
<1> QED
  BY <1>6, <1>7

\* The first digit of a number that needs w digits is not zero.
LEMMA LeadingDigit ==
  ASSUME NEW base \in Nat \ {0}, NEW w \in Nat \ {0}, NEW v \in Nat,
         v < Power(base)[w], v >= Power(base)[w - 1]
  PROVE  Digit(v, base, w - 1) # 0
<1> DEFINE k == w - 1
           m == Power(base)[k]
           q == v \div m
<1>1. k \in Nat /\ k + 1 = w /\ m \in Nat \ {0}
  BY PowerIsPositive
<1>2. v >= m /\ v \div Power(base)[k + 1] = 0
  BY <1>1, NoDigitsLeft
<1>3. q = base * (v \div Power(base)[k + 1]) + Digit(v, base, k)
  BY <1>1, DigitSteps
<1>4. Digit(v, base, k) \in Nat
  BY <1>1, DigitSteps
<1> HIDE DEF m, k
<1>5. /\ v \div m \in Nat /\ v % m \in 0..(m - 1)
      /\ v = m * (v \div m) + (v % m)
  BY <1>1, Division
<1> HIDE DEF q
<1>6. q # 0
  <2> SUFFICES ASSUME q = 0 PROVE FALSE
    OBVIOUS
  <2>1. m * (v \div m) = 0
    BY <1>1 DEF q
  <2> QED
    BY <1>1, <1>2, <1>5, <2>1
<1>7. Digit(v, base, k) # 0
  BY <1>2, <1>3, <1>4, <1>6
<1> QED
  BY <1>7 DEF k

-----------------------------------------------------------------------------
(* Sequences.                                                                  *)

LEMMA Concat ==
  ASSUME NEW S, NEW s \in Seq(S), NEW t \in Seq(S)
  PROVE  /\ s \o t \in Seq(S) /\ Len(s \o t) = Len(s) + Len(t)
         /\ \A k \in 1..Len(s) : (s \o t)[k] = s[k]
         /\ \A k \in 1..Len(t) : (s \o t)[Len(s) + k] = t[k]
<1>1. /\ s \o t \in Seq(S) /\ Len(s \o t) = Len(s) + Len(t)
      /\ \A k \in 1..(Len(s) + Len(t)) :
           (s \o t)[k] = IF k <= Len(s) THEN s[k] ELSE t[k - Len(s)]
  BY ConcatProperties
<1>2. Len(s) \in Nat /\ Len(t) \in Nat
  OBVIOUS
<1> QED
  BY <1>1, <1>2, SMT

LEMMA SubSeqIs ==
  ASSUME NEW S, NEW s \in Seq(S), NEW m \in Int, NEW n \in Int, 1 <= m, n <= Len(s)
  PROVE  /\ SubSeq(s, m, n) \in Seq(S)
         /\ Len(SubSeq(s, m, n)) = IF m <= n THEN n - m + 1 ELSE 0
         /\ \A k \in 1..(n - m + 1) : SubSeq(s, m, n)[k] = s[m + k - 1]
<1>1. \A k \in m..n : s[k] \in S
  OBVIOUS
<1> QED
  BY <1>1, SubSeqProperties

LEMMA ElementOf ==
  ASSUME NEW S, NEW s \in Seq(S), NEW k \in 1..Len(s)
  PROVE  s[k] \in S
  OBVIOUS

Associates(s, t, u) == (s \o t) \o u = s \o (t \o u)

LEMMA Associative ==
  ASSUME NEW S, NEW s \in Seq(S), NEW t \in Seq(S), NEW u \in Seq(S)
  PROVE  Associates(s, t, u)
BY ConcatAssociative, SMT DEF Associates

\* What is known of a concatenation and of a part of a sequence.
Joins(r, S, s, t) ==
  /\ r \in Seq(S) /\ Len(r) = Len(s) + Len(t)
  /\ \A k \in 1..Len(s) : r[k] = s[k]
  /\ \A k \in 1..Len(t) : r[Len(s) + k] = t[k]

PartOf(r, S, s, m, n) ==
  /\ r \in Seq(S) /\ Len(r) = IF m <= n THEN n - m + 1 ELSE 0
  /\ \A k \in 1..(n - m + 1) : r[k] = s[m + k - 1]

LEMMA Joining ==
  ASSUME NEW S, NEW s \in Seq(S), NEW t \in Seq(S)
  PROVE  Joins(s \o t, S, s, t)
BY Concat DEF Joins

LEMMA Cutting ==
  ASSUME NEW S, NEW s \in Seq(S), NEW m \in Int, NEW n \in Int, 1 <= m, n <= Len(s)
  PROVE  PartOf(SubSeq(s, m, n), S, s, m, n)
BY SubSeqIs DEF PartOf

-----------------------------------------------------------------------------
(* The text of an amount.                                                      *)

\* The literals of the program are powers.
LEMMA PowersOfTen == Power(10)[0] = 1 /\ Power(10)[6] = 10^6 /\ Power(10)[9] = 10^9
<1>1. /\ Power(10)[0] = 1 /\ Power(10)[0 + 1] = 10 * Power(10)[0]
      /\ Power(10)[1 + 1] = 10 * Power(10)[1] /\ Power(10)[2 + 1] = 10 * Power(10)[2]
      /\ Power(10)[3 + 1] = 10 * Power(10)[3] /\ Power(10)[4 + 1] = 10 * Power(10)[4]
      /\ Power(10)[5 + 1] = 10 * Power(10)[5] /\ Power(10)[6 + 1] = 10 * Power(10)[6]
      /\ Power(10)[7 + 1] = 10 * Power(10)[7] /\ Power(10)[8 + 1] = 10 * Power(10)[8]
  <2>1. 10 \in Nat
    OBVIOUS
  <2> QED
    BY <2>1, PowerSteps
<1> QED
  BY <1>1, SMT

LEMMA TenIsPositive ==
  /\ 10 \in Nat \ {0} /\ \A n \in Nat : Power(10)[n] \in Nat \ {0}
  /\ \A m, n \in Nat : m <= n => Power(10)[m] <= Power(10)[n]
<1>1. 10 \in Nat \ {0}
  OBVIOUS
<1> QED
  BY <1>1, PowerIsPositive, PowerGrows

LEMMA AmountParts ==
  ASSUME NEW a \in Amounts
  PROVE  /\ a[1] \in Nat /\ a[2] \in Nat /\ a[2] < Power(10)[9] /\ a = <<a[1], a[2]>>
         /\ a[1] # 0 \/ a[2] # 0
<1> DEFINE M == 10^9
<1>1. Amounts \subseteq (Nat \X (0..(M - 1))) \ {<<0, 0>>}
  BY AmountAssumption
<1>2. M = Power(10)[9] /\ M \in Nat
  BY PowersOfTen, TenIsPositive
<1> HIDE DEF M
<1>3. PICK x \in Nat, y \in 0..(M - 1) : a = <<x, y>> /\ a # <<0, 0>>
  BY <1>1
<1> QED
  BY <1>2, <1>3

LEMMA PrintableParts ==
  ASSUME NEW a \in Amounts
  PROVE  Printable(a) <=> a[1] < Power(10)[9]
BY PowersOfTen DEF Printable

\* What format_u64 writes for a number: the digits of one part, or those of both.
DigitsOfOne(a, w) ==
  /\ a[1] = 0 /\ U64Digits(a) = Padded(a[2], 10, w)
  /\ a[2] < Power(10)[w] /\ a[2] >= Power(10)[w - 1]

DigitsOfTwo(a, w) ==
  /\ a[1] # 0 /\ U64Digits(a) = Padded(a[1], 10, w) \o Padded(a[2], 10, 9)
  /\ a[1] < Power(10)[w] /\ a[1] >= Power(10)[w - 1]

LEMMA U64DigitsArePadded ==
  ASSUME NEW a \in Amounts, Printable(a)
  PROVE  \E w \in 1..9 : DigitsOfOne(a, w) \/ DigitsOfTwo(a, w)
<1>1. /\ a[1] \in Nat /\ a[2] \in Nat /\ a[1] < Power(10)[9] /\ a[2] < Power(10)[9]
      /\ a[1] # 0 \/ a[2] # 0
  BY AmountParts, PrintableParts
<1>2. ASSUME NEW v \in Nat, v < Power(10)[9], v # 0
      PROVE  \E w \in 1..9 : /\ Unsigned(v) = Padded(v, 10, w)
                             /\ v < Power(10)[w] /\ v >= Power(10)[w - 1]
  <2>1. 10 \in Nat \ {0} /\ 9 \in Nat \ {0} /\ v < Power(10)[9]
    BY <1>2
  <2>2. PICK w \in 1..9 : /\ Unpadded(v, 10, 9) = Padded(v, 10, w)
                          /\ v < Power(10)[w] /\ (w = 1 \/ v >= Power(10)[w - 1])
    BY <2>1, UnpaddedIsPadded
  <2>3. v >= Power(10)[w - 1]
    <3>1. w = 1 => w - 1 = 0 /\ v >= Power(10)[0]
      BY <1>2, PowersOfTen
    <3> QED
      BY <2>2, <3>1
  <2> QED
    BY <2>2, <2>3 DEF Unsigned
<1>3. CASE a[1] = 0
  <2>1. PICK w \in 1..9 : /\ Unsigned(a[2]) = Padded(a[2], 10, w)
                          /\ a[2] < Power(10)[w] /\ a[2] >= Power(10)[w - 1]
    BY <1>1, <1>2, <1>3
  <2> QED
    BY <1>3, <2>1 DEF DigitsOfOne, U64Digits
<1>4. CASE a[1] # 0
  <2>1. PICK w \in 1..9 : /\ Unsigned(a[1]) = Padded(a[1], 10, w)
                          /\ a[1] < Power(10)[w] /\ a[1] >= Power(10)[w - 1]
    BY <1>1, <1>2, <1>4
  <2> QED
    BY <1>4, <2>1 DEF DigitsOfTwo, U64Digits, NineDigits
<1> QED
  BY <1>3, <1>4

Decimal == 0..9

LEMMA DecimalDigits ==
  ASSUME NEW v \in Nat, NEW w \in Nat
  PROVE  /\ Padded(v, 10, w) \in Seq(Decimal) /\ Len(Padded(v, 10, w)) = w
         /\ \A k \in 1..w : Padded(v, 10, w)[k] = Digit(v, 10, w - k)
<1>1. 10 \in Nat \ {0} /\ 0..(10 - 1) = Decimal
  BY DEF Decimal
<1>2. /\ Padded(v, 10, w) \in Seq(0..(10 - 1)) /\ Len(Padded(v, 10, w)) = w
      /\ \A k \in 1..w : Padded(v, 10, w)[k] = Digit(v, 10, w - k)
  BY <1>1, PaddedIsDigits
<1> QED
  BY <1>1, <1>2

\* format_u64 writes eighteen digits at most.
LEMMA U64DigitsFit ==
  ASSUME NEW a \in Amounts, Printable(a)
  PROVE  /\ U64Digits(a) \in Seq(Decimal) /\ Len(U64Digits(a)) \in 1..18
         /\ a[1] > 0 \/ a[2] >= Power(10)[6] => Len(U64Digits(a)) >= 7
<1>1. PICK w \in 1..9 : DigitsOfOne(a, w) \/ DigitsOfTwo(a, w)
  BY U64DigitsArePadded
<1>2. a[1] \in Nat /\ a[2] \in Nat
  BY AmountParts
<1>3. CASE DigitsOfOne(a, w)
  <2>1. Len(U64Digits(a)) = w /\ U64Digits(a) \in Seq(Decimal)
    <3>1. w \in Nat /\ U64Digits(a) = Padded(a[2], 10, w)
      BY <1>3 DEF DigitsOfOne
    <3>2. Len(Padded(a[2], 10, w)) = w /\ Padded(a[2], 10, w) \in Seq(Decimal)
      BY <1>2, <3>1, DecimalDigits
    <3> QED
      BY <3>1, <3>2
  <2>2. a[2] >= Power(10)[6] => w >= 7
    <3>1. a[2] < Power(10)[w] /\ Power(10)[w] \in Nat /\ Power(10)[6] \in Nat
      BY <1>3, TenIsPositive DEF DigitsOfOne
    <3>2. w <= 6 => Power(10)[w] <= Power(10)[6]
      BY TenIsPositive
    <3> QED
      BY <1>2, <3>1, <3>2
  <2>3. a[1] = 0 /\ w \in 1..18
    BY <1>3 DEF DigitsOfOne
  <2> QED
    BY <2>1, <2>2, <2>3
<1>4. CASE DigitsOfTwo(a, w)
  <2>1. /\ Len(Padded(a[1], 10, w)) = w /\ Padded(a[1], 10, w) \in Seq(Decimal)
        /\ Len(Padded(a[2], 10, 9)) = 9 /\ Padded(a[2], 10, 9) \in Seq(Decimal)
    <3>1. 9 \in Nat /\ w \in Nat
      OBVIOUS
    <3> QED
      BY <1>2, <3>1, DecimalDigits
  <2> DEFINE s == Padded(a[1], 10, w)
             t == Padded(a[2], 10, 9)
  <2>2. U64Digits(a) = s \o t
    BY <1>4 DEF DigitsOfTwo
  <2>4. Len(s) = w /\ s \in Seq(Decimal) /\ Len(t) = 9 /\ t \in Seq(Decimal)
    BY <2>1
  <2> HIDE DEF s, t
  <2>3. Len(s \o t) = w + 9 /\ s \o t \in Seq(Decimal)
    <3>1. s \o t \in Seq(Decimal) /\ Len(s \o t) = Len(s) + Len(t)
      BY <2>4, Concat, Zenon
    <3> QED
      BY <2>4, <3>1
  <2> QED
    BY <2>2, <2>3
<1> QED
  BY <1>1, <1>3, <1>4

Char == 0..Point

\* What is copied of the digits s after c turns: the point is in front of the last six.
CopiedText(s, c) ==
  IF c <= Len(s) - 6 THEN SubSeq(s, 1, c)
  ELSE SubSeq(s, 1, Len(s) - 6) \o <<Point>> \o SubSeq(s, Len(s) - 5, c)

LEMMA CopyStep ==
  ASSUME NEW s \in Seq(Char), Len(s) >= 7, NEW c \in 0..(Len(s) - 1)
  PROVE  CopiedText(s, c) \o (IF c = Len(s) - 6 THEN <<Point>> ELSE <<>>) \o <<s[c + 1]>>
           = CopiedText(s, c + 1)
<1> DEFINE n  == Len(s) - 6
           p  == <<Point>>
           e  == <<s[c + 1]>>
           h  == SubSeq(s, 1, n) \o p
           t1 == SubSeq(s, 1, c)
           t2 == SubSeq(s, n + 1, c)
<1>1. /\ n \in Nat /\ n >= 1 /\ n <= Len(s) /\ c + 1 \in 1..Len(s) /\ Len(s) - 5 = n + 1
      /\ Len(s) \in Nat
  OBVIOUS
<1>2. SubSeq(s, 1, c + 1) = t1 \o e
  <2>1. 1 \in 1..Len(s) /\ c + 1 \in 1..Len(s) /\ (c + 1) - 1 = c
    BY <1>1
  <2> QED
    BY <2>1, SubSeqRecursiveSecond
<1>3. c >= n => SubSeq(s, n + 1, c + 1) = t2 \o e
  <2> SUFFICES ASSUME c >= n PROVE SubSeq(s, n + 1, c + 1) = t2 \o e
    OBVIOUS
  <2> DEFINE m == n + 1
             d == c + 1
  <2>1. m \in 1..Len(s) /\ d \in m..Len(s) /\ d - 1 = c
    BY <1>1
  <2> HIDE DEF m, d
  <2>2. SubSeq(s, m, d) = SubSeq(s, m, d - 1) \o <<s[d]>>
    BY <2>1, SubSeqRecursiveSecond
  <2> QED
    BY <2>1, <2>2 DEF m, d
<1>4. p \in Seq(Char) /\ e \in Seq(Char)
  <2>1. Point \in Char /\ s[c + 1] \in Char
    BY <1>1, ElementOf DEF Point, Char
  <2> QED
    BY <2>1
<1>5. t1 \in Seq(Char) /\ t2 \in Seq(Char) /\ SubSeq(s, 1, n) \in Seq(Char)
  <2>1. c \in Int /\ n \in Int /\ n + 1 \in Int /\ c <= Len(s) /\ 1 <= n + 1
    BY <1>1
  <2> QED
    BY <1>1, <2>1, SubSeqIs
<1>6. h \in Seq(Char)
  BY <1>4, <1>5, Concat
<1>7. /\ c <= n => CopiedText(s, c) = t1
      /\ c > n => CopiedText(s, c) = h \o t2
      /\ c + 1 <= n => CopiedText(s, c + 1) = SubSeq(s, 1, c + 1)
      /\ c + 1 > n => CopiedText(s, c + 1) = h \o SubSeq(s, n + 1, c + 1)
  <2> HIDE DEF p
  <2>1. CopiedText(s, c) = IF c <= n THEN t1 ELSE h \o t2
    BY <1>1 DEF CopiedText, p
  <2>2. CopiedText(s, c + 1) = IF c + 1 <= n THEN SubSeq(s, 1, c + 1)
                               ELSE h \o SubSeq(s, n + 1, c + 1)
    BY <1>1 DEF CopiedText, p
  <2>3. (c > n => ~ (c <= n)) /\ (c + 1 > n => ~ (c + 1 <= n))
    BY <1>1
  <2> QED
    BY <2>1, <2>2, <2>3, Zenon
<1>8. c = n => t2 = <<>> /\ h = t1 \o p
  BY <1>1, SubSeqEmpty
<1> DEFINE y == IF c = n THEN p ELSE <<>>
<1>9. y = IF c = Len(s) - 6 THEN <<Point>> ELSE <<>>
  OBVIOUS
<1>10. /\ c = n => y = p
       /\ c # n => y = <<>>
  OBVIOUS
<1>11. n \in Int /\ c \in Int
  BY <1>1
<1>12. CopiedText(s, c) \o y \o e = CopiedText(s, c + 1)
  <2> HIDE DEF t1, t2, h, p, e, y, n
  <2>1. t1 \o <<>> = t1 /\ <<>> \o e = e
    BY <1>4, <1>5, ConcatEmptySeq, Zenon
  <2>2. h \o t2 \in Seq(Char)
    BY <1>5, <1>6, Concat, Zenon
  <2>3. (h \o t2) \o <<>> = h \o t2
    BY <2>2, ConcatEmptySeq, Zenon
  <2>4. (h \o t2) \o e = h \o (t2 \o e)
    <3>1. Associates(h, t2, e)
      BY <1>4, <1>5, <1>6, Associative, Zenon
    <3> QED
      BY <3>1, SMT DEF Associates
  <2>5. CASE c < n
    <3>1. c <= n /\ c # n /\ c + 1 <= n
      BY <1>11, <2>5
    <3> QED
      BY <1>2, <1>7, <1>10, <2>1, <3>1, Zenon
  <2>6. CASE c = n
    <3>1. c <= n /\ c >= n /\ c + 1 > n
      BY <1>11, <2>6
    <3>2. CopiedText(s, c + 1) = h \o e
      BY <1>3, <1>7, <1>8, <2>1, <2>6, <3>1, Zenon
    <3>3. CopiedText(s, c) \o y = h
      BY <1>7, <1>8, <1>10, <2>6, <3>1, Zenon
    <3> QED
      BY <3>2, <3>3, Zenon
  <2>7. CASE c > n
    <3>1. c # n /\ c >= n /\ c + 1 > n
      BY <1>11, <2>7
    <3>2. CopiedText(s, c) \o y = h \o t2
      BY <1>7, <1>10, <2>3, <2>7, <3>1, Zenon
    <3> QED
      BY <1>3, <1>7, <2>4, <3>1, <3>2, Zenon
  <2> QED
    BY <1>11, <2>5, <2>6, <2>7
<1> QED
  BY <1>9, <1>12, Zenon

\* The parts of a text of whole digits, a point and six digits.
LEMMA TextParts ==
  ASSUME NEW x \in Seq(Decimal), NEW y \in Seq(Decimal), Len(x) >= 1, Len(y) = 6,
         NEW t, t = x \o <<Point>> \o y
  PROVE  LET n == Len(t) - 7
         IN  /\ n = Len(x) /\ t[n + 1] = Point
             /\ \A k \in (1..Len(t)) \ {n + 1} : t[k] \in 0..9
             /\ SubSeq(t, 1, n) = x /\ SubSeq(t, n + 2, n + 7) = y
<1> DEFINE p  == <<Point>>
           xp == x \o p
           n  == Len(x)
<1>1. p \in Seq(Char) /\ Len(p) = 1 /\ p[1] = Point
  BY DEF Char, Point
<1>2. x \in Seq(Char) /\ y \in Seq(Char)
  BY DEF Char, Point, Decimal
<1>3. n \in Nat /\ n >= 1 /\ n = Len(x)
  OBVIOUS
<1>4. t = xp \o y
  OBVIOUS
<1> HIDE DEF p, n
<1>5. /\ xp \in Seq(Char) /\ Len(xp) = Len(x) + Len(p)
      /\ \A k \in 1..Len(x) : xp[k] = x[k]
      /\ \A k \in 1..Len(p) : xp[Len(x) + k] = p[k]
  <2>1. Joins(xp, Char, x, p)
    BY <1>1, <1>2, Joining, Zenon
  <2> QED
    BY <2>1, Zenon DEF Joins
<1> HIDE DEF xp
<1>6. /\ t \in Seq(Char) /\ Len(t) = Len(xp) + Len(y)
      /\ \A k \in 1..Len(xp) : t[k] = xp[k]
      /\ \A k \in 1..Len(y) : t[Len(xp) + k] = y[k]
  <2>1. Joins(t, Char, xp, y)
    BY <1>2, <1>4, <1>5, Joining, Zenon
  <2> QED
    BY <2>1, Zenon DEF Joins
<1>7. Len(xp) = n + 1 /\ Len(t) = n + 7 /\ xp[n + 1] = Point
  BY <1>1, <1>3, <1>5, <1>6
<1>8. \A k \in 1..n : t[k] = x[k]
  <2>1. \A k \in 1..n : k \in 1..Len(xp) /\ k \in 1..Len(x)
    BY <1>3, <1>7
  <2> QED
    BY <1>5, <1>6, <2>1, Zenon
<1>9. t[n + 1] = Point
  <2>1. n + 1 \in 1..Len(xp)
    BY <1>3, <1>7
  <2> QED
    BY <1>6, <1>7, <2>1
<1>10. \A k \in 1..6 : t[(n + 1) + k] = y[k]
  BY <1>6, <1>7
<1>11. \A k \in (1..(n + 7)) \ {n + 1} : t[k] \in 0..9
  <2>1. \A k \in 1..n : x[k] \in 0..9
    BY <1>3, ElementOf DEF Decimal
  <2>2. \A k \in 1..6 : y[k] \in 0..9
    BY ElementOf DEF Decimal
  <2>3. ASSUME NEW k \in (n + 2)..(n + 7)
        PROVE  t[k] \in 0..9
    <3>1. k - (n + 1) \in 1..6 /\ (n + 1) + (k - (n + 1)) = k
      <4>1. n \in Int /\ k \in (n + 2)..(n + 7)
        BY <1>3, <2>3
      <4> HIDE <2>3
      <4> QED
        BY <4>1
    <3>2. t[(n + 1) + (k - (n + 1))] = y[k - (n + 1)]
      BY <1>10, <3>1
    <3> QED
      BY <2>2, <3>1, <3>2
  <2>4. \A k \in 1..n : t[k] \in 0..9
    BY <1>8, <2>1
  <2>5. \A k \in (1..(n + 7)) \ {n + 1} : k \in 1..n \/ k \in (n + 2)..(n + 7)
    BY <1>3
  <2> QED
    BY <2>3, <2>4, <2>5
<1>12. SubSeq(t, 1, n) = x
  <2> DEFINE u == SubSeq(t, 1, n)
  <2>1. n \in Int /\ n <= Len(t) /\ n - 1 + 1 = n /\ \A k \in 1..n : 1 + k - 1 = k
    BY <1>3, <1>7
  <2>2. /\ u \in Seq(Char) /\ Len(u) = IF 1 <= n THEN n - 1 + 1 ELSE 0
        /\ \A k \in 1..(n - 1 + 1) : u[k] = t[1 + k - 1]
    <3>1. 1 \in Int /\ 1 <= 1
      OBVIOUS
    <3>2. PartOf(u, Char, t, 1, n)
      BY <1>6, <2>1, <3>1, Cutting, Zenon
    <3> QED
      BY <3>2, Zenon DEF PartOf
  <2> HIDE DEF u
  <2>3. Len(u) = Len(x) /\ \A k \in 1..Len(u) : u[k] = x[k]
    BY <1>3, <1>8, <2>1, <2>2
  <2>4. u = x
    BY <1>2, <2>2, <2>3, SeqEqual, Zenon
  <2> QED
    BY <2>4 DEF u
<1>13. SubSeq(t, n + 2, n + 7) = y
  <2> DEFINE a == n + 2
             b == n + 7
             u == SubSeq(t, a, b)
  <2>1. /\ a \in Int /\ b \in Int /\ 1 <= a /\ b <= Len(t) /\ a <= b /\ b - a + 1 = 6
        /\ \A k \in 1..6 : a + k - 1 = (n + 1) + k
    BY <1>3, <1>7
  <2> HIDE DEF a, b
  <2>2. /\ u \in Seq(Char) /\ Len(u) = IF a <= b THEN b - a + 1 ELSE 0
        /\ \A k \in 1..(b - a + 1) : u[k] = t[a + k - 1]
    <3>1. PartOf(u, Char, t, a, b)
      BY <1>6, <2>1, Cutting, Zenon
    <3> QED
      BY <3>1, Zenon DEF PartOf
  <2> HIDE DEF u
  <2>3. Len(u) = Len(y) /\ \A k \in 1..Len(u) : u[k] = y[k]
    <3>1. Len(u) = 6 /\ b - a + 1 = 6
      BY <2>1, <2>2
    <3>2. \A k \in 1..6 : u[k] = t[a + k - 1] /\ t[a + k - 1] = t[(n + 1) + k]
      BY <2>1, <2>2, <3>1, Zenon
    <3> QED
      BY <1>10, <3>1, <3>2, Zenon
  <2>4. u = y
    BY <1>2, <2>2, <2>3, SeqEqual, Zenon
  <2> QED
    BY <2>4 DEF u, a, b
<1>14. Len(t) - 7 = n
  BY <1>3, <1>7
<1> QED
  BY <1>3, <1>7, <1>9, <1>11, <1>12, <1>13, <1>14

LEMMA PartsOfJoin ==
  ASSUME NEW S, NEW s \in Seq(S), NEW t \in Seq(S)
  PROVE  /\ SubSeq(s \o t, 1, Len(s)) = s
         /\ SubSeq(s \o t, Len(s) + 1, Len(s) + Len(t)) = t
<1> DEFINE r == s \o t
           m == Len(s)
           n == Len(t)
<1>1. m \in Nat /\ n \in Nat /\ m = Len(s) /\ n = Len(t)
  OBVIOUS
<1>2. Joins(r, S, s, t)
  BY Joining, Zenon
<1> HIDE DEF r, m, n
<1>3. /\ r \in Seq(S) /\ Len(r) = m + n
      /\ \A k \in 1..m : r[k] = s[k]
      /\ \A k \in 1..n : r[m + k] = t[k]
  BY <1>1, <1>2, Zenon DEF Joins
<1>4. SubSeq(r, 1, m) = s
  <2> DEFINE u == SubSeq(r, 1, m)
  <2>1. 1 \in Int /\ m \in Int /\ 1 <= 1 /\ m <= Len(r)
    BY <1>1, <1>3
  <2>2. PartOf(u, S, r, 1, m)
    BY <1>3, <2>1, Cutting, Zenon
  <2> HIDE DEF u
  <2>3. u \in Seq(S) /\ Len(u) = m /\ \A k \in 1..m : u[k] = r[k]
    <3>1. u \in Seq(S) /\ Len(u) = IF 1 <= m THEN m - 1 + 1 ELSE 0
      BY <2>2, Zenon DEF PartOf
    <3>2. \A k \in 1..(m - 1 + 1) : u[k] = r[1 + k - 1]
      BY <2>2, Zenon DEF PartOf
    <3>3. Len(u) = m
      BY <1>1, <3>1
    <3>4. m - 1 + 1 = m /\ \A k \in 1..m : 1 + k - 1 = k
      BY <1>1
    <3>5. \A k \in 1..m : u[k] = r[k]
      BY <3>2, <3>4
    <3> QED
      BY <3>1, <3>3, <3>5
  <2>4. Len(u) = Len(s) /\ \A k \in 1..Len(u) : u[k] = s[k]
    BY <1>1, <1>3, <2>3, Zenon
  <2>5. u = s
    BY <2>3, <2>4, SeqEqual, Zenon
  <2> QED
    BY <2>5 DEF u
<1>5. SubSeq(r, m + 1, m + n) = t
  <2> DEFINE a == m + 1
             b == m + n
             u == SubSeq(r, a, b)
  <2>1. /\ a \in Int /\ b \in Int /\ 1 <= a /\ b <= Len(r) /\ b - a + 1 = n
        /\ (IF a <= b THEN b - a + 1 ELSE 0) = n
        /\ \A k \in 1..n : a + k - 1 = m + k
    BY <1>1, <1>3
  <2> HIDE DEF a, b
  <2>2. PartOf(u, S, r, a, b)
    BY <1>3, <2>1, Cutting, Zenon
  <2> HIDE DEF u
  <2>3. u \in Seq(S) /\ Len(u) = n /\ \A k \in 1..n : u[k] = r[m + k]
    <3>1. u \in Seq(S) /\ Len(u) = IF a <= b THEN b - a + 1 ELSE 0
      BY <2>2, Zenon DEF PartOf
    <3>2. \A k \in 1..(b - a + 1) : u[k] = r[a + k - 1]
      BY <2>2, Zenon DEF PartOf
    <3> QED
      BY <2>1, <3>1, <3>2
  <2>4. Len(u) = Len(t) /\ \A k \in 1..Len(u) : u[k] = t[k]
    BY <1>1, <1>3, <2>3, Zenon
  <2>5. u = t
    BY <2>3, <2>4, SeqEqual, Zenon
  <2> QED
    BY <2>5 DEF u, a, b
<1> QED
  BY <1>4, <1>5 DEF r, m, n

\* The digits of a number are those of its quotient and those of its remainder.
LEMMA PaddedJoins ==
  ASSUME NEW base \in Nat \ {0}, NEW v \in Nat, NEW m \in Nat, NEW n \in Nat
  PROVE  Padded(v, base, n + m)
           = Padded(v \div Power(base)[m], base, n) \o Padded(v % Power(base)[m], base, m)
<1> DEFINE s == Padded(v, base, n + m)
           x == Padded(v \div Power(base)[m], base, n)
           y == Padded(v % Power(base)[m], base, m)
           S == 0..(base - 1)
<1>1. n + m \in Nat
  OBVIOUS
<1>2. s \in Seq(S) /\ Len(s) = n + m
  BY <1>1, PaddedIsDigits
<1>3. SubSeq(s, 1, n) = x /\ SubSeq(s, n + 1, n + m) = y
  BY PaddedParts, Zenon
<1> HIDE DEF s, x, y, S
<1>4. SubSeq(s, 1, n) \o SubSeq(s, n + 1, n + m) = SubSeq(s, 1, n + m)
  <2>1. 1 \in 1..(Len(s) + 1) /\ n \in (1 - 1)..Len(s) /\ n + m \in n..Len(s)
    BY <1>2
  <2> QED
    BY <1>2, <2>1, ConcatAdjacentSubSeq
<1>5. SubSeq(s, 1, n + m) = s
  BY <1>2, SubSeqFull
<1>6. s = x \o y
  BY <1>3, <1>4, <1>5
<1> QED
  BY <1>6 DEF s, x, y

\* The digits s with a point in front of the last six are copied from all of s.
LEMMA AllCopied ==
  ASSUME NEW x \in Seq(Decimal), NEW y \in Seq(Decimal), Len(x) >= 1, Len(y) = 6,
         NEW s, s = x \o y
  PROVE  CopiedText(s, Len(s)) = x \o <<Point>> \o y
<1> DEFINE n == Len(x)
           m == Len(y)
           l == Len(s)
<1>1. n \in Nat /\ m = 6 /\ n = Len(x) /\ m = Len(y) /\ l = Len(s)
  OBVIOUS
<1>2. l = n + m
  <2>1. Joins(s, Decimal, x, y)
    BY Joining, Zenon
  <2> QED
    BY <2>1, Zenon DEF Joins
<1>3. SubSeq(s, 1, n) = x /\ SubSeq(s, n + 1, n + m) = y
  BY PartsOfJoin, Zenon
<1>4. l - 6 = n /\ l - 5 = n + 1 /\ ~ (l <= l - 6)
  BY <1>1, <1>2
<1> HIDE DEF n, m, l
<1>5. CopiedText(s, l) = SubSeq(s, 1, l - 6) \o <<Point>> \o SubSeq(s, l - 5, l)
  BY <1>1, <1>4, Zenon DEF CopiedText
<1>6. CopiedText(s, l) = x \o <<Point>> \o y
  BY <1>2, <1>3, <1>4, <1>5, Zenon
<1> QED
  BY <1>1, <1>6, Zenon

\* The text t reads as the amount a: AmountReadsBack says so of the text on the page.
Reads(t, a) ==
  LET n     == Len(t) - 7
      whole == SubSeq(t, 1, n)
  IN  /\ n >= 1 /\ t[n + 1] = Point /\ \A k \in (1..Len(t)) \ {n + 1} : t[k] \in 0..9
      /\ whole[1] = 0 => n = 1
      /\ a = << Value(SubSeq(whole, 1, n - 3), 10),
                10^6 * Value(SubSeq(whole, IF n > 3 THEN n - 2 ELSE 1, n), 10)
                  + Value(SubSeq(t, n + 2, n + 7), 10) >>

LEMMA ReadText ==
  ASSUME NEW x \in Seq(Decimal), NEW y \in Seq(Decimal), Len(x) >= 1, Len(y) = 6,
         x[1] = 0 => Len(x) = 1,
         NEW a,
         a = << Value(SubSeq(x, 1, Len(x) - 3), 10),
                Power(10)[6] * Value(SubSeq(x, IF Len(x) > 3 THEN Len(x) - 2 ELSE 1, Len(x)), 10)
                  + Value(y, 10) >>
  PROVE  Reads(x \o <<Point>> \o y, a)
<1> DEFINE t == x \o <<Point>> \o y
           n == Len(t) - 7
<1>1. /\ n = Len(x) /\ t[n + 1] = Point
      /\ \A k \in (1..Len(t)) \ {n + 1} : t[k] \in 0..9
      /\ SubSeq(t, 1, n) = x /\ SubSeq(t, n + 2, n + 7) = y
  BY TextParts
<1>2. Power(10)[6] = 10^6
  BY PowersOfTen
<1> HIDE DEF t
<1>3. a = << Value(SubSeq(SubSeq(t, 1, n), 1, n - 3), 10),
             10^6 * Value(SubSeq(SubSeq(t, 1, n), IF n > 3 THEN n - 2 ELSE 1, n), 10)
               + Value(SubSeq(t, n + 2, n + 7), 10) >>
  <2> DEFINE P(d, e, f) == << Value(d, 10), Power(10)[6] * Value(e, 10) + Value(f, 10) >>
             Q(d, e, f) == << Value(d, 10), 10^6 * Value(e, 10) + Value(f, 10) >>
             X(k) == SubSeq(x, IF k > 3 THEN k - 2 ELSE 1, k)
             W(k) == SubSeq(SubSeq(t, 1, n), IF k > 3 THEN k - 2 ELSE 1, k)
  <2>1. a = P(SubSeq(x, 1, Len(x) - 3), X(Len(x)), y)
    OBVIOUS
  <2>2. \A d, e, f : P(d, e, f) = Q(d, e, f)
    BY <1>2
  <2>3. W(n) = X(n)
    BY <1>1
  <2>4. a = Q(SubSeq(SubSeq(t, 1, n), 1, n - 3), W(n), SubSeq(t, n + 2, n + 7))
    <3> HIDE DEF P, Q, X, W, n
    <3> QED
      BY <1>1, <2>1, <2>2, <2>3, Zenon
  <2> QED
    BY <2>4
<1>4. n >= 1 /\ (SubSeq(t, 1, n)[1] = 0 => n = 1)
  BY <1>1
<1>5. Reads(t, a)
  BY <1>1, <1>3, <1>4, SMT DEF Reads
<1> QED
  BY <1>5 DEF t

\* The coins and the rest of the low part.
LowCoins(a) == a[2] \div Power(10)[6]
LowRest(a)  == a[2] % Power(10)[6]

LEMMA LowParts ==
  ASSUME NEW a \in Amounts
  PROVE  /\ LowCoins(a) \in Nat /\ LowCoins(a) < Power(10)[3]
         /\ LowRest(a) \in Nat /\ LowRest(a) < Power(10)[6]
         /\ a[2] = Power(10)[6] * LowCoins(a) + LowRest(a)
<1> DEFINE p == Power(10)[6]
           v == a[2]
           q == v \div p
           r == v % p
<1>1. p \in Nat \ {0} /\ v \in Nat /\ v < Power(10)[9]
  BY AmountParts, TenIsPositive
<1>2. q \in Nat /\ q < Power(10)[3]
  <2>1. 10 \in Nat \ {0} /\ 6 \in Nat /\ 3 \in Nat /\ v < Power(10)[6 + 3]
    BY <1>1
  <2> HIDE DEF v
  <2> QED
    BY <1>1, <2>1, QuotientIsSmall
<1>3. r \in 0..(p - 1) /\ v = p * q + r
  <2> HIDE DEF p, v
  <2> QED
    BY <1>1, Division
<1>4. r \in Nat /\ r < p
  <2> HIDE DEF p, r
  <2> QED
    BY <1>1, <1>3
<1> QED
  BY <1>2, <1>3, <1>4 DEF LowCoins, LowRest

LEMMA DecimalValue ==
  ASSUME NEW v \in Nat, NEW w \in Nat, v < Power(10)[w]
  PROVE  Value(Padded(v, 10, w), 10) = v
<1>1. 10 \in Nat \ {0}
  OBVIOUS
<1> QED
  BY <1>1, ValueOfPadded

LEMMA DecimalLead ==
  ASSUME NEW v \in Nat, NEW w \in Nat \ {0}, v < Power(10)[w], v >= Power(10)[w - 1]
  PROVE  Padded(v, 10, w)[1] # 0
<1>1. 10 \in Nat \ {0} /\ 1 \in 1..w /\ w \in Nat
  OBVIOUS
<1>2. Digit(v, 10, w - 1) # 0
  BY <1>1, LeadingDigit
<1>3. Padded(v, 10, w)[1] = Digit(v, 10, w - 1)
  BY <1>1, DecimalDigits
<1> QED
  BY <1>2, <1>3

LEMMA NothingIsZero == Value(<<>>, 10) = 0
<1>1. 0 \in Nat /\ 0 < Power(10)[0]
  BY PowersOfTen
<1>2. Padded(0, 10, 0) = <<>>
  <2>1. Padded(0, 10, 0) \in Seq(Decimal) /\ Len(Padded(0, 10, 0)) = 0
    BY <1>1, DecimalDigits
  <2> QED
    BY <2>1
<1> QED
  BY <1>1, <1>2, DecimalValue

\* An amount printed in one part.
LEMMA LowReads ==
  ASSUME NEW a \in Amounts, a[1] = 0, NEW m \in 1..3, LowCoins(a) < Power(10)[m],
         m = 1 \/ LowCoins(a) >= Power(10)[m - 1]
  PROVE  Reads(Padded(LowCoins(a), 10, m) \o <<Point>> \o Padded(LowRest(a), 10, 6), a)
<1> DEFINE q == LowCoins(a)
           r == LowRest(a)
           x == Padded(q, 10, m)
           y == Padded(r, 10, 6)
<1>1. /\ q \in Nat /\ r \in Nat /\ r < Power(10)[6] /\ a[2] = Power(10)[6] * q + r
      /\ q < Power(10)[m] /\ m \in Nat /\ 6 \in Nat
  BY LowParts
<1>2. a = <<a[1], a[2]>>
  BY AmountParts
<1> HIDE DEF q, r
<1>3. /\ x \in Seq(Decimal) /\ Len(x) = m /\ y \in Seq(Decimal) /\ Len(y) = 6
      /\ Value(x, 10) = q /\ Value(y, 10) = r
  BY <1>1, DecimalDigits, DecimalValue
<1>4. x[1] = 0 => Len(x) = 1
  <2> SUFFICES ASSUME m # 1 PROVE x[1] # 0
    BY <1>3
  <2>1. m \in Nat \ {0} /\ q >= Power(10)[m - 1]
    BY DEF q
  <2> QED
    BY <1>1, <2>1, DecimalLead
<1> HIDE DEF x, y
<1>5. SubSeq(x, 1, Len(x) - 3) = <<>>
  BY <1>3, SubSeqEmpty
<1>6. SubSeq(x, IF Len(x) > 3 THEN Len(x) - 2 ELSE 1, Len(x)) = x
  BY <1>3, SubSeqFull
<1>7. a = << Value(SubSeq(x, 1, Len(x) - 3), 10),
             Power(10)[6] * Value(SubSeq(x, IF Len(x) > 3 THEN Len(x) - 2 ELSE 1, Len(x)), 10)
               + Value(y, 10) >>
  BY <1>1, <1>2, <1>3, <1>5, <1>6, NothingIsZero
<1>8. Len(x) >= 1
  BY <1>3
<1>9. Reads(x \o <<Point>> \o y, a)
  BY <1>3, <1>4, <1>7, <1>8, ReadText
<1> QED
  BY <1>9 DEF x, y, q, r

\* An amount printed in two.
LEMMA HighReads ==
  ASSUME NEW a \in Amounts, NEW w \in 1..9, a[1] < Power(10)[w], a[1] >= Power(10)[w - 1]
  PROVE  Reads((Padded(a[1], 10, w) \o Padded(LowCoins(a), 10, 3)) \o <<Point>>
                 \o Padded(LowRest(a), 10, 6), a)
<1> DEFINE q == LowCoins(a)
           r == LowRest(a)
           u == Padded(a[1], 10, w)
           v == Padded(q, 10, 3)
           x == u \o v
           y == Padded(r, 10, 6)
<1>1. /\ q \in Nat /\ q < Power(10)[3]
      /\ r \in Nat /\ r < Power(10)[6] /\ a[2] = Power(10)[6] * q + r
      /\ w \in Nat \ {0} /\ w \in Nat /\ 6 \in Nat /\ 3 \in Nat
  BY LowParts
<1>2. a = <<a[1], a[2]>> /\ a[1] \in Nat
  BY AmountParts
<1> HIDE DEF q, r
<1>3. /\ u \in Seq(Decimal) /\ Len(u) = w /\ Value(u, 10) = a[1]
      /\ v \in Seq(Decimal) /\ Len(v) = 3 /\ Value(v, 10) = q
      /\ y \in Seq(Decimal) /\ Len(y) = 6 /\ Value(y, 10) = r
  BY <1>1, <1>2, DecimalDigits, DecimalValue
<1>4. u[1] # 0
  BY <1>1, <1>2, DecimalLead
<1> HIDE DEF u, v, y
<1>5. Joins(x, Decimal, u, v) /\ SubSeq(x, 1, Len(u)) = u
      /\ SubSeq(x, Len(u) + 1, Len(u) + Len(v)) = v
  BY <1>3, Joining, PartsOfJoin, Zenon
<1> HIDE DEF x
<1>6. x \in Seq(Decimal) /\ Len(x) = w + 3 /\ x[1] = u[1]
  <2>1. x \in Seq(Decimal) /\ Len(x) = Len(u) + Len(v) /\ \A k \in 1..Len(u) : x[k] = u[k]
    BY <1>5, Zenon DEF Joins
  <2>2. 1 \in 1..Len(u)
    BY <1>3
  <2> QED
    BY <1>3, <2>1, <2>2
<1>7. /\ Len(x) - 3 = w /\ Len(x) > 3 /\ Len(x) - 2 = w + 1 /\ Len(x) >= 1
  BY <1>6
<1>8. SubSeq(x, 1, Len(x) - 3) = u
  BY <1>3, <1>5, <1>7
<1>9. SubSeq(x, IF Len(x) > 3 THEN Len(x) - 2 ELSE 1, Len(x)) = v
  BY <1>3, <1>5, <1>6, <1>7
<1>10. a = << Value(SubSeq(x, 1, Len(x) - 3), 10),
              Power(10)[6] * Value(SubSeq(x, IF Len(x) > 3 THEN Len(x) - 2 ELSE 1, Len(x)), 10)
                + Value(y, 10) >>
  BY <1>1, <1>2, <1>3, <1>8, <1>9
<1>11. x[1] = 0 => Len(x) = 1
  BY <1>4, <1>6
<1>12. Reads(x \o <<Point>> \o y, a)
  BY <1>3, <1>6, <1>7, <1>10, <1>11, ReadText
<1> QED
  BY <1>12 DEF x, y, u, v, q, r

LEMMA DecimalJoins ==
  ASSUME NEW v \in Nat, NEW n \in Nat
  PROVE  Padded(v, 10, n + 6)
           = Padded(v \div Power(10)[6], 10, n) \o Padded(v % Power(10)[6], 10, 6)
<1>1. 10 \in Nat \ {0} /\ 6 \in Nat
  OBVIOUS
<1> QED
  BY <1>1, PaddedJoins, Zenon

LEMMA WholeReads ==
  ASSUME NEW a \in Amounts, Printable(a), a[1] > 0 \/ a[2] >= Power(10)[6]
  PROVE  Reads(CopiedText(U64Digits(a), Len(U64Digits(a))), a)
<1> DEFINE q == LowCoins(a)
           r == LowRest(a)
           y == Padded(r, 10, 6)
<1>1. /\ q \in Nat /\ q < Power(10)[3] /\ r \in Nat /\ r < Power(10)[6]
      /\ a[2] = Power(10)[6] * q + r
      /\ a[1] \in Nat /\ a[2] \in Nat
  BY LowParts, AmountParts
<1>2. PICK w \in 1..9 : DigitsOfOne(a, w) \/ DigitsOfTwo(a, w)
  BY U64DigitsArePadded
<1>3. y \in Seq(Decimal) /\ Len(y) = 6
  <2>1. 6 \in Nat /\ r \in Nat
    BY <1>1
  <2> HIDE DEF r
  <2> QED
    BY <2>1, DecimalDigits
<1>4. 10 \in Nat \ {0} /\ 6 \in Nat /\ 3 \in Nat
  OBVIOUS
<1>5. CASE DigitsOfOne(a, w)
  <2> DEFINE m == w - 6
             x == Padded(q, 10, m)
  <2>1. a[1] = 0 /\ a[2] < Power(10)[w] /\ a[2] >= Power(10)[w - 1]
    BY <1>5 DEF DigitsOfOne
  <2>2. m \in 1..3 /\ w = m + 6 /\ w - 1 = 6 + (m - 1) /\ w = 6 + m
    <3>1. Power(10)[w] \in Nat /\ Power(10)[6] \in Nat
      BY TenIsPositive
    <3>2. w <= 6 => Power(10)[w] <= Power(10)[6]
      BY TenIsPositive
    <3> QED
      BY <1>1, <2>1, <3>1, <3>2
  <2>3. q < Power(10)[m]
    <3>1. m \in Nat /\ a[2] < Power(10)[6 + m]
      BY <2>1, <2>2
    <3> QED
      BY <1>1, <1>4, <3>1, QuotientIsSmall DEF LowCoins
  <2>4. m = 1 \/ q >= Power(10)[m - 1]
    <3>1. m - 1 \in Nat
      BY <2>2
    <3>2. Power(10)[w - 1] = Power(10)[6] * Power(10)[m - 1]
      BY <1>4, <2>2, <3>1, PowerSum
    <3> DEFINE p == Power(10)[6]
               b == Power(10)[m - 1]
    <3>3. p \in Nat \ {0} /\ b \in Nat \ {0} /\ r < p /\ p * b <= p * q + r
      BY <1>1, <2>1, <3>1, <3>2, TenIsPositive
    <3> HIDE DEF p, b, q, r
    <3>4. q < b => p * (q + 1) <= p * b
      <4> SUFFICES ASSUME q < b PROVE p * (q + 1) <= p * b
        OBVIOUS
      <4>1. b - (q + 1) \in Nat /\ b = (q + 1) + (b - (q + 1))
        BY <1>1, <3>3
      <4>2. p * (b - (q + 1)) \in Nat
        BY <3>3, <4>1
      <4>3. p * b = p * (q + 1) + p * (b - (q + 1))
        BY <1>1, <3>3, <4>1
      <4> QED
        BY <1>1, <3>3, <4>2, <4>3
    <3>5. p * (q + 1) = p * q + p /\ p * q \in Nat /\ p * b \in Nat
      BY <1>1, <3>3
    <3>6. ~ (q < b)
      BY <1>1, <3>3, <3>4, <3>5
    <3> QED
      BY <1>1, <3>3, <3>6 DEF b
  <2>5. U64Digits(a) = x \o y
    <3>1. U64Digits(a) = Padded(a[2], 10, w)
      BY <1>5 DEF DigitsOfOne
    <3>2. m \in Nat
      BY <2>2
    <3>3. Padded(a[2], 10, m + 6)
            = Padded(a[2] \div Power(10)[6], 10, m) \o Padded(a[2] % Power(10)[6], 10, 6)
      BY <1>1, <3>2, DecimalJoins, Zenon
    <3>4. Padded(a[2], 10, m + 6) = x \o y
      BY <3>3, Zenon DEF LowCoins, LowRest
    <3> HIDE DEF x, y
    <3> QED
      BY <2>2, <3>1, <3>4, Zenon
  <2>6. x \in Seq(Decimal) /\ Len(x) >= 1
    <3>1. m \in Nat /\ m >= 1 /\ q \in Nat
      BY <1>1, <2>2
    <3> HIDE DEF m, q
    <3>2. x \in Seq(Decimal) /\ Len(x) = m
      BY <3>1, DecimalDigits, Zenon
    <3> QED
      BY <3>1, <3>2
  <2>7. Reads(x \o <<Point>> \o y, a)
    BY <2>1, <2>2, <2>3, <2>4, LowReads
  <2> HIDE DEF x, y
  <2>8. CopiedText(U64Digits(a), Len(U64Digits(a))) = x \o <<Point>> \o y
    BY <1>3, <2>5, <2>6, AllCopied
  <2> QED
    BY <2>7, <2>8
<1>6. CASE DigitsOfTwo(a, w)
  <2> DEFINE u == Padded(a[1], 10, w)
             v == Padded(q, 10, 3)
             x == u \o v
  <2>1. a[1] < Power(10)[w] /\ a[1] >= Power(10)[w - 1]
    BY <1>6 DEF DigitsOfTwo
  <2>2. Reads(x \o <<Point>> \o y, a)
    BY <2>1, HighReads
  <2>3. U64Digits(a) = u \o (v \o y)
    <3>1. U64Digits(a) = Padded(a[1], 10, w) \o Padded(a[2], 10, 9)
      BY <1>6 DEF DigitsOfTwo
    <3>2. Padded(a[2], 10, 3 + 6)
            = Padded(a[2] \div Power(10)[6], 10, 3) \o Padded(a[2] % Power(10)[6], 10, 6)
      BY <1>1, <1>4, DecimalJoins, Zenon
    <3>3. Padded(a[2], 10, 3 + 6) = v \o y
      BY <3>2, Zenon DEF LowCoins, LowRest
    <3>4. 3 + 6 = 9
      OBVIOUS
    <3> HIDE DEF v, y
    <3> QED
      BY <3>1, <3>3, <3>4
  <2>4. /\ u \in Seq(Decimal) /\ Len(u) = w /\ v \in Seq(Decimal) /\ Len(v) = 3
    <3>1. w \in Nat
      OBVIOUS
    <3> HIDE DEF q
    <3> QED
      BY <1>1, <1>4, <3>1, DecimalDigits
  <2> HIDE DEF u, v, y
  <2>5. x \in Seq(Decimal) /\ Len(x) >= 1
    <3>1. Joins(x, Decimal, u, v)
      BY <2>4, Joining, Zenon
    <3>2. x \in Seq(Decimal) /\ Len(x) = Len(u) + Len(v)
      BY <3>1, Zenon DEF Joins
    <3> QED
      BY <2>4, <3>2
  <2>6. U64Digits(a) = x \o y
    <3>1. Associates(u, v, y)
      BY <1>3, <2>4, Associative, Zenon
    <3> QED
      BY <2>3, <3>1, SMT DEF Associates
  <2> HIDE DEF x
  <2>7. CopiedText(U64Digits(a), Len(U64Digits(a))) = x \o <<Point>> \o y
    BY <1>3, <2>5, <2>6, AllCopied
  <2> QED
    BY <2>2, <2>7
<1> QED
  BY <1>2, <1>5, <1>6

\* Below one coin the text is a zero, the point and six digits.
LEMMA FractionReads ==
  ASSUME NEW a \in Amounts, a[1] = 0, a[2] < Power(10)[6]
  PROVE  Reads(<<0, Point>> \o Padded(a[2], 10, 6), a)
<1> DEFINE p == Power(10)[6]
           v == a[2]
<1>1. p \in Nat \ {0} /\ v \in Nat /\ v < p
  BY AmountParts, TenIsPositive
<1>2. v \div p = 0 /\ v % p = v
  <2>1. 10 \in Nat \ {0} /\ 6 \in Nat
    OBVIOUS
  <2>2. v \div p = 0
    BY <1>1, <2>1, NoDigitsLeft
  <2>3. v = p * (v \div p) + (v % p) /\ v % p \in 0..(p - 1)
    <3> HIDE DEF p, v
    <3> QED
      BY <1>1, Division
  <2> HIDE DEF p, v
  <2>4. v % p = v
    BY <1>1, <2>2, <2>3
  <2> QED
    BY <2>2, <2>4
<1>3. LowCoins(a) = 0 /\ LowRest(a) = a[2]
  BY <1>2 DEF LowCoins, LowRest
<1>4. 1 \in 1..3 /\ LowCoins(a) < Power(10)[1]
  BY <1>3, TenIsPositive
<1>5. Reads(Padded(0, 10, 1) \o <<Point>> \o Padded(a[2], 10, 6), a)
  BY <1>3, <1>4, LowReads
<1>6. Padded(0, 10, 1) = <<0>>
  <2>1. 0 \in Nat /\ 1 \in Nat /\ 1 \in 1..1 /\ 1 - 1 = 0 /\ 10 \in Nat \ {0} /\ 0 \div 1 = 0 /\ 0 % 10 = 0
    OBVIOUS
  <2>2. Digit(0, 10, 0) = 0
    BY <2>1, PowersOfTen DEF Digit
  <2>3. Padded(0, 10, 1) \in Seq(Decimal) /\ Len(Padded(0, 10, 1)) = 1 /\ Padded(0, 10, 1)[1] = 0
    <3> DEFINE s == Padded(0, 10, 1)
    <3>1. /\ s \in Seq(Decimal) /\ Len(s) = 1
          /\ \A k \in 1..1 : s[k] = Digit(0, 10, 1 - k)
      BY <2>1, DecimalDigits, Zenon
    <3> HIDE DEF s
    <3>2. s[1] = 0
      BY <2>1, <2>2, <3>1, Zenon
    <3> QED
      BY <3>1, <3>2 DEF s
  <2> QED
    BY <2>3
<1>7. <<0>> \o <<Point>> = <<0, Point>>
  <2> DEFINE u == <<0>>
             z == <<Point>>
             e == <<0, Point>>
  <2>1. /\ u \in Seq(Char) /\ Len(u) = 1 /\ u[1] = 0
        /\ z \in Seq(Char) /\ Len(z) = 1 /\ z[1] = Point
        /\ e \in Seq(Char) /\ Len(e) = 2 /\ e[1] = 0 /\ e[2] = Point
    BY DEF Char, Point
  <2> HIDE DEF u, z, e
  <2> DEFINE s == u \o z
  <2>2. Joins(s, Char, u, z)
    BY <2>1, Joining, Zenon
  <2> HIDE DEF s
  <2>3. s \in Seq(Char) /\ Len(s) = Len(e) /\ \A k \in 1..Len(s) : s[k] = e[k]
    BY <2>1, <2>2 DEF Joins
  <2>4. s = e
    BY <2>1, <2>3, SeqEqual, Zenon
  <2> QED
    BY <2>4 DEF s, e, u, z
<1> QED
  BY <1>5, <1>6, <1>7

\* The amount has a text in which at least one coin is shown.
HasCoins(a) == a[1] > 0 \/ a[2] >= Power(10)[6]

\* What the conversion has made of the amount at each of its stages.
AmountInv ==
  /\ amount \in Amounts
  /\ result \in {"called", "copying", "written", "thrown"}
  /\ result = "called" => copied = 0 /\ text = <<>>
  /\ result = "copying" =>
       /\ Printable(amount) /\ HasCoins(amount)
       /\ buffer = U64Digits(amount) /\ copied \in 0..(Len(buffer) - 1)
       /\ text = CopiedText(buffer, copied)
  /\ result = "written" =>
       /\ Printable(amount)
       /\ IF HasCoins(amount)
          THEN text = CopiedText(U64Digits(amount), Len(U64Digits(amount)))
          ELSE text = <<0, Point>> \o Padded(amount[2], 10, 6)
  /\ result = "thrown" => ~ Printable(amount)

LEMMA AmountInvInit == AmountInit => AmountInv
BY DEF AmountInit, AmountInv

LEMMA FirstCopied ==
  ASSUME NEW s \in Seq(Char), Len(s) >= 7
  PROVE  CopiedText(s, 0) = <<>>
<1>1. 0 <= Len(s) - 6 /\ SubSeq(s, 1, 0) = <<>>
  BY SubSeqEmpty
<1> QED
  BY <1>1, Zenon DEF CopiedText

LEMMA CoinsHaveSevenDigits ==
  ASSUME NEW a \in Amounts, Printable(a), HasCoins(a)
  PROVE  U64Digits(a) \in Seq(Char) /\ Len(U64Digits(a)) >= 7
<1>1. U64Digits(a) \in Seq(Decimal) /\ Len(U64Digits(a)) \in 1..18 /\ Len(U64Digits(a)) >= 7
  BY U64DigitsFit DEF HasCoins
<1>2. Decimal \subseteq Char
  BY DEF Decimal, Char, Point
<1> QED
  BY <1>1, <1>2

LEMMA RoomForDigits == Room \in Nat /\ Room >= 20
<1>1. Room \in Nat
  BY RoomAssumption, Zenon
<1>2. Room >= 20
  BY AmountAssumption, Zenon
<1> QED
  BY <1>1, <1>2, Zenon

LEMMA AmountInvNext ==
  ASSUME AmountInv, AmountNext
  PROVE  AmountInv'
<1> USE DEF AmountInv
<1>1. CASE Throw
  <2>1. ~ Printable(amount)
    <3> SUFFICES ASSUME Printable(amount) PROVE FALSE
      OBVIOUS
    <3>1. Len(U64Digits(amount)) \in 1..18
      BY U64DigitsFit
    <3>2. Room < Len(U64Digits(amount)) + 2
      BY <1>1 DEF Throw
    <3>3. Room \in Nat /\ Room >= 20
      BY RoomForDigits
    <3> DEFINE l == Len(U64Digits(amount))
    <3>4. l \in 1..18 /\ Room < l + 2
      BY <3>1, <3>2
    <3> HIDE DEF l, AmountInv
    <3> QED
      BY <3>3, <3>4
  <2>2. amount' = amount /\ result' = "thrown"
    BY <1>1 DEF Throw
  <2> QED
    BY <2>1, <2>2 DEF Printable
<1>2. CASE WriteFraction
  <2>1. /\ amount' = amount /\ result' = "written" /\ amount[1] = 0 /\ amount[2] < Power(10)[6]
        /\ text' = SubSeq(<<0, Point>> \o Padded(amount[2], 10, 6), 1,
                          IF Room > 8 THEN 8 ELSE Room - 1)
    BY <1>2, PowersOfTen, SMT DEF WriteFraction
  <2>2. Printable(amount) /\ ~ HasCoins(amount)
    <3>1. amount[2] \in Nat /\ Power(10)[6] \in Nat
      BY AmountParts, TenIsPositive
    <3> QED
      BY <2>1, <3>1 DEF Printable, HasCoins
  <2>3. text' = <<0, Point>> \o Padded(amount[2], 10, 6)
    <3> DEFINE s == <<0, Point>>
               t == Padded(amount[2], 10, 6)
               u == s \o t
    <3>1. s \in Seq(Char) /\ Len(s) = 2
      BY DEF Char, Point
    <3>2. t \in Seq(Char) /\ Len(t) = 6
      <4>1. amount[2] \in Nat /\ 6 \in Nat
        BY AmountParts
      <4>2. t \in Seq(Decimal) /\ Len(t) = 6
        BY <4>1, DecimalDigits
      <4>3. Decimal \subseteq Char
        BY DEF Decimal, Char, Point
      <4> HIDE DEF t
      <4> QED
        BY <4>2, <4>3
    <3> HIDE DEF s, t
    <3>3. Joins(u, Char, s, t)
      BY <3>1, <3>2, Joining, Zenon
    <3> HIDE DEF u
    <3>4. u \in Seq(Char) /\ Len(u) = 8
      BY <3>1, <3>2, <3>3 DEF Joins
    <3>5. (IF Room > 8 THEN 8 ELSE Room - 1) = 8
      BY RoomForDigits
    <3>6. SubSeq(u, 1, 8) = u
      BY <3>4, SubSeqFull
    <3>7. text' = SubSeq(u, 1, IF Room > 8 THEN 8 ELSE Room - 1)
      BY <2>1 DEF u, s, t
    <3> QED
      BY <3>5, <3>6, <3>7 DEF u, s, t
  <2>4. Printable(amount') /\ ~ HasCoins(amount')
    BY <2>1, <2>2
  <2> QED
    BY <2>1, <2>3, <2>4, Zenon
<1>3. CASE StartCopy
  <2>1. /\ amount' = amount /\ result' = "copying" /\ Printable(amount)
        /\ buffer' = U64Digits(amount) /\ result = "called"
        /\ copied' = copied /\ text' = text
    BY <1>3 DEF StartCopy
  <2>2. HasCoins(amount)
    BY <1>3, PowersOfTen, SMT DEF StartCopy, HasCoins
  <2> DEFINE s == U64Digits(amount)
  <2>3. s \in Seq(Char) /\ Len(s) >= 7
    BY <2>1, <2>2, CoinsHaveSevenDigits
  <2> HIDE DEF s
  <2>4. CopiedText(s, 0) = <<>> /\ 0 \in 0..(Len(s) - 1)
    BY <2>3, FirstCopied
  <2>5. copied' = 0 /\ text' = <<>>
    BY <2>1
  <2>6. /\ Printable(amount') /\ HasCoins(amount') /\ buffer' = U64Digits(amount')
        /\ copied' \in 0..(Len(buffer') - 1) /\ text' = CopiedText(buffer', copied')
    BY <2>1, <2>2, <2>4, <2>5, Zenon DEF s
  <2> QED
    BY <2>1, <2>6, Zenon
<1>4. CASE CopyDigit
  <2>1. /\ result = "copying" /\ amount' = amount /\ buffer' = buffer
        /\ text' = text \o (IF copied = Len(buffer) - 6 THEN <<Point>> ELSE <<>>)
                        \o <<buffer[copied + 1]>>
        /\ copied' = copied + 1
        /\ result' = IF copied + 1 = Len(buffer) THEN "written" ELSE "copying"
    BY <1>4 DEF CopyDigit
  <2>2. /\ Printable(amount) /\ HasCoins(amount) /\ buffer = U64Digits(amount)
        /\ copied \in 0..(Len(buffer) - 1) /\ text = CopiedText(buffer, copied)
    BY <2>1
  <2>3. buffer \in Seq(Char) /\ Len(buffer) >= 7
    BY <2>2, CoinsHaveSevenDigits
  <2>4. text' = CopiedText(buffer, copied')
    BY <2>1, <2>2, <2>3, CopyStep
  <2>5. CASE copied + 1 = Len(buffer)
    <3>1. result' = "written" /\ copied' = Len(buffer)
      BY <2>1, <2>5
    <3>2. text' = CopiedText(U64Digits(amount'), Len(U64Digits(amount')))
      BY <2>1, <2>2, <2>4, <3>1, Zenon
    <3>3. Printable(amount') /\ HasCoins(amount')
      BY <2>1, <2>2
    <3> QED
      BY <2>1, <3>1, <3>2, <3>3, Zenon
  <2>6. CASE copied + 1 # Len(buffer)
    <3>1. result' = "copying"
      BY <2>1, <2>6
    <3>2. copied' \in 0..(Len(buffer') - 1)
      BY <2>1, <2>2, <2>3, <2>6
    <3>3. /\ Printable(amount') /\ HasCoins(amount') /\ buffer' = U64Digits(amount')
          /\ text' = CopiedText(buffer', copied')
      BY <2>1, <2>2, <2>4, Zenon
    <3> QED
      BY <2>1, <3>1, <3>2, <3>3, Zenon
  <2> QED
    BY <2>5, <2>6
<1> QED
  BY <1>1, <1>2, <1>3, <1>4 DEF AmountNext

LEMMA AmountInvReads ==
  ASSUME AmountInv
  PROVE  AmountReadsBack /\ ThrowsFromLimitOn
<1>1. ASSUME result = "written"
      PROVE  Reads(text, amount)
  <2>1. CASE HasCoins(amount)
    BY <1>1, <2>1, WholeReads DEF AmountInv, HasCoins
  <2>2. CASE ~ HasCoins(amount)
    <3>1. amount[1] \in Nat /\ amount[2] \in Nat /\ Power(10)[6] \in Nat
      BY AmountParts, TenIsPositive DEF AmountInv
    <3>2. amount[1] = 0 /\ amount[2] < Power(10)[6]
      BY <2>2, <3>1 DEF HasCoins
    <3> QED
      BY <1>1, <2>2, <3>2, FractionReads DEF AmountInv
  <2> QED
    BY <2>1, <2>2
<1>2. AmountReadsBack
  BY <1>1, SMT DEF AmountReadsBack, Reads
<1>3. ThrowsFromLimitOn
  <2>1. amount[1] \in Nat
    BY AmountParts DEF AmountInv
  <2>2. Printable(amount) <=> ~ (amount[1] >= 10^9)
    BY <2>1, SMT DEF Printable
  <2>3. result = "copying" \/ result = "written" => Printable(amount)
    BY DEF AmountInv
  <2>4. result = "thrown" => ~ Printable(amount)
    BY DEF AmountInv
  <2>5. result \in {"called", "copying", "written", "thrown"}
    BY DEF AmountInv
  <2> QED
    BY <2>2, <2>3, <2>4, <2>5, SMT DEF ThrowsFromLimitOn
<1> QED
  BY <1>2, <1>3

-----------------------------------------------------------------------------
(* The conversions do not disturb each other.                                  *)

LEMMA AmountInvSteps ==
  ASSUME AmountInv, [Next]_vars
  PROVE  AmountInv'
<1>1. CASE AmountNext
  BY <1>1, AmountInvNext
<1>2. CASE UNCHANGED amountVars
  <2>1. amount' = amount /\ buffer' = buffer /\ copied' = copied /\ text' = text
        /\ result' = result
    BY <1>2 DEF amountVars
  <2>2. Printable(amount') = Printable(amount) /\ HasCoins(amount') = HasCoins(amount)
    BY <2>1
  <2> QED
    BY <2>1, <2>2, Zenon DEF AmountInv
<1> QED
  BY <1>1, <1>2 DEF Next, vars

\* get_amount: whoever reads the page reads the amount of the output, whatever it is.
THEOREM AmountsReadBack == Spec => []AmountReadsBack
<1>1. Init => AmountInv
  BY AmountInvInit DEF Init
<1>2. AmountInv /\ [Next]_vars => AmountInv'
  BY AmountInvSteps
<1>3. AmountInv => AmountReadsBack
  BY AmountInvReads
<1> QED
  BY <1>1, <1>2, <1>3, PTL DEF Spec

\* get_amount: of all amounts of 64 bits (and any larger), it throws for exactly those
\* from 10^18 on, which format_u64 cannot print.
THEOREM AmountsThrowFromLimitOn == Spec => []ThrowsFromLimitOn
<1>1. Init => AmountInv
  BY AmountInvInit DEF Init
<1>2. AmountInv /\ [Next]_vars => AmountInv'
  BY AmountInvSteps
<1>3. AmountInv => ThrowsFromLimitOn
  BY AmountInvReads
<1> QED
  BY <1>1, <1>2, <1>3, PTL DEF Spec

-----------------------------------------------------------------------------
(* The bytes of a key.                                                         *)

LEMMA TimesMonotone ==
  ASSUME NEW p \in Nat, NEW x \in Nat, NEW y \in Nat, x <= y
  PROVE  p * x \in Nat /\ p * y \in Nat /\ p * x <= p * y
<1>1. y - x \in Nat /\ y = x + (y - x)
  OBVIOUS
<1>2. p * (y - x) \in Nat /\ p * x \in Nat /\ p * y \in Nat
  BY <1>1
<1>3. p * y = p * x + p * (y - x)
  BY <1>1
<1> QED
  BY <1>2, <1>3

\* Half the values of a byte: what its top bit stands for.
Half == ByteMod \div 2

LEMMA KeyNumbers ==
  /\ ByteMod \in Nat \ {0} /\ Half \in Nat \ {0} /\ ByteMod = 2 * Half
  /\ KeySize \in Nat \ {0} /\ Prime \in Nat /\ Prime % 2 = 1
  /\ 2 * Prime < Power(ByteMod)[KeySize]
<1>1. /\ ByteMod \in Nat \ {0} /\ ByteMod % 2 = 0
      /\ KeySize \in Nat \ {0} /\ Prime \in Nat /\ Prime % 2 = 1
      /\ 2 * Prime < Power(ByteMod)[KeySize]
  BY PointsAssumption, Zenon
<1>2. Half \in Nat \ {0} /\ ByteMod = 2 * Half
  BY <1>1 DEF Half
<1> QED
  BY <1>1, <1>2, Zenon

LEMMA KeyCoordinates ==
  ASSUME NEW p \in Points
  PROVE  /\ p[1] \in Nat /\ p[2] \in Nat /\ p[1] < Prime /\ p[2] < Prime
         /\ p = <<p[1], p[2]>>
<1>1. p \in (0..(Prime - 1)) \X (0..(Prime - 1))
  BY PointsAssumption, Zenon
<1> QED
  BY <1>1, KeyNumbers

\* The prime leaves the top bit of y free.
LEMMA TopBitIsFree ==
  ASSUME NEW p \in Points
  PROVE  Digit(p[2], ByteMod, KeySize - 1) \in 0..(Half - 1)
<1> DEFINE y == p[2]
           n == KeySize - 1
           b == Power(ByteMod)[n]
           q == y \div b
<1>1. y \in Nat /\ y < Prime /\ Prime \in Nat
  BY KeyCoordinates, KeyNumbers
<1>2. n \in Nat /\ KeySize = n + 1
  BY KeyNumbers
<1>3. b \in Nat \ {0} /\ Power(ByteMod)[KeySize] = ByteMod * b
  BY <1>2, KeyNumbers, PowerIsPositive, PowerSteps
<1>4. Digit(y, ByteMod, n) = q % ByteMod
  BY DEF Digit
<1> HIDE DEF y, n, b
<1>5. q \in Nat /\ y % b \in 0..(b - 1) /\ y = b * q + (y % b)
  BY <1>1, <1>3, Division
<1> HIDE DEF q
<1>6. q < Half
  <2> SUFFICES ASSUME ~ (q < Half) PROVE FALSE
    OBVIOUS
  <2>1. Half <= q /\ Half \in Nat
    BY <1>5, KeyNumbers
  <2>2. b * Half <= b * q /\ b * Half \in Nat /\ b * q \in Nat
    BY <1>3, <1>5, <2>1, TimesMonotone
  <2>3. 2 * (b * Half) = ByteMod * b
    BY <1>3, KeyNumbers
  <2>4. 2 * Prime < 2 * (b * Half)
    BY <1>3, <2>3, KeyNumbers
  <2> DEFINE c == b * Half
             d == b * q
  <2>5. c \in Nat /\ d \in Nat /\ c <= d /\ 2 * Prime < 2 * c /\ d <= y
    BY <1>3, <1>5, <2>2, <2>4
  <2> HIDE DEF c, d
  <2> QED
    BY <1>1, <2>5
<1>7. q % ByteMod = q
  BY <1>5, <1>6, KeyNumbers
<1> QED
  BY <1>4, <1>5, <1>6, <1>7, KeyNumbers DEF y, n

LEMMA KeyBytes ==
  ASSUME NEW v \in Nat
  PROVE  /\ BigEndian(v) \in Seq(Nat) /\ Len(BigEndian(v)) = KeySize
         /\ \A k \in 1..KeySize : BigEndian(v)[k] = Digit(v, ByteMod, KeySize - k)
<1> DEFINE S == 0..(ByteMod - 1)
           s == Padded(v, ByteMod, KeySize)
<1>1. ByteMod \in Nat \ {0} /\ KeySize \in Nat
  BY KeyNumbers
<1>2. /\ s \in Seq(S) /\ Len(s) = KeySize
      /\ \A k \in 1..KeySize : s[k] = Digit(v, ByteMod, KeySize - k)
  BY <1>1, PaddedIsDigits, Zenon
<1>3. S \subseteq Nat
  BY <1>1
<1> HIDE DEF s, S
<1>4. s \in Seq(Nat)
  <2>1. Len(s) \in Nat /\ s \in [1..Len(s) -> S]
    BY <1>2
  <2>2. s \in [1..Len(s) -> Nat]
    BY <1>3, <2>1
  <2> QED
    BY <2>1, <2>2
<1> QED
  BY <1>2, <1>4, Zenon DEF BigEndian, s

\* The bytes of the coordinates in the SDK's form of the key.
LEMMA RawBytes ==
  ASSUME NEW p \in Points, point = p
  PROVE  /\ \A k \in 1..KeySize :
              raw_pubkey[KeySize + 1 + k] = Digit(p[2], ByteMod, KeySize - k)
         /\ raw_pubkey[KeySize + 1] = Digit(p[1], ByteMod, 0)
<1> DEFINE x == BigEndian(point[1])
           y == BigEndian(point[2])
           f == <<4>>
           fx == f \o x
           r == fx \o y
<1>1. KeySize \in Nat /\ KeySize >= 1 /\ KeySize \in 1..KeySize /\ KeySize - KeySize = 0
  BY KeyNumbers
<1>2. ByteMod \in Nat \ {0} /\ p[1] \in Nat /\ p[2] \in Nat
  BY KeyNumbers, KeyCoordinates
<1>3. /\ Len(x) = KeySize /\ \A k \in 1..KeySize : x[k] = Digit(p[1], ByteMod, KeySize - k)
      /\ Len(y) = KeySize /\ \A k \in 1..KeySize : y[k] = Digit(p[2], ByteMod, KeySize - k)
      /\ x \in Seq(Nat) /\ y \in Seq(Nat)
  BY <1>2, KeyBytes
<1>4. f \in Seq(Nat) /\ Len(f) = 1
  OBVIOUS
<1>5. raw_pubkey = r
  BY DEF raw_pubkey
<1> HIDE DEF x, y, f
<1>7. Joins(fx, Nat, f, x)
  BY <1>3, <1>4, Joining, Zenon
<1>8. fx \in Seq(Nat) /\ Len(fx) = 1 + KeySize /\ \A k \in 1..KeySize : fx[1 + k] = x[k]
  BY <1>3, <1>4, <1>7, Zenon DEF Joins
<1> HIDE DEF fx
<1>9. Joins(r, Nat, fx, y)
  BY <1>3, <1>8, Joining, Zenon
<1>10. /\ \A k \in 1..(1 + KeySize) : r[k] = fx[k]
       /\ \A k \in 1..KeySize : r[(1 + KeySize) + k] = y[k]
  BY <1>3, <1>8, <1>9, Zenon DEF Joins
<1> HIDE DEF r
<1>11. 1 + KeySize = KeySize + 1 /\ KeySize + 1 \in 1..(1 + KeySize)
  BY <1>1
<1>12. \A k \in 1..KeySize : r[KeySize + 1 + k] = Digit(p[2], ByteMod, KeySize - k)
  BY <1>3, <1>10, <1>11
<1>13. r[KeySize + 1] = Digit(p[1], ByteMod, 0)
  BY <1>1, <1>3, <1>8, <1>10, <1>11
<1> QED
  BY <1>5, <1>12, <1>13

\* The output is y with the least significant byte first, as far as it is copied, and at
\* the end the top bit of its last byte says whether x is odd.
KeyInv ==
  /\ point \in Points /\ byte \in 0..KeySize /\ finished \in BOOLEAN
  /\ output = [k \in 1..KeySize |-> output[k]]
  /\ finished => byte = KeySize
  /\ \A k \in 1..byte :
       (finished => k # KeySize) => output[k] = Digit(point[2], ByteMod, k - 1)
  /\ finished =>
       output[KeySize] = Digit(point[2], ByteMod, KeySize - 1)
                           + (IF point[1] % 2 = 1 THEN Half ELSE 0)

LEMMA KeyInvInit == KeyInit => KeyInv
<1> SUFFICES ASSUME KeyInit PROVE KeyInv
  OBVIOUS
<1>1. point \in Points /\ byte = 0 /\ output = [k \in 1..KeySize |-> 0] /\ finished = FALSE
  BY DEF KeyInit
<1>2. KeySize \in Nat
  BY KeyNumbers
<1>3. output = [k \in 1..KeySize |-> output[k]]
  BY <1>1
<1>4. 0 \in 0..KeySize /\ 1..0 = {}
  BY <1>2
<1> QED
  BY <1>1, <1>3, <1>4, Zenon DEF KeyInv

\* The sign is the parity of x: a byte has an even number of values.
LEMMA SignIsParity ==
  ASSUME NEW p \in Points, point = p
  PROVE  SignByte % 2 = p[1] % 2
<1> DEFINE x == p[1]
<1>1. x \in Nat /\ ByteMod \in Nat \ {0} /\ Half \in Nat \ {0} /\ ByteMod = 2 * Half
  BY KeyCoordinates, KeyNumbers
<1>2. SignByte = (x \div 1) % ByteMod
  <2>1. SignByte = Digit(x, ByteMod, 0)
    BY RawBytes DEF SignByte
  <2>2. Power(ByteMod)[0] = 1
    BY <1>1, PowerSteps
  <2> QED
    BY <2>1, <2>2 DEF Digit
<1> HIDE DEF x
<1>3. x \div 1 = x
  BY <1>1
<1> DEFINE d == x % ByteMod
           q == x \div ByteMod
<1>4. d \in Nat /\ q \in Nat /\ x = ByteMod * q + d
  <2>1. q \in Nat /\ d \in 0..(ByteMod - 1) /\ x = ByteMod * q + d
    BY <1>1, Division, Zenon
  <2> QED
    BY <1>1, <2>1
<1> HIDE DEF d, q
<1>5. x = 2 * (Half * q) + d /\ Half * q \in Nat
  BY <1>1, <1>4
<1> DEFINE m == Half * q
<1>6. x = 2 * m + d /\ m \in Nat
  BY <1>5
<1> HIDE DEF m
<1>7. x % 2 = d % 2
  BY <1>4, <1>6
<1> QED
  BY <1>2, <1>3, <1>7 DEF d, x

LEMMA KeyInvNext ==
  ASSUME KeyInv, KeyNext
  PROVE  KeyInv'
<1>1. /\ point \in Points /\ byte \in 0..KeySize /\ finished \in BOOLEAN
      /\ output = [k \in 1..KeySize |-> output[k]]
      /\ finished => byte = KeySize
      /\ ~ finished => \A k \in 1..byte : output[k] = Digit(point[2], ByteMod, k - 1)
  BY DEF KeyInv
<1>2. KeySize \in Nat /\ KeySize >= 1 /\ KeySize \in 1..KeySize
  BY KeyNumbers
<1>3. CASE CopyByte
  <2>1. /\ byte < KeySize /\ byte' = byte + 1 /\ point' = point /\ finished' = finished
        /\ output' = [output EXCEPT ![byte + 1] = raw_pubkey[2 * KeySize - byte + 1]]
    BY <1>3 DEF CopyByte
  <2>2. ~ finished /\ byte + 1 \in 1..KeySize /\ byte \in Nat
    BY <1>1, <1>2, <2>1
  <2>3. raw_pubkey[2 * KeySize - byte + 1] = Digit(point[2], ByteMod, byte)
    <3> DEFINE k == KeySize - byte
    <3>1. /\ k \in 1..KeySize /\ KeySize + 1 + k = 2 * KeySize - byte + 1
          /\ KeySize - k = byte
      BY <1>2, <2>1, <2>2
    <3> HIDE DEF k
    <3>2. raw_pubkey[KeySize + 1 + k] = Digit(point[2], ByteMod, KeySize - k)
      BY <1>1, <3>1, RawBytes
    <3> QED
      BY <3>1, <3>2
  <2>4. output' = [k \in 1..KeySize |-> output'[k]]
    BY <1>1, <2>1, <2>2
  <2>5. \A k \in 1..byte' : output'[k] = Digit(point[2], ByteMod, k - 1)
    <3> SUFFICES ASSUME NEW k \in 1..(byte + 1)
                 PROVE  output'[k] = Digit(point[2], ByteMod, k - 1)
      BY <2>1
    <3>1. k \in 1..KeySize /\ (k = byte + 1 \/ k \in 1..byte)
      BY <2>1, <2>2, <1>2
    <3>2. CASE k = byte + 1
      <4>1. output'[k] = raw_pubkey[2 * KeySize - byte + 1] /\ k - 1 = byte
        BY <1>1, <2>1, <2>2, <3>1, <3>2
      <4> QED
        BY <2>3, <4>1
    <3>3. CASE k # byte + 1
      <4>1. output'[k] = output[k] /\ k \in 1..byte
        BY <1>1, <2>1, <2>2, <3>1, <3>3
      <4> QED
        BY <1>1, <2>2, <4>1
    <3> QED
      BY <3>2, <3>3
  <2>6. byte' \in 0..KeySize
    BY <1>2, <2>1, <2>2
  <2> QED
    BY <1>1, <2>1, <2>2, <2>4, <2>5, <2>6 DEF KeyInv
<1>4. CASE SetSign
  <2> DEFINE d == Digit(point[2], ByteMod, KeySize - 1)
  <2>1. /\ byte = KeySize /\ ~ finished /\ finished' = TRUE /\ point' = point /\ byte' = byte
        /\ output' = IF SignByte % 2 = 1
                     THEN [output EXCEPT ![KeySize] = (@ % Half) + Half]
                     ELSE output
    BY <1>4 DEF SetSign, Half
  <2>2. output[KeySize] = d /\ d \in 0..(Half - 1)
    BY <1>1, <1>2, <2>1, TopBitIsFree
  <2>3. SignByte % 2 = point[1] % 2
    BY <1>1, SignIsParity
  <2>4. d % Half = d
    <3> HIDE DEF d
    <3> QED
      BY <2>2, KeyNumbers
  <2>5. output' = IF point[1] % 2 = 1 THEN [output EXCEPT ![KeySize] = d + Half] ELSE output
    BY <2>1, <2>2, <2>3, <2>4
  <2>6. d + 0 = d
    BY <2>2
  <2>7. output' = [k \in 1..KeySize |-> output'[k]]
    BY <1>1, <1>2, <2>5
  <2>8. output'[KeySize] = d + (IF point[1] % 2 = 1 THEN Half ELSE 0)
    <3> HIDE DEF d
    <3>1. CASE point[1] % 2 = 1
      BY <1>1, <1>2, <2>5, <3>1
    <3>2. CASE point[1] % 2 # 1
      BY <2>2, <2>5, <2>6, <3>2
    <3> QED
      BY <3>1, <3>2
  <2>9. \A k \in 1..KeySize : k # KeySize => output'[k] = Digit(point[2], ByteMod, k - 1)
    <3> SUFFICES ASSUME NEW k \in 1..KeySize, k # KeySize
                 PROVE  output'[k] = Digit(point[2], ByteMod, k - 1)
      OBVIOUS
    <3>1. output'[k] = output[k]
      BY <1>1, <1>2, <2>5
    <3> QED
      BY <1>1, <2>1, <3>1
  <2> QED
    BY <1>1, <2>1, <2>7, <2>8, <2>9 DEF KeyInv
<1> QED
  BY <1>3, <1>4 DEF KeyNext

\* The bytes that are made are a way to write the key and no other one.
LEMMA WrittenOnce ==
  ASSUME NEW p \in Points, NEW q \in Points, NEW bytes, WrittenAs(p, bytes), WrittenAs(q, bytes)
  PROVE  q = p
<1>1. /\ p[1] \in Nat /\ p[2] \in Nat /\ p[1] < Prime /\ p[2] < Prime /\ p = <<p[1], p[2]>>
      /\ q[1] \in Nat /\ q[2] \in Nat /\ q[1] < Prime /\ q[2] < Prime /\ q = <<q[1], q[2]>>
  BY KeyCoordinates
<1>2. /\ ByteMod \in Nat \ {0} /\ KeySize \in Nat \ {0} /\ Prime \in Nat /\ Prime % 2 = 1
      /\ 2 * Prime < Power(ByteMod)[KeySize] /\ Power(ByteMod)[KeySize] \in Nat
  BY KeyNumbers, PowerIsPositive
<1>3. \A k \in 1..KeySize : Digit(p[2], ByteMod, k - 1) = Digit(q[2], ByteMod, k - 1)
  BY Zenon DEF WrittenAs
<1>4. p[2] = q[2]
  <2>1. \A k \in 0..(KeySize - 1) : Digit(p[2], ByteMod, k) = Digit(q[2], ByteMod, k)
    <3> SUFFICES ASSUME NEW k \in 0..(KeySize - 1)
                 PROVE  Digit(p[2], ByteMod, k) = Digit(q[2], ByteMod, k)
      OBVIOUS
    <3>1. k + 1 \in 1..KeySize /\ (k + 1) - 1 = k
      BY <1>2
    <3>2. Digit(p[2], ByteMod, (k + 1) - 1) = Digit(q[2], ByteMod, (k + 1) - 1)
      BY <1>3, <3>1, Zenon
    <3> QED
      BY <3>1, <3>2
  <2>2. p[2] < Power(ByteMod)[KeySize] /\ q[2] < Power(ByteMod)[KeySize] /\ KeySize \in Nat
    BY <1>1, <1>2
  <2> QED
    BY <1>1, <1>2, <2>1, <2>2, SameDigits
<1>5. p[1] % 2 = q[1] % 2
  BY Zenon DEF WrittenAs
<1>6. q[1] = p[1] \/ q[1] + p[1] = Prime
  BY <1>4, PointsAssumption
<1>7. q[1] = p[1]
  <2> DEFINE a == p[1]
             b == q[1]
  <2>1. a \in Nat /\ b \in Nat /\ a % 2 = b % 2 /\ (b = a \/ b + a = Prime)
    BY <1>1, <1>5, <1>6
  <2> HIDE DEF a, b
  <2>2. b = a
    BY <1>2, <2>1
  <2> QED
    BY <2>2 DEF a, b
<1> QED
  BY <1>1, <1>4, <1>7

LEMMA KeyInvReads ==
  ASSUME KeyInv
  PROVE  BytesNameTheKey
<1> SUFFICES ASSUME finished PROVE { p \in Points : WrittenAs(p, output) } = {point}
  BY DEF BytesNameTheKey
<1> DEFINE d == Digit(point[2], ByteMod, KeySize - 1)
           s == point[1] % 2
<1>1. /\ point \in Points /\ byte = KeySize
      /\ \A k \in 1..KeySize : k # KeySize => output[k] = Digit(point[2], ByteMod, k - 1)
      /\ output[KeySize] = d + (IF s = 1 THEN Half ELSE 0)
  BY DEF KeyInv
<1>2. d \in 0..(Half - 1)
  BY <1>1, TopBitIsFree
<1>3. s \in 0..1
  <2>1. point[1] \in Nat
    BY <1>1, KeyCoordinates
  <2> QED
    BY <2>1
<1>4. output[KeySize] \div Half = s /\ output[KeySize] % Half = d
  <2> HIDE DEF d, s
  <2>1. output[KeySize] = Half * s + d
    BY <1>1, <1>2, <1>3, KeyNumbers
  <2>2. Half \in Nat \ {0} /\ s \in Nat
    BY <1>3, KeyNumbers
  <2> QED
    BY <1>2, <2>1, <2>2, Quotient
<1>5. ASSUME NEW k \in 1..KeySize
      PROVE  output[k] % (IF k = KeySize THEN ByteMod \div 2 ELSE ByteMod)
               = Digit(point[2], ByteMod, k - 1)
  <2>1. CASE k = KeySize
    BY <1>4, <2>1 DEF Half
  <2>2. CASE k # KeySize
    <3>1. output[k] = Digit(point[2], ByteMod, k - 1)
      BY <1>1, <2>2
    <3>2. point[2] \in Nat /\ k - 1 \in Nat /\ ByteMod \in Nat \ {0}
      BY <1>1, KeyCoordinates, KeyNumbers
    <3>3. Digit(point[2], ByteMod, k - 1) \in 0..(ByteMod - 1)
      BY <3>2, DigitSteps
    <3> DEFINE e == Digit(point[2], ByteMod, k - 1)
    <3>4. e % ByteMod = e
      <4>1. e \in 0..(ByteMod - 1)
        BY <3>3
      <4> HIDE DEF e
      <4> QED
        BY <3>2, <4>1
    <3> QED
      BY <2>2, <3>1, <3>4
  <2> QED
    BY <2>1, <2>2
<1>6. WrittenAs(point, output)
  BY <1>4, <1>5 DEF WrittenAs, Half
<1>7. \A p \in Points : WrittenAs(p, output) => p = point
  BY <1>1, <1>6, WrittenOnce
<1> QED
  BY <1>1, <1>6, <1>7

LEMMA KeyInvSteps ==
  ASSUME KeyInv, [Next]_vars
  PROVE  KeyInv'
<1>1. CASE KeyNext
  BY <1>1, KeyInvNext
<1>2. CASE UNCHANGED keyVars
  <2>1. point' = point /\ byte' = byte /\ output' = output /\ finished' = finished
    BY <1>2 DEF keyVars
  <2> QED
    BY <2>1, Zenon DEF KeyInv
<1> QED
  BY <1>1, <1>2 DEF Next, vars

\* ed25519_public_key_to_bytes: no two keys have the same bytes, for a prime, a curve and
\* a size of any kind that leaves a bit free.
THEOREM KeysAreNamed == Spec => []BytesNameTheKey
<1>1. Init => KeyInv
  BY KeyInvInit DEF Init
<1>2. KeyInv /\ [Next]_vars => KeyInv'
  BY KeyInvSteps
<1>3. KeyInv => BytesNameTheKey
  BY KeyInvReads
<1> QED
  BY <1>1, <1>2, <1>3, PTL DEF Spec

-----------------------------------------------------------------------------
(* The text of a path: its elements.                                           *)

PathChar    == 0..Newline
ElementChar == 0..Slash

\* An element of the path b as it is printed, and the length that is counted for it.
ElementText(b, e) == Hex(b[e]) \o (IF e # 5 THEN <<Apostrophe, Slash>> ELSE <<Apostrophe>>)
ElementSize(b, e) == HexLen(b[e]) + (IF e # 5 THEN 2 ELSE 1)

LEMMA SixteenPowers ==
  /\ 16 \in Nat \ {0} /\ Power(16)[8] \in Nat
  /\ MaxElement \in Nat /\ MaxElement < Power(16)[8]
  /\ \A k \in Nat : Power(16)[k] \in Nat \ {0}
<1>1. 16 \in Nat \ {0}
  OBVIOUS
<1>2. /\ Power(16)[0] = 1 /\ Power(16)[0 + 1] = 16 * Power(16)[0]
      /\ Power(16)[1 + 1] = 16 * Power(16)[1] /\ Power(16)[2 + 1] = 16 * Power(16)[2]
      /\ Power(16)[3 + 1] = 16 * Power(16)[3] /\ Power(16)[4 + 1] = 16 * Power(16)[4]
      /\ Power(16)[5 + 1] = 16 * Power(16)[5] /\ Power(16)[6 + 1] = 16 * Power(16)[6]
      /\ Power(16)[7 + 1] = 16 * Power(16)[7]
  <2>1. 0 \in Nat /\ 1 \in Nat /\ 2 \in Nat /\ 3 \in Nat /\ 4 \in Nat /\ 5 \in Nat /\ 6 \in Nat
        /\ 7 \in Nat
    OBVIOUS
  <2> QED
    BY <1>1, <2>1, PowerSteps
<1>3. Power(16)[8] \in Nat /\ MaxElement \in Nat /\ MaxElement < Power(16)[8]
  BY <1>2, SMT DEF MaxElement
<1>4. \A k \in Nat : Power(16)[k] \in Nat \ {0}
  BY <1>1, PowerIsPositive
<1> QED
  BY <1>1, <1>3, <1>4, SMT

LEMMA PathElements ==
  ASSUME NEW b \in Paths, NEW e \in 1..5
  PROVE  b[e] \in Nat /\ b[e] < Power(16)[8]
<1>1. b \in [1..5 -> 0..MaxElement]
  BY PathAssumption, Zenon
<1>2. b[e] \in 0..MaxElement
  BY <1>1
<1>3. MaxElement \in Nat /\ MaxElement < Power(16)[8] /\ Power(16)[8] \in Nat
  BY SixteenPowers
<1> QED
  BY <1>2, <1>3

\* hex_len counts the digits that are printed.
LEMMA HexLenCounts ==
  ASSUME NEW v \in Nat, v < Power(16)[8]
  PROVE  /\ Hex(v) \in Seq(ElementChar) /\ Len(Hex(v)) = HexLen(v) /\ HexLen(v) \in 1..8
<1>1. 8 \in Nat \ {0} /\ 16 \in Nat \ {0}
  OBVIOUS
<1>2. PICK w \in 1..8 : /\ Unpadded(v, 16, 8) = Padded(v, 16, w)
                        /\ v < Power(16)[w] /\ (w = 1 \/ v >= Power(16)[w - 1])
  BY <1>1, UnpaddedIsPadded
<1>3. Hex(v) = Padded(v, 16, w)
  BY <1>2 DEF Hex
<1>4. w \in Nat /\ w \in 1..8 /\ w - 1 \in Nat
  BY <1>2
<1>5. Padded(v, 16, w) \in Seq(ElementChar) /\ Len(Padded(v, 16, w)) = w
  <2> DEFINE s == Padded(v, 16, w)
             D == 0..(16 - 1)
  <2>1. s \in Seq(D) /\ Len(s) = w
    BY <1>1, <1>4, PaddedIsDigits
  <2>2. D \subseteq ElementChar
    BY DEF ElementChar, Slash
  <2> HIDE DEF s, D
  <2>3. s \in [1..Len(s) -> D] /\ Len(s) \in Nat
    BY <2>1
  <2>4. s \in [1..Len(s) -> ElementChar]
    BY <2>2, <2>3
  <2>5. s \in Seq(ElementChar)
    BY <2>3, <2>4
  <2> QED
    BY <2>1, <2>5 DEF s
<1>6. HexLen(v) = w
  <2>1. CASE v = 0
    <3>1. w = 1
      <4>1. Power(16)[w - 1] \in Nat \ {0}
        BY <1>4, SixteenPowers
      <4> QED
        BY <1>2, <2>1, <4>1
    <3> QED
      BY <2>1, <3>1 DEF HexLen
  <2>2. CASE v # 0
    <3> DEFINE Zeros == { k \in 1..7 : v \div Power(16)[k] = 0 }
    <3>1. ASSUME NEW k \in 1..7, k >= w PROVE v \div Power(16)[k] = 0
      <4>1. k \in Nat /\ w <= k
        BY <3>1
      <4>2. Power(16)[w] <= Power(16)[k] /\ Power(16)[w] \in Nat /\ Power(16)[k] \in Nat
        BY <1>1, <1>4, <4>1, PowerGrows, SixteenPowers
      <4>3. v < Power(16)[k]
        BY <1>2, <4>2
      <4> QED
        BY <1>1, <4>1, <4>3, NoDigitsLeft
    <3>2. ASSUME NEW k \in 1..7, k < w PROVE v \div Power(16)[k] # 0
      <4> DEFINE p == Power(16)[k]
                 q == v \div p
      <4>1. k \in Nat /\ k <= w - 1 /\ w # 1
        BY <1>4, <3>2
      <4>2. p <= Power(16)[w - 1] /\ p \in Nat \ {0} /\ Power(16)[w - 1] \in Nat
        BY <1>1, <1>4, <4>1, PowerGrows, SixteenPowers
      <4>3. p <= v
        BY <1>2, <4>1, <4>2
      <4> HIDE DEF p
      <4>4. v % p \in 0..(p - 1) /\ v = p * q + (v % p)
        BY <4>2, Division
      <4> HIDE DEF q
      <4>5. q # 0
        BY <4>2, <4>3, <4>4
      <4> QED
        BY <4>5 DEF q, p
    <3>3. Zeros = w..7
      <4>1. \A k \in 1..7 : k \in Zeros <=> k >= w
        BY <1>4, <3>1, <3>2
      <4> QED
        BY <1>4, <4>1
    <3>4. Cardinality(w..7) = 8 - w
      <4>1. w \in Int /\ 7 \in Int
        BY <1>4
      <4>2. Cardinality(w..7) = IF w > 7 THEN 0 ELSE 7 - w + 1
        BY <4>1, FS_Interval
      <4> QED
        BY <1>4, <4>2
    <3>5. HexLen(v) = 8 - Cardinality(Zeros)
      BY <2>2 DEF HexLen
    <3> HIDE DEF Zeros
    <3>6. HexLen(v) = 8 - (8 - w)
      BY <3>3, <3>4, <3>5
    <3> QED
      BY <1>4, <3>6
  <2> QED
    BY <2>1, <2>2
<1> QED
  BY <1>3, <1>4, <1>5, <1>6

\* format_bip32 counts the characters it prints, ten at most.
LEMMA ElementFacts ==
  ASSUME NEW b \in Paths, NEW e \in 1..5
  PROVE  /\ ElementText(b, e) \in Seq(ElementChar)
         /\ Len(ElementText(b, e)) = ElementSize(b, e) /\ ElementSize(b, e) \in 2..10
<1> DEFINE h == Hex(b[e])
           n == HexLen(b[e])
           x == IF e # 5 THEN <<Apostrophe, Slash>> ELSE <<Apostrophe>>
           s == h \o x
<1>1. h \in Seq(ElementChar) /\ Len(h) = n /\ n \in 1..8
  <2> DEFINE v == b[e]
  <2>1. v \in Nat /\ v < Power(16)[8]
    BY PathElements
  <2> HIDE DEF v
  <2>2. Hex(v) \in Seq(ElementChar) /\ Len(Hex(v)) = HexLen(v) /\ HexLen(v) \in 1..8
    BY <2>1, HexLenCounts
  <2> QED
    BY <2>2 DEF v
<1>2. x \in Seq(ElementChar) /\ Len(x) = IF e # 5 THEN 2 ELSE 1
  <2>1. /\ <<Apostrophe, Slash>> \in Seq(ElementChar) /\ Len(<<Apostrophe, Slash>>) = 2
        /\ <<Apostrophe>> \in Seq(ElementChar) /\ Len(<<Apostrophe>>) = 1
    BY DEF ElementChar, Apostrophe, Slash
  <2> QED
    BY <2>1
<1>3. ElementText(b, e) = s /\ ElementSize(b, e) = n + (IF e # 5 THEN 2 ELSE 1)
  BY DEF ElementText, ElementSize
<1> HIDE DEF h, n, x
<1>4. Joins(s, ElementChar, h, x)
  BY <1>1, <1>2, Joining, Zenon
<1> HIDE DEF s
<1>5. s \in Seq(ElementChar) /\ Len(s) = Len(h) + Len(x)
  BY <1>4, Zenon DEF Joins
<1> QED
  BY <1>1, <1>2, <1>3, <1>5

-----------------------------------------------------------------------------
(* The text of a path: what is to be printed.                                  *)

\* Element e goes behind what is laid out in s.
Full(b, e, s) == s.cur + ElementSize(b, e) > LineLength

Separator(b, e, s) == IF Full(b, e, s) THEN <<Newline>> ELSE <<>>

Gone(b, e, s) ==
  [line |-> IF Full(b, e, s) THEN s.line + 1 ELSE s.line,
   cur  |-> (IF Full(b, e, s) THEN 0 ELSE s.cur) + ElementSize(b, e),
   text |-> s.text \o Separator(b, e, s) \o ElementText(b, e)]

\* f[k] has the line of element k, what is on it up to there, and the text up to there.
Laid(b, f) ==
  /\ f[0] = [line |-> 0, cur |-> 0, text |-> <<>>]
  /\ \A k \in 1..5 : f[k] = Gone(b, k, f[k - 1])

LEMMA Layout ==
  ASSUME NEW b
  PROVE  \E f : Laid(b, f)
<1> DEFINE f0 == [line |-> 0, cur |-> 0, text |-> <<>>]
           f1 == Gone(b, 1, f0)
           f2 == Gone(b, 2, f1)
           f3 == Gone(b, 3, f2)
           f4 == Gone(b, 4, f3)
           f5 == Gone(b, 5, f4)
           f  == [k \in 0..5 |-> IF k = 0 THEN f0 ELSE IF k = 1 THEN f1 ELSE IF k = 2 THEN f2
                                 ELSE IF k = 3 THEN f3 ELSE IF k = 4 THEN f4 ELSE f5]
<1>1. /\ f1 = Gone(b, 1, f0) /\ f2 = Gone(b, 2, f1) /\ f3 = Gone(b, 3, f2)
      /\ f4 = Gone(b, 4, f3) /\ f5 = Gone(b, 5, f4)
  OBVIOUS
<1>2. f0 = [line |-> 0, cur |-> 0, text |-> <<>>]
  OBVIOUS
<1> HIDE DEF f0, f1, f2, f3, f4, f5
<1>3. f[0] = f0 /\ f[1] = f1 /\ f[2] = f2 /\ f[3] = f3 /\ f[4] = f4 /\ f[5] = f5
  OBVIOUS
<1> HIDE DEF f
<1>4. ASSUME NEW k \in 1..5 PROVE f[k] = Gone(b, k, f[k - 1])
  <2>1. /\ k = 1 \/ k = 2 \/ k = 3 \/ k = 4 \/ k = 5
        /\ 1 - 1 = 0 /\ 2 - 1 = 1 /\ 3 - 1 = 2 /\ 4 - 1 = 3 /\ 5 - 1 = 4
    OBVIOUS
  <2> QED
    BY <1>1, <1>3, <2>1, Zenon
<1>5. Laid(b, f)
  BY <1>2, <1>3, <1>4, Zenon DEF Laid
<1> QED
  BY <1>5

\* The places of the text t where a line begins or ends, but for its end.
Breaks0(t) == {0} \cup { p \in 1..Len(t) : t[p] = Newline }

\* p and q are the ends of a line.
Adjacent(E, p, q) == p < q /\ \A r \in E : r <= p \/ q <= r

\* The lines of what is laid out in s fit on the screen, and s.cur is the last of them.
Fits(s) ==
  /\ s.line \in Nat /\ s.cur \in 0..LineLength /\ s.text \in Seq(PathChar)
  /\ Len(s.text) - s.cur \in Breaks0(s.text)
  /\ \A p \in Breaks0(s.text) : p <= Len(s.text) - s.cur
  /\ \A p, q \in Breaks0(s.text) : Adjacent(Breaks0(s.text), p, q) => q - p - 1 \in 1..LineLength
  /\ IsFiniteSet(Breaks0(s.text)) /\ Cardinality(Breaks0(s.text)) <= s.line + 1

LEMMA LineNumbers == LineLength \in Nat /\ LineLength >= 20 /\ Room >= 3 * (LineLength + 1)
BY PathAssumption, Zenon

\* Nothing is printed yet.
LEMMA EmptyFits ==
  ASSUME NEW s, s = [line |-> 0, cur |-> 0, text |-> <<>>]
  PROVE  Fits(s)
<1>1. s.line = 0 /\ s.cur = 0 /\ s.text = <<>>
  OBVIOUS
<1> DEFINE t == <<>>
<1>2. t \in Seq(PathChar) /\ Len(t) = 0
  OBVIOUS
<1>3. Breaks0(s.text) = {0}
  <2>1. 1..0 = {}
    OBVIOUS
  <2> QED
    BY <1>1, <1>2, <2>1 DEF Breaks0
<1>4. IsFiniteSet({0}) /\ Cardinality({0}) = 1
  BY FS_Singleton
<1>5. 0 \in 0..LineLength /\ Len(s.text) - s.cur = 0 /\ s.line \in Nat
  BY <1>1, <1>2, LineNumbers
<1>6. \A p, q \in {0} : ~ Adjacent({0}, p, q)
  BY DEF Adjacent
<1>7. Cardinality({0}) <= s.line + 1 /\ s.cur \in 0..LineLength /\ \A p \in {0} : p <= 0
  BY <1>1, <1>4, <1>5
<1>8. 0 \in {0} /\ s.text \in Seq(PathChar)
  BY <1>1, <1>2
<1> QED
  BY <1>3, <1>4, <1>5, <1>6, <1>7, <1>8, Zenon DEF Fits

LEMMA BreaksOfElement ==
  ASSUME NEW t \in Seq(PathChar), NEW x \in Seq(ElementChar)
  PROVE  /\ t \o x \in Seq(PathChar) /\ Len(t \o x) = Len(t) + Len(x)
         /\ Breaks0(t \o x) = Breaks0(t)
<1> DEFINE r == t \o x
           n == Len(t)
           m == Len(x)
<1>1. x \in Seq(PathChar)
  <2>1. Len(x) \in Nat /\ x \in [1..Len(x) -> ElementChar] /\ ElementChar \subseteq PathChar
    BY DEF ElementChar, PathChar, Slash, Newline
  <2>2. x \in [1..Len(x) -> PathChar]
    BY <2>1
  <2> QED
    BY <2>1, <2>2
<1>2. n \in Nat /\ m \in Nat /\ \A k \in 1..m : x[k] # Newline
  <2>1. \A k \in 1..m : x[k] \in ElementChar
    BY ElementOf
  <2>2. \A c \in ElementChar : c # Newline
    BY DEF ElementChar, Slash, Newline
  <2> QED
    BY <2>1, <2>2
<1>3. Joins(r, PathChar, t, x)
  BY <1>1, Joining, Zenon
<1> HIDE DEF r
<1>4. /\ r \in Seq(PathChar) /\ Len(r) = n + m
      /\ \A k \in 1..n : r[k] = t[k]
      /\ \A k \in 1..m : r[n + k] = x[k]
  BY <1>3, Zenon DEF Joins
<1> HIDE DEF n, m
<1>5. ASSUME NEW p \in 1..(n + m)
      PROVE  r[p] = Newline <=> p \in 1..n /\ t[p] = Newline
  <2>1. CASE p <= n
    <3>1. p \in 1..n
      BY <1>2, <2>1
    <3> QED
      BY <1>4, <3>1
  <2>2. CASE p > n
    <3>1. p - n \in 1..m /\ n + (p - n) = p /\ p \notin 1..n
      BY <1>2, <2>2
    <3>2. r[n + (p - n)] = x[p - n]
      BY <1>4, <3>1, Zenon
    <3>3. r[p] = x[p - n]
      BY <3>1, <3>2, Zenon
    <3> QED
      BY <1>2, <3>1, <3>3, Zenon
  <2> QED
    BY <1>2, <2>1, <2>2
<1>6. 1..n \subseteq 1..(n + m)
  BY <1>2
<1>7. { p \in 1..(n + m) : r[p] = Newline } = { p \in 1..n : t[p] = Newline }
  BY <1>5, <1>6
<1>8. Breaks0(r) = Breaks0(t)
  BY <1>4, <1>7, Zenon DEF Breaks0, n
<1> QED
  BY <1>4, <1>8 DEF r, n, m

LEMMA BreaksOfNewline ==
  ASSUME NEW t \in Seq(PathChar), NEW x, x = <<Newline>>
  PROVE  /\ t \o x \in Seq(PathChar) /\ Len(t \o x) = Len(t) + 1
         /\ Breaks0(t \o x) = Breaks0(t) \cup {Len(t) + 1}
         /\ (t \o x)[Len(t) + 1] = Newline
<1> DEFINE r == t \o x
           n == Len(t)
<1>1. x \in Seq(PathChar) /\ Len(x) = 1 /\ x[1] = Newline
  BY DEF PathChar, Newline
<1>2. n \in Nat
  OBVIOUS
<1>3. Joins(r, PathChar, t, x)
  BY <1>1, Joining, Zenon
<1> HIDE DEF r
<1>4. /\ r \in Seq(PathChar) /\ Len(r) = n + 1
      /\ \A k \in 1..n : r[k] = t[k]
      /\ r[n + 1] = Newline
  <2>1. /\ r \in Seq(PathChar) /\ Len(r) = n + Len(x)
        /\ \A k \in 1..n : r[k] = t[k]
        /\ \A k \in 1..Len(x) : r[n + k] = x[k]
    BY <1>3, Zenon DEF Joins
  <2>2. 1 \in 1..Len(x)
    BY <1>1
  <2> QED
    BY <1>1, <2>1, <2>2, Zenon
<1> HIDE DEF n
<1>5. \A p : p \in 1..(n + 1) <=> p \in 1..n \/ p = n + 1
  BY <1>2
<1>6. { p \in 1..(n + 1) : r[p] = Newline } = { p \in 1..n : t[p] = Newline } \cup {n + 1}
  BY <1>4, <1>5
<1>7. Breaks0(r) = Breaks0(t) \cup {n + 1}
  BY <1>4, <1>6 DEF Breaks0, n
<1> QED
  BY <1>4, <1>7 DEF r, n

LEMMA EmptyText ==
  ASSUME NEW t \in Seq(PathChar)
  PROVE  t \o <<>> = t
BY ConcatEmptySeq, Zenon

\* Where the last line ends, the lines still fit.
LEMMA LastLineFits ==
  ASSUME NEW s, Fits(s), s.cur >= 1, NEW F, F = Breaks0(s.text) \cup {Len(s.text) + 1}
  PROVE  /\ \A p \in F : p <= Len(s.text) + 1
         /\ \A p, q \in F : Adjacent(F, p, q) => q - p - 1 \in 1..LineLength
         /\ IsFiniteSet(F) /\ Cardinality(F) <= s.line + 2
<1> DEFINE t == s.text
           c == s.cur
           l == s.line
           E == Breaks0(t)
           n == Len(t)
<1>1. /\ l \in Nat /\ c \in 0..LineLength /\ t \in Seq(PathChar) /\ n - c \in E
      /\ \A p \in E : p <= n - c
      /\ \A p, q \in E : Adjacent(E, p, q) => q - p - 1 \in 1..LineLength
      /\ IsFiniteSet(E) /\ Cardinality(E) <= l + 1
  BY Zenon DEF Fits
<1>2. n \in Nat
  BY <1>1
<1>3. c \in 1..LineLength /\ c \in Int
  BY <1>1, LineNumbers
<1>4. \A p \in E : p \in Int
  BY DEF E, Breaks0
<1>5. F = E \cup {n + 1}
  OBVIOUS
<1> HIDE DEF n, c, l, t, E
<1>6. \A p \in F : p <= n + 1
  <2>1. ASSUME NEW p \in E PROVE p <= n + 1
    <3>1. p <= n - c /\ p \in Int
      BY <1>1, <1>4
    <3> QED
      BY <1>2, <1>3, <3>1
  <2>2. n + 1 <= n + 1
    BY <1>2
  <2> QED
    BY <1>5, <2>1, <2>2
<1>7. ASSUME NEW p \in F, NEW q \in F, Adjacent(F, p, q)
      PROVE  q - p - 1 \in 1..LineLength
  <2>1. p < q /\ \A r \in F : r <= p \/ q <= r
    BY <1>7 DEF Adjacent
  <2>2. p \in E
    BY <1>2, <1>4, <1>5, <1>6, <2>1
  <2>3. CASE q \in E
    <3>1. Adjacent(E, p, q)
      BY <1>5, <2>1 DEF Adjacent
    <3> QED
      BY <1>1, <2>2, <2>3, <3>1
  <2>4. CASE q = n + 1
    <3>1. n - c \in F /\ ~ (n + 1 <= n - c)
      BY <1>1, <1>2, <1>3, <1>5
    <3>2. n - c <= p
      BY <2>1, <2>4, <3>1
    <3>3. p = n - c
      BY <1>1, <1>2, <1>3, <1>4, <2>2, <3>2
    <3> QED
      BY <1>2, <1>3, <2>4, <3>3
  <2> QED
    BY <1>5, <2>3, <2>4
<1>8. IsFiniteSet(F) /\ Cardinality(F) <= l + 2
  <2>1. /\ IsFiniteSet(F)
        /\ Cardinality(F) = IF n + 1 \in E THEN Cardinality(E) ELSE Cardinality(E) + 1
    <3>1. IsFiniteSet(E)
      BY <1>1
    <3> HIDE DEF E, n
    <3>2. /\ IsFiniteSet(E \cup {n + 1})
          /\ Cardinality(E \cup {n + 1})
               = IF n + 1 \in E THEN Cardinality(E) ELSE Cardinality(E) + 1
      BY <3>1, FS_AddElement
    <3> QED
      BY <1>5, <3>2, Zenon
  <2>2. Cardinality(E) \in Nat
    BY <1>1, FS_CardinalityType
  <2> QED
    BY <1>1, <2>1, <2>2
<1> QED
  BY <1>6, <1>7, <1>8 DEF n, t, l

\* With another element the lines still fit.
LEMMA GoneFits ==
  ASSUME NEW b \in Paths, NEW e \in 1..5, NEW s, Fits(s)
  PROVE  Fits(Gone(b, e, s)) /\ Gone(b, e, s).cur >= 1
<1> DEFINE t == s.text
           x == ElementText(b, e)
           z == ElementSize(b, e)
           g == Gone(b, e, s)
           c == s.cur
           l == s.line
           E == Breaks0(t)
           n == Len(t)
<1>1. /\ l \in Nat /\ c \in 0..LineLength /\ t \in Seq(PathChar) /\ n - c \in E
      /\ \A p \in E : p <= n - c
      /\ \A p, q \in E : Adjacent(E, p, q) => q - p - 1 \in 1..LineLength
      /\ IsFiniteSet(E) /\ Cardinality(E) <= l + 1
  BY Zenon DEF Fits
<1>2. x \in Seq(ElementChar) /\ Len(x) = z /\ z \in 2..10
  BY ElementFacts
<1>3. Full(b, e, s) <=> c + z > LineLength
  BY DEF Full
<1>4. n \in Nat /\ n = Len(t)
  BY <1>1
<1>5. CASE ~ Full(b, e, s)
  <2> DEFINE u == t \o x
  <2>1. g.line = l /\ g.cur = c + z /\ g.text = t \o <<>> \o x
    BY <1>5 DEF Gone, Separator
  <2>2. t \o <<>> = t
    BY <1>1, EmptyText
  <2>3. g.text = u
    BY <2>1, <2>2
  <2>4. u \in Seq(PathChar) /\ Len(u) = n + z /\ Breaks0(u) = E
    BY <1>1, <1>2, BreaksOfElement
  <2> HIDE DEF g, u, n, c, l, z, E
  <2>5. /\ g.cur \in 0..LineLength /\ g.cur >= 1 /\ Len(g.text) - g.cur = n - c
    BY <1>1, <1>2, <1>3, <1>4, <1>5, <2>1, <2>3, <2>4, LineNumbers
  <2>6. Fits(g)
    BY <1>1, <2>1, <2>3, <2>4, <2>5, Zenon DEF Fits
  <2> QED
    BY <2>5, <2>6 DEF g
<1>6. CASE Full(b, e, s)
  <2> DEFINE v == t \o <<Newline>>
             u == v \o x
             F == E \cup {n + 1}
  <2>1. g.line = l + 1 /\ g.cur = 0 + z /\ g.text = u
    BY <1>6 DEF Gone, Separator
  <2>2. v \in Seq(PathChar) /\ Len(v) = n + 1 /\ Breaks0(v) = F
    BY <1>1, BreaksOfNewline
  <2>3. u \in Seq(PathChar) /\ Len(u) = n + 1 + z /\ Breaks0(u) = F
    <3> HIDE DEF v, F
    <3> QED
      BY <1>2, <2>2, BreaksOfElement
  <2> HIDE DEF g, u, v, n, c, l, z, E
  <2>4. g.line \in Nat /\ g.cur \in 0..LineLength /\ g.cur >= 1 /\ Len(g.text) - g.cur = n + 1
    BY <1>1, <1>2, <1>4, <2>1, <2>3, LineNumbers
  <2>5. c \in 1..LineLength /\ c \in Int
    BY <1>1, <1>2, <1>3, <1>6, LineNumbers
  <2>6. /\ \A p \in F : p <= n + 1
        /\ \A p, q \in F : Adjacent(F, p, q) => q - p - 1 \in 1..LineLength
        /\ IsFiniteSet(F) /\ Cardinality(F) <= l + 2
    <3>1. s.cur >= 1 /\ F = Breaks0(s.text) \cup {Len(s.text) + 1}
      BY <2>5 DEF c, E, n, t
    <3>2. \A G : G = Breaks0(s.text) \cup {Len(s.text) + 1} =>
            /\ \A p \in G : p <= Len(s.text) + 1
            /\ \A p, q \in G : Adjacent(G, p, q) => q - p - 1 \in 1..LineLength
            /\ IsFiniteSet(G) /\ Cardinality(G) <= s.line + 2
      BY <3>1, LastLineFits, Zenon
    <3> QED
      BY <3>1, <3>2, Zenon DEF n, t, l
  <2>7. n + 1 \in F
    OBVIOUS
  <2>8. Cardinality(F) <= (l + 1) + 1
    <3>1. Cardinality(F) \in Nat
      BY <2>6, FS_CardinalityType
    <3> QED
      BY <1>1, <2>6, <3>1
  <2> HIDE DEF F
  <2>10. Fits(g)
    BY <2>1, <2>3, <2>4, <2>6, <2>7, <2>8, Zenon DEF Fits
  <2> QED
    BY <2>4, <2>10 DEF g
<1> QED
  BY <1>5, <1>6

LEMMA GoneCases ==
  ASSUME NEW b \in Paths, NEW e \in 1..5, NEW s, Fits(s)
  PROVE  \/ /\ ~ Full(b, e, s) /\ Gone(b, e, s).line = s.line
            /\ Gone(b, e, s).cur = s.cur + ElementSize(b, e)
            /\ s.cur + ElementSize(b, e) <= LineLength
         \/ /\ Full(b, e, s) /\ Gone(b, e, s).line = s.line + 1
            /\ Gone(b, e, s).cur = ElementSize(b, e)
            /\ s.cur + ElementSize(b, e) > LineLength
<1> DEFINE z == ElementSize(b, e)
<1>1. z \in 2..10 /\ s.cur \in 0..LineLength /\ LineLength \in Nat
  BY ElementFacts, LineNumbers DEF Fits
<1>2. /\ Gone(b, e, s).line = IF Full(b, e, s) THEN s.line + 1 ELSE s.line
      /\ Gone(b, e, s).cur = (IF Full(b, e, s) THEN 0 ELSE s.cur) + z
  BY DEF Gone
<1>3. Full(b, e, s) <=> s.cur + z > LineLength
  BY DEF Full
<1> HIDE DEF z
<1>4. 0 + z = z
  BY <1>1
<1>5. CASE Full(b, e, s)
  BY <1>1, <1>2, <1>3, <1>4, <1>5 DEF z
<1>6. CASE ~ Full(b, e, s)
  <2>1. s.cur + z <= LineLength
    BY <1>1, <1>3, <1>6
  <2> QED
    BY <1>2, <1>6, <2>1 DEF z
<1> QED
  BY <1>5, <1>6

\* Every element begins on the line of the one before or on the next.
LEMMA LaidFits ==
  ASSUME NEW b \in Paths, NEW f, Laid(b, f)
  PROVE  /\ \A k \in 0..5 : Fits(f[k])
         /\ \A k \in 1..5 : f[k].cur >= 1
         /\ \A k \in 1..5 : \/ ~ Full(b, k, f[k - 1]) /\ f[k].line = f[k - 1].line
                            \/ Full(b, k, f[k - 1]) /\ f[k].line = f[k - 1].line + 1
<1>1. f[0] = [line |-> 0, cur |-> 0, text |-> <<>>] /\ \A k \in 1..5 : f[k] = Gone(b, k, f[k - 1])
  BY Zenon DEF Laid
<1>2. Fits(f[0])
  BY <1>1, EmptyFits, Zenon
<1>3. ASSUME NEW k \in 1..5, Fits(f[k - 1])
      PROVE  Fits(f[k]) /\ f[k].cur >= 1
  BY <1>1, <1>3, GoneFits
<1>4. Fits(f[1]) /\ f[1].cur >= 1
  <2>1. 1 \in 1..5 /\ 1 - 1 = 0
    OBVIOUS
  <2> QED
    BY <1>2, <1>3, <2>1
<1>5. Fits(f[2]) /\ f[2].cur >= 1
  <2>1. 2 \in 1..5 /\ 2 - 1 = 1
    OBVIOUS
  <2> QED
    BY <1>4, <1>3, <2>1
<1>6. Fits(f[3]) /\ f[3].cur >= 1
  <2>1. 3 \in 1..5 /\ 3 - 1 = 2
    OBVIOUS
  <2> QED
    BY <1>5, <1>3, <2>1
<1>7. Fits(f[4]) /\ f[4].cur >= 1
  <2>1. 4 \in 1..5 /\ 4 - 1 = 3
    OBVIOUS
  <2> QED
    BY <1>6, <1>3, <2>1
<1>8. Fits(f[5]) /\ f[5].cur >= 1
  <2>1. 5 \in 1..5 /\ 5 - 1 = 4
    OBVIOUS
  <2> QED
    BY <1>7, <1>3, <2>1
<1>9. /\ \A k \in 0..5 : k = 0 \/ k = 1 \/ k = 2 \/ k = 3 \/ k = 4 \/ k = 5
      /\ \A k \in 1..5 : k = 1 \/ k = 2 \/ k = 3 \/ k = 4 \/ k = 5
  OBVIOUS
<1>10. \A k \in 0..5 : Fits(f[k])
  BY <1>2, <1>4, <1>5, <1>6, <1>7, <1>8, <1>9, Zenon
<1>11. \A k \in 1..5 : f[k].cur >= 1
  BY <1>4, <1>5, <1>6, <1>7, <1>8, <1>9, Zenon
<1>12. ASSUME NEW k \in 1..5
       PROVE  \/ ~ Full(b, k, f[k - 1]) /\ f[k].line = f[k - 1].line
              \/ Full(b, k, f[k - 1]) /\ f[k].line = f[k - 1].line + 1
  <2>1. k - 1 \in 0..5
    OBVIOUS
  <2>2. Fits(f[k - 1]) /\ f[k] = Gone(b, k, f[k - 1])
    BY <1>1, <1>10, <2>1, Zenon
  <2> QED
    BY <2>2, GoneCases
<1> QED
  BY <1>10, <1>11, <1>12

\* Two elements fit on a line, so that five of them are on three lines.
LEMMA ThreeLines ==
  ASSUME NEW b \in Paths, NEW f, Laid(b, f)
  PROVE  /\ f[0].line = 0 /\ f[1].line = 0 /\ f[5].line \in 0..2
         /\ \A k \in 0..5 : f[k].line \in 0..2
         /\ \A j, k \in 0..5 : j <= k => f[j].line <= f[k].line
<1> DEFINE z(k) == ElementSize(b, k)
           l(k) == f[k].line
           c(k) == f[k].cur
           Goes(k, m) == \/ l(k) = l(m) /\ c(k) = c(m) + z(k) /\ c(m) + z(k) <= LineLength
                         \/ l(k) = l(m) + 1 /\ c(k) = z(k) /\ c(m) + z(k) > LineLength
<1>1. f[0] = [line |-> 0, cur |-> 0, text |-> <<>>] /\ \A k \in 1..5 : f[k] = Gone(b, k, f[k - 1])
  BY Zenon DEF Laid
<1>2. l(0) = 0 /\ c(0) = 0
  BY <1>1
<1>3. \A k \in 1..5 : z(k) \in 2..10
  BY ElementFacts
<1>4. ASSUME NEW k \in 1..5 PROVE Goes(k, k - 1)
  <2>1. k - 1 \in 0..5
    OBVIOUS
  <2>2. Fits(f[k - 1]) /\ f[k] = Gone(b, k, f[k - 1])
    BY <1>1, <2>1, LaidFits, Zenon
  <2> QED
    BY <2>2, GoneCases
<1>5. Goes(1, 0) /\ Goes(2, 1) /\ Goes(3, 2) /\ Goes(4, 3) /\ Goes(5, 4)
  <2>1. /\ 1 \in 1..5 /\ 2 \in 1..5 /\ 3 \in 1..5 /\ 4 \in 1..5 /\ 5 \in 1..5
        /\ 1 - 1 = 0 /\ 2 - 1 = 1 /\ 3 - 1 = 2 /\ 4 - 1 = 3 /\ 5 - 1 = 4
    OBVIOUS
  <2> HIDE DEF Goes
  <2> QED
    BY <1>4, <2>1
<1>6. z(1) \in 2..10 /\ z(2) \in 2..10 /\ z(3) \in 2..10 /\ z(4) \in 2..10 /\ z(5) \in 2..10
  BY <1>3
<1> HIDE DEF z, l, c
<1>7. l(1) = 0 /\ c(1) = z(1)
  BY <1>2, <1>5, <1>6, LineNumbers
<1>8. l(2) = 0 /\ c(2) = z(1) + z(2)
  BY <1>5, <1>6, <1>7, LineNumbers
<1>9. \/ l(3) = 0 /\ c(3) \in Nat
      \/ l(3) = 1 /\ c(3) = z(3)
  BY <1>5, <1>6, <1>8, LineNumbers
<1>10. l(4) \in {0, 1} /\ l(3) <= l(4)
  BY <1>5, <1>6, <1>9, LineNumbers
<1>11. l(5) \in 0..2 /\ l(4) <= l(5)
  BY <1>5, <1>10
<1>12. \A k \in 0..5 : k = 0 \/ k = 1 \/ k = 2 \/ k = 3 \/ k = 4 \/ k = 5
  OBVIOUS
<1>13. \A k \in 0..5 : l(k) \in 0..2
  BY <1>2, <1>7, <1>8, <1>9, <1>10, <1>11, <1>12
<1>14. \A j, k \in 0..5 : j <= k => l(j) <= l(k)
  BY <1>2, <1>7, <1>8, <1>9, <1>10, <1>11, <1>12
<1> QED
  BY <1>2, <1>7, <1>11, <1>13, <1>14 DEF l

-----------------------------------------------------------------------------
(* The text of a path: what is in the buffer.                                  *)

Buffer(mem) == mem = [p \in 0..(Room - 1) |-> mem[p]]

PrintedAt(r, mem, at, s) ==
  /\ Buffer(r) /\ \A p \in 0..(at - 1) : r[p] = mem[p]
  /\ \A k \in 1..Len(s) : r[at + k - 1] = s[k]
  /\ r[at + Len(s)] = Zero

LEMMA PrintedIs ==
  ASSUME NEW mem, Buffer(mem), NEW at \in Nat, NEW n, n = Room - at,
         NEW s \in Seq(ElementChar), Len(s) < n
  PROVE  PrintedAt(Printed(mem, at, n, s), mem, at, s)
<1> DEFINE l == Len(s)
           r == Printed(mem, at, n, s)
           g(p) == CASE p \in at..(at + l - 1) -> s[p - at + 1]
                     [] p = at + l            -> Zero
                     [] OTHER                 -> mem[p]
<1>1. l \in Nat /\ l < n /\ Room \in Nat /\ at + l < Room /\ at + l \in 0..(Room - 1)
  BY RoomForDigits
<1>2. DOMAIN mem = 0..(Room - 1)
  BY DEF Buffer
<1>3. r = [p \in 0..(Room - 1) |-> g(p)]
  <2>1. (IF Len(s) < n THEN Len(s) ELSE n - 1) = l
    OBVIOUS
  <2> QED
    BY <1>2, <2>1 DEF Printed
<1> HIDE DEF r, l
<1>4. Buffer(r)
  BY <1>3 DEF Buffer
<1>5. ASSUME NEW p \in 0..(at - 1) PROVE r[p] = mem[p]
  <2>1. p \in 0..(Room - 1) /\ p \notin at..(at + l - 1) /\ p # at + l
    BY <1>1
  <2> QED
    BY <1>3, <2>1
<1>6. ASSUME NEW k \in 1..l PROVE r[at + k - 1] = s[k]
  <2> DEFINE p == at + k - 1
  <2>1. p \in 0..(Room - 1) /\ p \in at..(at + l - 1) /\ p - at + 1 = k /\ p # at + l
    BY <1>1
  <2> HIDE DEF p
  <2>2. r[p] = s[k]
    BY <1>3, <2>1
  <2> QED
    BY <2>2 DEF p
<1>7. r[at + l] = Zero
  <2>1. at + l \notin at..(at + l - 1)
    BY <1>1
  <2> QED
    BY <1>1, <1>3, <2>1
<1> QED
  BY <1>4, <1>5, <1>6, <1>7, Zenon DEF r, l, PrintedAt

\* The buffer holds the text t, but for the end of the line before.
Holds(mem, t, nr, from) ==
  /\ \A p \in 0..(Len(t) - 1) : mem[p] = IF nr > 0 /\ p = from - 1 THEN Zero ELSE t[p + 1]
  /\ nr > 0 => mem[from - 1] = Zero

Held(r, t, nr, from, at, x) ==
  /\ Buffer(r) /\ Holds(r, t, nr, from) /\ r[at + Len(x)] = Zero
  /\ Len(t) = at + Len(x)
  /\ nr > 0 /\ from # at + 1 => t[from] = Newline

LEMMA HoldsMore ==
  ASSUME NEW u \in Seq(PathChar), NEW x \in Seq(ElementChar),
         NEW nr \in Nat, NEW from \in Nat, NEW at \in Nat, from <= at, nr > 0 => from > 0,
         Len(u) = at, NEW mem, Buffer(mem), Holds(mem, u, nr, from),
         nr > 0 => u[from] = Newline,
         NEW n, n = Room - at, Len(x) < n,
         NEW r, r = Printed(mem, at, n, x)
  PROVE  Held(r, u \o x, nr, from, at, x)
<1> DEFINE t == u \o x
           m == Len(x)
<1>1. x \in Seq(PathChar) /\ m \in Nat /\ m = Len(x)
  <2>1. Len(x) \in Nat /\ x \in [1..Len(x) -> ElementChar] /\ ElementChar \subseteq PathChar
    BY DEF ElementChar, PathChar, Slash, Newline
  <2>2. x \in [1..Len(x) -> PathChar]
    BY <2>1
  <2> QED
    BY <2>1, <2>2
<1>2. Joins(t, PathChar, u, x)
  BY <1>1, Joining, Zenon
<1> HIDE DEF t, m
<1>3. /\ t \in Seq(PathChar) /\ Len(t) = at + m
      /\ \A k \in 1..at : t[k] = u[k]
      /\ \A k \in 1..m : t[at + k] = x[k]
  BY <1>1, <1>2, Zenon DEF Joins
<1>4. /\ Buffer(r) /\ \A p \in 0..(at - 1) : r[p] = mem[p]
      /\ \A k \in 1..m : r[at + k - 1] = x[k]
      /\ r[at + m] = Zero
  <2>1. PrintedAt(r, mem, at, x)
    BY PrintedIs, Zenon
  <2> QED
    BY <1>1, <2>1, Zenon DEF PrintedAt
<1>5. /\ \A p \in 0..(at - 1) : mem[p] = IF nr > 0 /\ p = from - 1 THEN Zero ELSE u[p + 1]
      /\ nr > 0 => mem[from - 1] = Zero
  BY Zenon DEF Holds
<1>6. nr > 0 => r[from - 1] = Zero
  <2>1. nr > 0 => from - 1 \in 0..(at - 1)
    OBVIOUS
  <2> QED
    BY <1>4, <1>5, <2>1
<1>7. ASSUME NEW p \in 0..(at + m - 1)
      PROVE  r[p] = IF nr > 0 /\ p = from - 1 THEN Zero ELSE t[p + 1]
  <2>1. CASE p < at
    <3>1. p \in 0..(at - 1) /\ p + 1 \in 1..at
      BY <2>1
    <3>2. r[p] = mem[p] /\ t[p + 1] = u[p + 1]
      BY <1>3, <1>4, <3>1
    <3>3. mem[p] = IF nr > 0 /\ p = from - 1 THEN Zero ELSE u[p + 1]
      BY <1>5, <3>1
    <3> QED
      BY <3>2, <3>3, Zenon
  <2>2. CASE p >= at
    <3> DEFINE k == p - at + 1
    <3>1. k \in 1..m /\ at + k - 1 = p /\ at + k = p + 1 /\ p # from - 1
      BY <1>1, <2>2
    <3> HIDE DEF k
    <3>2. r[at + k - 1] = x[k] /\ t[at + k] = x[k]
      BY <1>3, <1>4, <3>1, Zenon
    <3> QED
      BY <3>1, <3>2, Zenon
  <2> QED
    BY <1>1, <2>1, <2>2
<1>8. Holds(r, t, nr, from)
  <2>1. \A p \in 0..(Len(t) - 1) : r[p] = IF nr > 0 /\ p = from - 1 THEN Zero ELSE t[p + 1]
    <3>1. Len(t) - 1 = at + m - 1
      BY <1>1, <1>3
    <3> QED
      BY <1>7, <3>1
  <2> QED
    BY <1>6, <2>1, Zenon DEF Holds
<1>9. nr > 0 /\ from # at + 1 => t[from] = Newline
  <2>1. nr > 0 => from \in 1..at
    OBVIOUS
  <2> QED
    BY <1>3, <2>1
<1> QED
  BY <1>1, <1>3, <1>4, <1>8, <1>9, Zenon DEF t, Held

\* Where a line starts at the latest.
LineStart(l) == l * (LineLength + 1)

\* Where the loops are: m elements are printed.
Control(f, m) ==
  /\ linenr \in 0..2 /\ i \in 1..6 /\ m \in 0..5
  /\ lines = f[i - 1].line /\ curlen = f[i - 1].cur
  /\ ofs \in 0..LineLength
  /\ start \in Nat /\ start <= LineStart(linenr)
  /\ linenr = 0 => start = 0 /\ last_zero = 0
  /\ linenr > 0 => start >= 2 /\ last_zero = start - 1
  /\ room = Room - start /\ out_max_len = Room - (start + ofs)
  /\ lines < linenr => /\ ofs = 0 /\ i - 1 <= m /\ f[m].line = linenr - 1
                       /\ m = 5 \/ f[m + 1].line = linenr
  /\ lines = linenr => m = i - 1 /\ ofs = curlen
  /\ lines > linenr => /\ m < i - 1 /\ f[m].line = linenr /\ f[m + 1].line = linenr + 1
                       /\ ofs = f[m].cur

\* What is printed is the text t.
Contents(t) ==
  /\ Buffer(out) /\ Holds(out, t, linenr, start)
  /\ Len(t) = IF ofs = 0 /\ linenr > 0 THEN start - 1 ELSE start + ofs
  /\ linenr > 0 /\ ofs > 0 => t[start] = Newline
  /\ out[start + ofs] = Zero

\* The text is t, with its terminator.
Ended(t) ==
  /\ Len(t) \in 0..(Room - 1) /\ out[Len(t)] = Zero
  /\ \A p \in 0..(Len(t) - 1) : out[p] = t[p + 1]

PathInv ==
  /\ b32 \in Paths /\ done \in BOOLEAN /\ start \in Nat /\ room = Room - start
  /\ \E f : /\ Laid(b32, f)
            /\ done => Ended(f[5].text)
            /\ ~ done => \E m \in 0..5 : Control(f, m) /\ Contents(f[m].text)

LEMMA PathInvInit == PathInit => PathInv
<1> SUFFICES ASSUME PathInit PROVE PathInv
  OBVIOUS
<1>1. /\ b32 \in Paths /\ linenr = 0 /\ start = 0 /\ room = Room /\ last_zero = 0
      /\ i = 1 /\ lines = 0 /\ curlen = 0 /\ ofs = 0 /\ out_max_len = Room
      /\ out = [p \in 0..(Room - 1) |-> Zero] /\ done = FALSE
  BY DEF PathInit
<1>2. PICK f : Laid(b32, f)
  BY Layout
<1>3. f[0] = [line |-> 0, cur |-> 0, text |-> <<>>]
  BY <1>2 DEF Laid
<1>4. f[0].line = 0 /\ f[0].cur = 0 /\ f[0].text = <<>>
  BY <1>3
<1>5. Room \in Nat /\ Room >= 20 /\ LineLength \in Nat
  BY RoomForDigits, LineNumbers
<1>6. Control(f, 0)
  BY <1>1, <1>4, <1>5 DEF Control, LineStart
<1>7. Contents(f[0].text)
  <2>1. Buffer(out) /\ out[0] = Zero
    BY <1>1, <1>5 DEF Buffer
  <2>2. Len(f[0].text) = 0
    BY <1>4
  <2>3. Holds(out, f[0].text, 0, 0)
    BY <2>2 DEF Holds
  <2> QED
    BY <1>1, <2>1, <2>2, <2>3 DEF Contents
<1>8. 0 \in 0..5
  OBVIOUS
<1>9. done \in BOOLEAN /\ ~ done
  BY <1>1, Zenon
<1>10. start \in Nat /\ room = Room - start
  BY <1>1, <1>5
<1> QED
  BY <1>1, <1>2, <1>6, <1>7, <1>8, <1>9, <1>10, Zenon DEF PathInv

IsGone(g, b, e, s) ==
  /\ g.line = IF Full(b, e, s) THEN s.line + 1 ELSE s.line
  /\ g.cur = (IF Full(b, e, s) THEN 0 ELSE s.cur) + ElementSize(b, e)
  /\ g.text = s.text \o Separator(b, e, s) \o ElementText(b, e)

LEMMA GoneIs ==
  ASSUME NEW b, NEW e, NEW s, NEW g, g = Gone(b, e, s)
  PROVE  IsGone(g, b, e, s)
BY DEF Gone, IsGone

\* The place of an element and of the next one.
LEMMA ElementLine ==
  ASSUME NEW f, Laid(b32, f), b32 \in Paths, NEW m \in 0..5, Control(f, m), i \in 1..5
  PROVE  /\ Breaks(i) <=> Full(b32, i, f[i - 1])
         /\ f[i].line = IF Breaks(i) THEN lines + 1 ELSE lines
         /\ f[i].cur = (IF Breaks(i) THEN 0 ELSE curlen) + ElementLen(i)
         /\ f[i].text = f[i - 1].text \o Separator(b32, i, f[i - 1]) \o Element(i)
         /\ Element(i) = ElementText(b32, i) /\ ElementLen(i) = ElementSize(b32, i)
<1>1. f[i] = Gone(b32, i, f[i - 1])
  BY DEF Laid
<1>2. lines = f[i - 1].line /\ curlen = f[i - 1].cur
  BY DEF Control
<1>3. ElementLen(i) = ElementSize(b32, i)
  BY DEF ElementLen, ElementSize
<1>4. Element(i) = ElementText(b32, i)
  BY DEF Element, ElementText
<1>5. Breaks(i) <=> Full(b32, i, f[i - 1])
  BY <1>2, <1>3 DEF Breaks, Full
<1> HIDE DEF Breaks
<1>6. /\ f[i].line = IF Full(b32, i, f[i - 1]) THEN f[i - 1].line + 1 ELSE f[i - 1].line
      /\ f[i].cur = (IF Full(b32, i, f[i - 1]) THEN 0 ELSE f[i - 1].cur) + ElementSize(b32, i)
      /\ f[i].text = f[i - 1].text \o Separator(b32, i, f[i - 1]) \o ElementText(b32, i)
  <2>1. IsGone(f[i], b32, i, f[i - 1])
    BY <1>1, GoneIs, Zenon
  <2> QED
    BY <2>1, SMT DEF IsGone
<1> QED
  BY <1>2, <1>3, <1>4, <1>5, <1>6, Zenon

\* An element that is not on the line is passed.
LEMMA PassesElement ==
  ASSUME NEW f, Laid(b32, f), b32 \in Paths, NEW m \in 0..5, Control(f, m), i \in 1..5,
         i' = i + 1, lines' = f[i].line, curlen' = f[i].cur, f[i].line # linenr,
         UNCHANGED <<linenr, ofs, out_max_len, start, room, last_zero>>
  PROVE  Control(f, m)'
<1> DEFINE l(k) == f[k].line
<1>1. /\ f[i].line = (IF Breaks(i) THEN lines + 1 ELSE lines)
  BY ElementLine
<1>2. /\ linenr \in 0..2 /\ m \in 0..5 /\ lines = l(i - 1) /\ curlen = f[i - 1].cur
      /\ lines < linenr => /\ ofs = 0 /\ i - 1 <= m /\ l(m) = linenr - 1
                           /\ m = 5 \/ l(m + 1) = linenr
      /\ lines = linenr => m = i - 1 /\ ofs = curlen
      /\ lines > linenr => /\ m < i - 1 /\ l(m) = linenr /\ l(m + 1) = linenr + 1
                           /\ ofs = f[m].cur
  BY DEF Control
<1>3. l(i) \in 0..2 /\ lines \in 0..2 /\ i - 1 \in 0..5 /\ l(i) \in {lines, lines + 1}
  <2>1. i \in 0..5 /\ i - 1 \in 0..5
    OBVIOUS
  <2> QED
    BY <1>1, <1>2, <2>1, ThreeLines
<1>4. i' \in 1..6 /\ i' - 1 = i /\ l(i) # linenr
  OBVIOUS
<1>5. /\ l(i) < linenr => /\ ofs = 0 /\ i <= m /\ l(m) = linenr - 1
                          /\ m = 5 \/ l(m + 1) = linenr
  <2> SUFFICES ASSUME l(i) < linenr
               PROVE  /\ ofs = 0 /\ i <= m /\ l(m) = linenr - 1
                      /\ m = 5 \/ l(m + 1) = linenr
    OBVIOUS
  <2>1. lines < linenr
    <3> HIDE DEF l
    <3> QED
      BY <1>2, <1>3
  <2>2. m # i - 1
    <3> SUFFICES ASSUME m = i - 1 PROVE FALSE
      OBVIOUS
    <3>1. m # 5 /\ m + 1 = i
      OBVIOUS
    <3>2. l(i) = linenr
      BY <1>2, <2>1, <3>1
    <3> QED
      BY <1>4, <3>2
  <2> QED
    BY <1>2, <2>1, <2>2
<1>6. l(i) > linenr => /\ m < i /\ l(m) = linenr /\ l(m + 1) = linenr + 1
                       /\ ofs = f[m].cur
  <2> SUFFICES ASSUME l(i) > linenr
               PROVE  /\ m < i /\ l(m) = linenr /\ l(m + 1) = linenr + 1
                      /\ ofs = f[m].cur
    OBVIOUS
  <2>1. lines >= linenr /\ (lines = linenr => l(i) = linenr + 1)
    <3> HIDE DEF l
    <3> QED
      BY <1>2, <1>3
  <2>2. CASE lines = linenr
    <3>1. m = i - 1 /\ ofs = curlen /\ m + 1 = i /\ m < i
      BY <1>2, <2>2
    <3> QED
      BY <1>2, <2>1, <2>2, <3>1
  <2>3. CASE lines > linenr
    BY <1>2, <2>3
  <2> QED
    BY <1>2, <1>3, <2>1, <2>2, <2>3
<1>7. /\ ofs \in 0..LineLength
      /\ start \in Nat /\ start <= LineStart(linenr)
      /\ linenr = 0 => start = 0 /\ last_zero = 0
      /\ linenr > 0 => start >= 2 /\ last_zero = start - 1
      /\ room = Room - start /\ out_max_len = Room - (start + ofs)
  BY DEF Control
<1>8. /\ linenr' = linenr /\ ofs' = ofs /\ out_max_len' = out_max_len /\ start' = start
      /\ room' = room /\ last_zero' = last_zero
      /\ lines' = l(i) /\ curlen' = f[i].cur
  OBVIOUS
<1>9. f[i' - 1] = f[i]
  BY <1>4
<1> QED
  BY <1>2, <1>4, <1>5, <1>6, <1>7, <1>8, <1>9, Zenon DEF Control

\* The text in front of an element that is on the line, up to where it is printed.
Before(f, u) ==
  /\ u \in Seq(PathChar) /\ Len(u) = start + ofs /\ Holds(out, u, linenr, start)
  /\ linenr > 0 => u[start] = Newline
  /\ f[i].text = u \o Element(i) /\ f[i].cur = ofs + ElementLen(i)

LEMMA BeforeElement ==
  ASSUME NEW f, Laid(b32, f), b32 \in Paths, NEW m \in 0..5, Control(f, m), i \in 1..5,
         f[i].line = linenr, Contents(f[m].text)
  PROVE  \E u : Before(f, u)
<1> DEFINE l(k) == f[k].line
           t == f[m].text
           x == Element(i)
           z == ElementLen(i)
<1>1. /\ Breaks(i) <=> Full(b32, i, f[i - 1])
      /\ l(i) = IF Breaks(i) THEN lines + 1 ELSE lines
      /\ f[i].cur = (IF Breaks(i) THEN 0 ELSE curlen) + z
      /\ f[i].text = f[i - 1].text \o Separator(b32, i, f[i - 1]) \o x
      /\ x = ElementText(b32, i) /\ z = ElementSize(b32, i)
  BY ElementLine
<1>2. /\ linenr \in 0..2 /\ lines = l(i - 1) /\ curlen = f[i - 1].cur
      /\ ofs \in 0..LineLength /\ start \in Nat
      /\ lines < linenr => /\ ofs = 0 /\ i - 1 <= m /\ l(m) = linenr - 1
                           /\ m = 5 \/ l(m + 1) = linenr
      /\ lines = linenr => m = i - 1 /\ ofs = curlen
      /\ linenr > 0 => start >= 2
      /\ linenr = 0 => start = 0
  BY DEF Control
<1>3. /\ Len(t) = IF ofs = 0 /\ linenr > 0 THEN start - 1 ELSE start + ofs
      /\ linenr > 0 /\ ofs > 0 => t[start] = Newline
      /\ Buffer(out) /\ Holds(out, t, linenr, start)
  BY DEF Contents
<1>4. t \in Seq(PathChar)
  BY LaidFits DEF Fits
<1>5. i \in 0..5 /\ i - 1 \in 0..5 /\ lines \in 0..2 /\ l(0) = 0
  <2>1. i \in 0..5 /\ i - 1 \in 0..5
    OBVIOUS
  <2> QED
    BY <1>2, <2>1, ThreeLines
<1>6. z \in 2..10 /\ x \in Seq(ElementChar) /\ Len(x) = z
  BY <1>1, ElementFacts
<1>7. CASE ~ Breaks(i)
  <2>1. lines = linenr /\ m = i - 1 /\ ofs = curlen
    BY <1>1, <1>2, <1>7
  <2>2. f[i].text = t \o <<>> \o x
    BY <1>1, <1>7, <2>1 DEF Separator
  <2>3. t \o <<>> = t
    BY <1>4, EmptyText
  <2>4. f[i].text = t \o x
    BY <2>2, <2>3
  <2>5. f[i].cur = ofs + z
    BY <1>1, <1>7, <2>1
  <2>6. linenr > 0 => ofs > 0
    <3> SUFFICES ASSUME linenr > 0 PROVE ofs > 0
      OBVIOUS
    <3>1. m # 0
      <4> SUFFICES ASSUME m = 0 PROVE FALSE
        OBVIOUS
      <4>1. i - 1 = 0
        BY <2>1
      <4>2. lines = 0
        BY <1>2, <1>5, <4>1, Zenon
      <4> QED
        BY <2>1, <4>2
    <3>2. f[i - 1].cur >= 1
      BY <2>1, <3>1, LaidFits
    <3> QED
      BY <1>2, <2>1, <3>2
  <2>7. Len(t) = start + ofs /\ (linenr > 0 => t[start] = Newline)
    BY <1>2, <1>3, <2>6
  <2>8. Before(f, t)
    <3> HIDE DEF t, x, z
    <3>1. f[i].text = t \o Element(i) /\ f[i].cur = ofs + ElementLen(i)
      BY <2>4, <2>5 DEF x, z
    <3> QED
      BY <1>3, <1>4, <2>7, <3>1, Zenon DEF Before
  <2> QED
    BY <2>8
<1>8. CASE Breaks(i)
  <2>1. lines < linenr /\ linenr = lines + 1 /\ linenr > 0
    BY <1>1, <1>2, <1>5, <1>8
  <2>2. m = i - 1
    <3>1. ofs = 0 /\ i - 1 <= m /\ l(m) = linenr - 1
      BY <1>2, <2>1
    <3>2. ~ (i <= m)
      <4> SUFFICES ASSUME i <= m PROVE FALSE
        OBVIOUS
      <4>1. l(i) <= l(m)
        BY <1>5, ThreeLines
      <4> QED
        BY <1>2, <3>1, <4>1
    <3> QED
      BY <3>1, <3>2
  <2> DEFINE u == t \o <<Newline>>
  <2>3. f[i].text = u \o x
    BY <1>1, <1>8, <2>2 DEF Separator
  <2>4. ofs = 0 /\ Len(t) = start - 1 /\ start >= 2
    BY <1>2, <1>3, <2>1
  <2>5. f[i].cur = ofs + z
    BY <1>1, <1>8, <2>4
  <2>6. Joins(u, PathChar, t, <<Newline>>) /\ u[Len(t) + 1] = Newline /\ Len(u) = Len(t) + 1
    <3>1. <<Newline>> \in Seq(PathChar)
      BY DEF PathChar, Newline
    <3>2. Joins(u, PathChar, t, <<Newline>>)
      <4> DEFINE v == <<Newline>>
      <4>1. v \in Seq(PathChar)
        BY <3>1
      <4> HIDE DEF v, t
      <4>2. Joins(t \o v, PathChar, t, v)
        BY <1>4, <4>1, Joining, Zenon
      <4> QED
        BY <4>2 DEF v
    <3> QED
      BY <1>4, <3>2, BreaksOfNewline
  <2> HIDE DEF t, u
  <2>7. u \in Seq(PathChar) /\ Len(u) = start /\ \A k \in 1..Len(t) : u[k] = t[k]
    <3>1. u \in Seq(PathChar) /\ \A k \in 1..Len(t) : u[k] = t[k]
      BY <2>6, Zenon DEF Joins
    <3>2. Len(u) = start
      BY <1>2, <2>4, <2>6
    <3> QED
      BY <3>1, <3>2, Zenon
  <2>8. u[start] = Newline
    <3>1. Len(t) + 1 = start
      BY <1>2, <2>4
    <3> QED
      BY <2>6, <3>1
  <2>9. Holds(out, u, linenr, start)
    <3>1. /\ \A p \in 0..(Len(t) - 1) :
               out[p] = IF linenr > 0 /\ p = start - 1 THEN Zero ELSE t[p + 1]
          /\ linenr > 0 => out[start - 1] = Zero
      BY <1>3, Zenon DEF Holds
    <3>2. ASSUME NEW p \in 0..(Len(u) - 1)
          PROVE  out[p] = IF linenr > 0 /\ p = start - 1 THEN Zero ELSE u[p + 1]
      <4>1. CASE p = start - 1
        BY <2>1, <3>1, <4>1
      <4>2. CASE p # start - 1
        <5>1. p \in 0..(Len(t) - 1) /\ p + 1 \in 1..Len(t)
          BY <2>4, <2>7, <4>2
        <5>2. out[p] = t[p + 1] /\ u[p + 1] = t[p + 1]
          BY <2>7, <3>1, <4>2, <5>1
        <5> QED
          BY <4>2, <5>2
      <4> QED
        BY <4>1, <4>2
    <3> QED
      BY <3>1, <3>2, Zenon DEF Holds
  <2>10. Len(u) = start + ofs
    BY <1>2, <2>4, <2>7
  <2>11. Before(f, u)
    <3> HIDE DEF x, z
    <3>1. f[i].text = u \o Element(i) /\ f[i].cur = ofs + ElementLen(i)
      BY <2>3, <2>5 DEF x, z
    <3> QED
      BY <2>7, <2>8, <2>9, <2>10, <3>1, Zenon DEF Before
  <2> QED
    BY <2>11
<1> QED
  BY <1>7, <1>8

\* The lines before and this one leave room behind the element.
LEMMA RoomOnLine ==
  ASSUME NEW l \in 0..2, NEW s \in Nat, s <= LineStart(l), NEW k \in 0..LineLength
  PROVE  /\ s + k < Room /\ s + k + 1 <= LineStart(l + 1)
         /\ l < 2 => s + k + 1 < Room
<1>1. LineLength \in Nat /\ LineLength >= 20 /\ Room >= 3 * (LineLength + 1) /\ Room \in Nat
  BY LineNumbers, RoomForDigits
<1>2. l = 0 \/ l = 1 \/ l = 2
  OBVIOUS
<1>3. CASE l = 0
  BY <1>1, <1>3 DEF LineStart
<1>4. CASE l = 1
  BY <1>1, <1>4 DEF LineStart
<1>5. CASE l = 2
  BY <1>1, <1>5 DEF LineStart
<1> QED
  BY <1>2, <1>3, <1>4, <1>5

\* An element that is on the line is printed.
LEMMA PrintsElement ==
  ASSUME NEW f, Laid(b32, f), b32 \in Paths, NEW m \in 0..5, Control(f, m),
         NEW k \in 1..5, k = i,
         Contents(f[m].text), f[k].line = linenr,
         i' = i + 1, lines' = f[k].line, curlen' = f[k].cur,
         out' = Printed(out, start + ofs, out_max_len, Element(i)),
         ofs' = ofs + ElementLen(i), out_max_len' = out_max_len - ElementLen(i),
         UNCHANGED <<linenr, start, room, last_zero>>
  PROVE  Control(f, k)' /\ Contents(f[k].text)'
<1> DEFINE x == Element(i)
           z == ElementLen(i)
           at == start + ofs
           t == f[k].text
<1>0. i \in 1..5 /\ f[i] = f[k]
  OBVIOUS
<1>1. PICK u : Before(f, u)
  BY <1>0, BeforeElement
<1>2. /\ u \in Seq(PathChar) /\ Len(u) = at /\ Holds(out, u, linenr, start)
      /\ linenr > 0 => u[start] = Newline
      /\ t = u \o x /\ f[k].cur = ofs + z
  BY <1>0, <1>1 DEF Before
<1>3. x \in Seq(ElementChar) /\ Len(x) = z /\ z \in 2..10
  BY <1>0, ElementLine, ElementFacts
<1>4. /\ linenr \in 0..2 /\ start \in Nat /\ start <= LineStart(linenr)
      /\ ofs \in 0..LineLength
      /\ linenr = 0 => start = 0 /\ last_zero = 0
      /\ linenr > 0 => start >= 2 /\ last_zero = start - 1
      /\ room = Room - start /\ out_max_len = Room - (start + ofs)
  BY DEF Control
<1>5. f[k].cur \in 0..LineLength
  BY LaidFits DEF Fits
<1>6. start + (ofs + z) < Room /\ Room \in Nat
  <2> DEFINE d == ofs + z
  <2>1. d \in 0..LineLength
    BY <1>2, <1>5
  <2> HIDE DEF d
  <2>2. start + d < Room
    <3>1. /\ linenr \in 0..2 /\ start \in Nat /\ d \in 0..LineLength
          /\ start <= LineStart(linenr)
      BY <1>4, <2>1
    <3> QED
      BY <3>1, RoomOnLine, Zenon
  <2> QED
    BY <2>2, RoomForDigits DEF d
<1>7. i' \in 1..6 /\ i' - 1 = k /\ k \in 0..5
  OBVIOUS
<1>8. ofs' = ofs + z /\ out_max_len' = out_max_len - z /\ out' = Printed(out, at, out_max_len, x)
  OBVIOUS
<1> HIDE DEF x, z, t
<1>9. /\ linenr' = linenr /\ start' = start /\ room' = room /\ last_zero' = last_zero
      /\ lines' = linenr' /\ lines' = f[k].line /\ curlen' = f[k].cur /\ f[i' - 1] = f[k]
  BY <1>7
<1>10. ofs' = f[k].cur /\ ofs' \in 0..LineLength /\ out_max_len' = Room - (start + ofs')
  <2>1. ofs' = f[k].cur /\ ofs' \in 0..LineLength
    BY <1>2, <1>5, <1>8
  <2>2. start \in Nat /\ ofs \in Nat /\ z \in Nat /\ Room \in Nat
    BY <1>3, <1>4, <1>6
  <2>3. out_max_len' = Room - (start + ofs')
    BY <1>4, <1>8, <2>2
  <2> QED
    BY <2>1, <2>3
<1>11. ~ (lines' < linenr') /\ ~ (lines' > linenr')
  BY <1>4, <1>9
<1>12. Control(f, k)'
  <2>1. /\ lines' = f[i' - 1].line /\ curlen' = f[i' - 1].cur /\ k = i' - 1 /\ ofs' = curlen'
        /\ room' = Room - start' /\ out_max_len' = Room - (start' + ofs')
        /\ linenr' \in 0..2 /\ i' \in 1..6 /\ k \in 0..5
    BY <1>4, <1>7, <1>9, <1>10
  <2>2. /\ start' \in Nat /\ start' <= LineStart(linenr')
        /\ ofs' \in 0..LineLength
        /\ linenr' = 0 => start' = 0 /\ last_zero' = 0
        /\ linenr' > 0 => start' >= 2 /\ last_zero' = start' - 1
    BY <1>4, <1>9, <1>10
  <2> QED
    BY <1>11, <2>1, <2>2, Zenon DEF Control
<1>13. /\ Buffer(out') /\ Holds(out', t, linenr, start) /\ out'[at + Len(x)] = Zero
       /\ Len(t) = at + Len(x)
       /\ linenr > 0 /\ start # at + 1 => t[start] = Newline
  <2>1. /\ linenr \in Nat /\ at \in Nat /\ start <= at /\ (linenr > 0 => start > 0)
        /\ out_max_len = Room - at /\ Len(x) < out_max_len
    <3>1. linenr \in 0..2 /\ start \in Nat /\ ofs \in Nat /\ (linenr > 0 => start >= 2)
      BY <1>4
    <3>2. out_max_len = Room - at /\ Len(x) = z /\ z \in Nat /\ Room \in Nat
      BY <1>3, <1>4, <1>6
    <3> QED
      BY <1>6, <3>1, <3>2
  <2>2. Buffer(out)
    BY DEF Contents
  <2> HIDE DEF at
  <2>3. Held(out', u \o x, linenr, start, at, x)
    BY <1>2, <1>3, <1>4, <1>8, <2>1, <2>2, HoldsMore, Zenon
  <2> QED
    BY <1>2, <2>3, Zenon DEF Held
<1>14. at + Len(x) = start + ofs' /\ start # at + 1 /\ ~ (ofs' = 0)
  <2>1. Len(x) = z /\ z \in 2..10 /\ start \in Nat /\ ofs \in Nat /\ ofs' = ofs + z
    BY <1>3, <1>4, <1>8
  <2> QED
    BY <2>1
<1>15. Contents(t)'
  <2>1. /\ Buffer(out') /\ Holds(out', t, linenr', start') /\ out'[start' + ofs'] = Zero
        /\ Len(t) = start' + ofs' /\ (linenr' > 0 => t[start'] = Newline)
    BY <1>9, <1>13, <1>14, Zenon
  <2>2. t' = t
    BY DEF t
  <2> QED
    BY <1>14, <2>1, <2>2, Zenon DEF Contents
<1> QED
  BY <1>12, <1>15 DEF t

LEMMA GoToElementKeeps ==
  ASSUME PathInv, GoToElement
  PROVE  PathInv'
<1>1. b32 \in Paths /\ done \in BOOLEAN /\ start \in Nat /\ room = Room - start
  BY Zenon DEF PathInv
<1>2. PICK f : /\ Laid(b32, f)
               /\ ~ done => \E m \in 0..5 : Control(f, m) /\ Contents(f[m].text)
  BY Zenon DEF PathInv
<1>3. /\ ~ done /\ i <= 5
      /\ lines' = (IF Breaks(i) THEN lines + 1 ELSE lines)
      /\ curlen' = (IF Breaks(i) THEN 0 ELSE curlen) + ElementLen(i)
      /\ IF (IF Breaks(i) THEN lines + 1 ELSE lines) = linenr
         THEN /\ out' = Printed(out, start + ofs, out_max_len, Element(i))
              /\ ofs' = ofs + ElementLen(i)
              /\ out_max_len' = out_max_len - ElementLen(i)
         ELSE UNCHANGED <<out, ofs, out_max_len>>
      /\ i' = i + 1
      /\ UNCHANGED <<b32, linenr, start, room, last_zero, done>>
  BY Zenon DEF GoToElement
<1>4. PICK m \in 0..5 : Control(f, m) /\ Contents(f[m].text)
  BY <1>2, <1>3
<1>5. i \in 1..5
  <2>1. i \in 1..6
    BY <1>4 DEF Control
  <2> QED
    BY <1>3, <2>1
<1>6. lines' = f[i].line /\ curlen' = f[i].cur
      /\ f[i].line = (IF Breaks(i) THEN lines + 1 ELSE lines)
  BY <1>1, <1>2, <1>3, <1>4, <1>5, ElementLine
<1>7. \E k \in 0..5 : Control(f, k)' /\ Contents(f[k].text)'
  <2>1. CASE f[i].line = linenr
    <3>1. /\ out' = Printed(out, start + ofs, out_max_len, Element(i))
          /\ ofs' = ofs + ElementLen(i) /\ out_max_len' = out_max_len - ElementLen(i)
      BY <1>3, <1>6, <2>1
    <3>2. PICK k \in 1..5 : k = i
      BY <1>5
    <3>3. /\ f[k].line = linenr /\ lines' = f[k].line /\ curlen' = f[k].cur /\ i' = i + 1
          /\ UNCHANGED <<linenr, start, room, last_zero>>
      BY <1>3, <1>6, <2>1, <3>2
    <3>4. Control(f, k)' /\ Contents(f[k].text)'
      BY <1>1, <1>2, <1>4, <3>1, <3>2, <3>3, PrintsElement
    <3>5. k \in 0..5
      OBVIOUS
    <3> QED
      BY <3>4, <3>5
  <2>2. CASE f[i].line # linenr
    <3>1. out' = out /\ ofs' = ofs /\ out_max_len' = out_max_len
      BY <1>3, <1>6, <2>2
    <3>2. Control(f, m)'
      BY <1>1, <1>2, <1>3, <1>4, <1>5, <1>6, <2>2, <3>1, PassesElement
    <3>3. Contents(f[m].text)'
      <4>1. linenr' = linenr /\ start' = start
        BY <1>3
      <4> QED
        BY <1>4, <3>1, <4>1, Zenon DEF Contents
    <3> QED
      BY <3>2, <3>3
  <2> QED
    BY <2>1, <2>2
<1>8. b32' = b32 /\ (done' <=> done) /\ start' = start /\ room' = room
  BY <1>3
<1>9. done' \in BOOLEAN /\ ~ done'
  BY <1>1, <1>3, Zenon
<1>10. b32' \in Paths /\ Laid(b32', f) /\ start' \in Nat /\ room' = Room - start'
  BY <1>1, <1>2, <1>8
<1> QED
  BY <1>7, <1>9, <1>10, Zenon DEF PathInv

\* Behind the last element.
LEMMA AllGone ==
  ASSUME NEW f, Laid(b32, f), b32 \in Paths, NEW m \in 0..5, Control(f, m), i = 6
  PROVE  /\ ofs # 0 => /\ f[m].line = linenr
                       /\ m = 5 \/ f[m + 1].line = linenr + 1
                       /\ linenr = 2 => m = 5
         /\ ofs = 0 => m = 5 /\ linenr > 0
<1> DEFINE l(k) == f[k].line
           c(k) == f[k].cur
<1>1. /\ l(0) = 0 /\ l(1) = 0 /\ \A k \in 0..5 : l(k) \in 0..2
      /\ \A k \in 1..5 : c(k) >= 1
  BY ThreeLines, LaidFits
<1>2. /\ linenr \in 0..2 /\ m \in 0..5 /\ lines = l(i - 1) /\ curlen = c(i - 1)
      /\ lines < linenr => /\ ofs = 0 /\ i - 1 <= m
      /\ lines = linenr => m = i - 1 /\ ofs = curlen
      /\ lines > linenr => /\ m < i - 1 /\ l(m) = linenr /\ l(m + 1) = linenr + 1 /\ ofs = c(m)
  BY DEF Control
<1>3. i - 1 = 5 /\ lines = l(5) /\ curlen = c(5) /\ lines \in 0..2
  <2>1. i - 1 = 5 /\ 5 \in 0..5
    OBVIOUS
  <2> QED
    BY <1>1, <1>2, <2>1
<1> HIDE DEF l, c
<1>4. CASE lines < linenr
  <2>1. ofs = 0 /\ m = 5 /\ linenr > 0
    BY <1>2, <1>3, <1>4
  <2> QED
    BY <2>1 DEF l
<1>5. CASE lines = linenr
  <2>1. m = 5 /\ ofs = c(5) /\ l(m) = linenr
    BY <1>2, <1>3, <1>5
  <2>2. ofs # 0
    BY <1>1, <2>1
  <2> QED
    BY <2>1, <2>2 DEF l
<1>6. CASE lines > linenr
  <2>1. m < 5 /\ l(m) = linenr /\ l(m + 1) = linenr + 1 /\ ofs = c(m) /\ linenr # 2
    BY <1>2, <1>3, <1>6
  <2>2. m # 0
    <3> SUFFICES ASSUME m = 0 PROVE FALSE
      OBVIOUS
    <3>1. l(0 + 1) = linenr + 1
      BY <2>1
    <3>2. 0 + 1 = 1
      OBVIOUS
    <3> QED
      BY <1>1, <1>2, <3>1, <3>2
  <2>3. ofs # 0
    BY <1>1, <2>1, <2>2
  <2> QED
    BY <2>1, <2>3 DEF l
<1> QED
  BY <1>2, <1>3, <1>4, <1>5, <1>6

\* The line before gets its line break and this one its end.
LEMMA LineEnds ==
  ASSUME NEW f, NEW m \in 0..5, Control(f, m), NEW t, Contents(t), ofs # 0,
         start' = start + ofs + 1, out' = [Joined(out) EXCEPT ![start'] = Zero]
  PROVE  /\ Buffer(out') /\ Len(t) = start + ofs /\ out'[start + ofs] = Zero
         /\ \A p \in 0..(Len(t) - 1) : out'[p] = t[p + 1]
         /\ start' < Room => out'[start'] = Zero
<1>1. /\ linenr \in 0..2 /\ start \in Nat /\ ofs \in Nat /\ ofs > 0
      /\ start <= LineStart(linenr) /\ ofs \in 0..LineLength
      /\ linenr = 0 => start = 0 /\ last_zero = 0
      /\ linenr > 0 => start >= 2 /\ last_zero = start - 1
  BY DEF Control
<1>2. Room \in Nat /\ start + ofs < Room
  <2>1. start + ofs < Room
    BY <1>1, RoomOnLine, Zenon
  <2> QED
    BY <2>1, RoomForDigits
<1>3. /\ Buffer(out) /\ Len(t) = start + ofs
      /\ \A p \in 0..(Len(t) - 1) :
           out[p] = IF linenr > 0 /\ p = start - 1 THEN Zero ELSE t[p + 1]
      /\ linenr > 0 => t[start] = Newline
      /\ out[start + ofs] = Zero
  BY <1>1 DEF Contents, Holds
<1> DEFINE j == Joined(out)
<1>4. /\ Buffer(j)
      /\ \A p \in 0..(Room - 1) :
           j[p] = IF linenr > 0 /\ p = start - 1 THEN Newline ELSE out[p]
  <2>1. out = [p \in 0..(Room - 1) |-> out[p]]
    BY <1>3 DEF Buffer
  <2>2. CASE linenr = 0
    <3>1. j = out
      BY <1>1, <2>2 DEF Joined
    <3> QED
      BY <1>3, <2>2, <3>1
  <2>3. CASE linenr > 0
    <3>1. j = [out EXCEPT ![start - 1] = Newline]
      BY <1>1, <2>3 DEF Joined
    <3> HIDE DEF j
    <3> QED
      BY <2>1, <2>3, <3>1 DEF Buffer
  <2> QED
    BY <1>1, <2>2, <2>3
<1> HIDE DEF j
<1>5. out' = [j EXCEPT ![start'] = Zero]
  BY DEF j
<1>6. /\ Buffer(out')
      /\ \A p \in 0..(Room - 1) : out'[p] = IF p = start' THEN Zero ELSE j[p]
  BY <1>4, <1>5 DEF Buffer
<1>7. out'[start + ofs] = Zero
  <2>1. start + ofs \in 0..(Room - 1) /\ start + ofs # start' /\ start + ofs # start - 1
    BY <1>1, <1>2
  <2> QED
    BY <1>3, <1>4, <1>6, <2>1
<1>8. ASSUME NEW p \in 0..(Len(t) - 1) PROVE out'[p] = t[p + 1]
  <2>1. p \in 0..(Room - 1) /\ p # start'
    BY <1>1, <1>2, <1>3
  <2>2. out'[p] = IF linenr > 0 /\ p = start - 1 THEN Newline ELSE out[p]
    BY <1>4, <1>6, <2>1
  <2>3. CASE linenr > 0 /\ p = start - 1
    <3>1. p + 1 = start
      BY <1>1, <2>3
    <3> QED
      BY <1>3, <2>2, <2>3, <3>1
  <2>4. CASE ~ (linenr > 0 /\ p = start - 1)
    BY <1>3, <2>2, <2>4
  <2> QED
    BY <2>3, <2>4
<1>9. start' < Room => out'[start'] = Zero
  <2>1. start' < Room => start' \in 0..(Room - 1)
    BY <1>1, <1>2
  <2> QED
    BY <1>6, <2>1
<1> QED
  BY <1>3, <1>6, <1>7, <1>8, <1>9

\* The text of a layout.
LEMMA LaidText ==
  ASSUME NEW b \in Paths, NEW f, Laid(b, f), NEW k \in 0..5
  PROVE  f[k].text \in Seq(PathChar) /\ Len(f[k].text) \in Nat
<1>1. Fits(f[k])
  BY LaidFits
<1>2. f[k].text \in Seq(PathChar)
  BY <1>1, Zenon DEF Fits
<1> QED
  BY <1>2

\* There is a next line: what is printed stays.
LEMMA NextLine ==
  ASSUME NEW f, Laid(b32, f), b32 \in Paths, NEW m \in 0..5, Control(f, m),
         Contents(f[m].text), i = 6, ofs # 0, linenr # 2, EndLine
  PROVE  Control(f, m)' /\ Contents(f[m].text)' /\ start' \in Nat /\ room' = Room - start'
<1> DEFINE t == f[m].text
           s == start + ofs + 1
<1>1. /\ start' = start + ofs + 1 /\ room' = room - ofs - 1 /\ last_zero' = start + ofs
      /\ out' = [Joined(out) EXCEPT ![start'] = Zero]
      /\ linenr' = linenr + 1 /\ i' = 1 /\ lines' = 0 /\ curlen' = 0 /\ ofs' = 0
      /\ out_max_len' = room'
  BY Zenon DEF EndLine
<1>2. /\ linenr \in 0..2 /\ start \in Nat /\ ofs \in 0..LineLength
      /\ start <= LineStart(linenr) /\ room = Room - start
  BY Zenon DEF Control
<1>3. /\ f[m].line = linenr /\ (m = 5 \/ f[m + 1].line = linenr + 1)
  BY AllGone, Zenon
<1>4. f[0].line = 0 /\ f[0].cur = 0
  BY DEF Laid
<1>5. start + ofs + 1 < Room /\ start + ofs + 1 <= LineStart(linenr + 1)
  <2>1. linenr < 2
    BY <1>2
  <2> QED
    BY <1>2, <2>1, RoomOnLine, Zenon
<1>6. /\ Buffer(out') /\ Len(t) = start + ofs /\ out'[start + ofs] = Zero
      /\ \A p \in 0..(Len(t) - 1) : out'[p] = t[p + 1]
      /\ start' < Room => out'[start'] = Zero
  <2>1. Contents(t)
    OBVIOUS
  <2> HIDE DEF t
  <2> QED
    BY <1>1, <2>1, LineEnds, Zenon
<1> HIDE DEF t
<1>7. /\ s \in Nat /\ s >= 2 /\ s - 1 = start + ofs /\ s - 1 = Len(t)
      /\ room' = Room - s /\ room' = Room - (s + 0) /\ linenr + 1 \in 0..2 /\ linenr + 1 > 0
      /\ s + 0 = s /\ linenr = (linenr + 1) - 1
  <2>1. Room \in Nat /\ LineLength \in Nat /\ ofs >= 1
    BY <1>2, RoomForDigits, LineNumbers
  <2>2. s \in Nat /\ s >= 1 /\ s - 1 = start + ofs /\ s + 0 = s
    BY <1>2, <2>1 DEF s
  <2>3. s >= 2
    <3>1. start + ofs >= 1
      BY <1>2, <2>1
    <3> QED
      BY <2>2, <3>1
  <2>4. room' = Room - s
    <3>1. room' = Room - start - ofs - 1
      BY <1>1, <1>2
    <3> QED
      BY <1>2, <2>1, <3>1 DEF s
  <2>5. room' = Room - s /\ room' = Room - (s + 0)
    <3>1. room' \in Int
      BY <1>1, <1>2, <2>1
    <3> QED
      BY <2>1, <2>2, <2>4, <3>1
  <2>6. linenr + 1 \in 0..2 /\ linenr + 1 > 0 /\ linenr = (linenr + 1) - 1
    BY <1>2
  <2>7. s - 1 = Len(t)
    BY <1>6, <2>2, Zenon
  <2> QED
    BY <2>2, <2>3, <2>4, <2>5, <2>6, <2>7
<1>8. start' = s /\ s < Room /\ s <= LineStart(linenr + 1)
  BY <1>1, <1>5, Zenon
<1> HIDE DEF s
<1>9. Control(f, m)'
  <2>1. /\ linenr' \in 0..2 /\ i' \in 1..6 /\ m \in 0..5
        /\ lines' = f[i' - 1].line /\ curlen' = f[i' - 1].cur
        /\ ofs' \in 0..LineLength /\ i' - 1 <= m
    <3>1. i' - 1 = 0 /\ i' \in 1..6 /\ 0 \in 0..LineLength /\ 0 <= m
      BY <1>1, LineNumbers
    <3> QED
      BY <1>1, <1>4, <1>7, <3>1
  <2>2. /\ start' \in Nat /\ start' <= LineStart(linenr')
        /\ ~ (linenr' = 0) /\ start' >= 2 /\ last_zero' = start' - 1
        /\ room' = Room - start' /\ out_max_len' = Room - (start' + ofs')
    <3>1. linenr' # 0
      BY <1>1, <1>2
    <3>2. out_max_len' = Room - (start' + ofs')
      BY <1>1, <1>7, <1>8
    <3> QED
      BY <1>1, <1>7, <1>8, <3>1, <3>2
  <2>3. /\ ofs' = 0 /\ f[m].line = linenr' - 1 /\ (m = 5 \/ f[m + 1].line = linenr')
    BY <1>1, <1>3, <1>7
  <2>4. ~ (lines' = linenr') /\ ~ (lines' > linenr')
    BY <1>1, <1>2
  <2> QED
    BY <2>1, <2>2, <2>3, <2>4, Zenon DEF Control
<1>10. Contents(t)'
  <2>1. Holds(out', t, linenr', start')
    <3>1. \A p \in 0..(Len(t) - 1) : p # s - 1
      BY <1>7
    <3>2. out'[s - 1] = Zero
      BY <1>6, <1>7
    <3>3. \A p \in 0..(Len(t) - 1) :
            out'[p] = IF linenr' > 0 /\ p = start' - 1 THEN Zero ELSE t[p + 1]
      BY <1>6, <1>8, <3>1
    <3>4. out'[start' - 1] = Zero
      BY <1>8, <3>2
    <3> QED
      BY <3>3, <3>4, Zenon DEF Holds
  <2>2. Len(t) = start' - 1 /\ ofs' = 0 /\ linenr' > 0 /\ out'[start' + ofs'] = Zero /\ ~ (ofs' > 0)
    BY <1>1, <1>6, <1>7, <1>8
  <2>3. t' = t
    BY DEF t
  <2> QED
    BY <1>6, <2>1, <2>2, <2>3, Zenon DEF Contents
<1> QED
  BY <1>7, <1>8, <1>9, <1>10 DEF t

LEMMA EndLineKeeps ==
  ASSUME PathInv, EndLine
  PROVE  PathInv'
<1>1. b32 \in Paths /\ done \in BOOLEAN /\ start \in Nat /\ room = Room - start
  BY Zenon DEF PathInv
<1>2. ~ done /\ i > 5 /\ ofs # 0 /\ b32' = b32 /\ linenr' = linenr + 1
      /\ start' = start + ofs + 1 /\ room' = room - ofs - 1
      /\ out' = [Joined(out) EXCEPT ![start'] = Zero]
      /\ (done' <=> linenr' = 3) /\ done' \in BOOLEAN
  BY DEF EndLine
<1>3. PICK f : /\ Laid(b32, f)
               /\ ~ done => \E m \in 0..5 : Control(f, m) /\ Contents(f[m].text)
  BY Zenon DEF PathInv
<1>4. PICK m \in 0..5 : Control(f, m) /\ Contents(f[m].text)
  BY <1>2, <1>3
<1>5. i = 6 /\ linenr \in 0..2 /\ ofs \in 0..LineLength
  BY <1>2, <1>4 DEF Control
<1>6. b32' \in Paths /\ Laid(b32', f)
  BY <1>1, <1>2, <1>3
<1>7. CASE linenr = 2
  <2>1. m = 5 /\ done'
    BY <1>1, <1>2, <1>3, <1>4, <1>5, <1>7, AllGone
  <2> DEFINE t == f[5].text
  <2>2. /\ Len(t) = start + ofs /\ out'[start + ofs] = Zero
        /\ \A p \in 0..(Len(t) - 1) : out'[p] = t[p + 1]
    <3>1. Contents(t) /\ Control(f, m)
      BY <1>4, <2>1
    <3> HIDE DEF t
    <3> QED
      BY <1>2, <3>1, LineEnds, Zenon
  <2>3. start + ofs < Room
    <3>1. start <= LineStart(linenr)
      BY <1>4, Zenon DEF Control
    <3>2. linenr \in 0..2 /\ ofs \in 0..LineLength
      BY <1>5
    <3> QED
      BY <1>1, <3>1, <3>2, RoomOnLine, Zenon
  <2>4. start' \in Nat /\ room' = Room - start' /\ Len(t) \in 0..(Room - 1)
    BY <1>1, <1>2, <1>5, <2>2, <2>3, RoomForDigits, LineNumbers
  <2>5. Ended(t)'
    <3>1. t' = t
      OBVIOUS
    <3> HIDE DEF t
    <3> QED
      BY <2>2, <2>4, <3>1, Zenon DEF Ended
  <2> QED
    BY <1>2, <1>6, <2>1, <2>4, <2>5, Zenon DEF PathInv
<1>8. CASE linenr # 2
  <2>1. ~ done'
    BY <1>2, <1>5, <1>8
  <2>2. Control(f, m)' /\ Contents(f[m].text)' /\ start' \in Nat /\ room' = Room - start'
    BY <1>1, <1>2, <1>3, <1>4, <1>5, <1>8, NextLine, Zenon
  <2> QED
    BY <1>2, <1>6, <2>1, <2>2, Zenon DEF PathInv
<1> QED
  BY <1>7, <1>8

LEMMA NoMoreLinesKeeps ==
  ASSUME PathInv, NoMoreLines
  PROVE  PathInv'
<1>1. b32 \in Paths /\ start \in Nat /\ room = Room - start
  BY Zenon DEF PathInv
<1>2. /\ ~ done /\ i > 5 /\ ofs = 0 /\ b32' = b32 /\ start' = start /\ room' = room
      /\ out' = [out EXCEPT ![start] = Zero] /\ (done' <=> TRUE) /\ done' \in BOOLEAN
  BY DEF NoMoreLines
<1>3. PICK f : /\ Laid(b32, f)
               /\ ~ done => \E m \in 0..5 : Control(f, m) /\ Contents(f[m].text)
  BY Zenon DEF PathInv
<1>4. PICK m \in 0..5 : Control(f, m) /\ Contents(f[m].text)
  BY <1>2, <1>3
<1>5. i = 6 /\ linenr \in 0..2 /\ start <= LineStart(linenr) /\ (linenr > 0 => start >= 2)
  BY <1>2, <1>4 DEF Control
<1>6. m = 5 /\ linenr > 0
  BY <1>1, <1>2, <1>3, <1>4, <1>5, AllGone
<1> DEFINE t == f[5].text
<1>7. /\ Buffer(out) /\ Len(t) = start - 1
      /\ \A p \in 0..(Len(t) - 1) : out[p] = IF linenr > 0 /\ p = start - 1 THEN Zero ELSE t[p + 1]
      /\ out[start - 1] = Zero
  BY <1>2, <1>4, <1>6 DEF Contents, Holds
<1> HIDE DEF t
<1>8. start < Room /\ Room \in Nat
  <2>1. 0 \in 0..LineLength /\ start + 0 = start
    BY <1>1, LineNumbers
  <2>2. start + 0 < Room
    BY <1>1, <1>5, <2>1, RoomOnLine, Zenon
  <2> QED
    BY <2>1, <2>2, RoomForDigits
<1>9. Len(t) \in 0..(Room - 1) /\ out'[Len(t)] = Zero
  <2>1. Len(t) \in 0..(Room - 1) /\ Len(t) # start
    BY <1>1, <1>5, <1>6, <1>7, <1>8
  <2> QED
    BY <1>2, <1>7, <2>1 DEF Buffer
<1>10. ASSUME NEW p \in 0..(Len(t) - 1) PROVE out'[p] = t[p + 1]
  <2>1. p \in 0..(Room - 1) /\ p # start /\ p # start - 1
    BY <1>1, <1>7, <1>8
  <2>2. out'[p] = out[p]
    BY <1>2, <1>7, <2>1 DEF Buffer
  <2> QED
    BY <1>7, <2>1, <2>2
<1>11. Ended(t)'
  <2>1. t' = t
    BY DEF t
  <2> QED
    BY <1>9, <1>10, <2>1, Zenon DEF Ended
<1>12. b32' \in Paths /\ Laid(b32', f) /\ start' \in Nat /\ room' = Room - start'
  BY <1>1, <1>2, <1>3
<1> QED
  BY <1>2, <1>11, <1>12, Zenon DEF PathInv, t

LEMMA PathInvSteps ==
  ASSUME PathInv, [Next]_vars
  PROVE  PathInv'
<1>1. CASE PathNext
  BY <1>1, GoToElementKeeps, EndLineKeeps, NoMoreLinesKeeps DEF PathNext
<1>2. CASE UNCHANGED pathVars
  <2>1. /\ b32' = b32 /\ linenr' = linenr /\ i' = i /\ lines' = lines /\ curlen' = curlen
        /\ ofs' = ofs /\ out_max_len' = out_max_len /\ start' = start /\ room' = room
        /\ last_zero' = last_zero /\ out' = out /\ done' = done
    BY <1>2 DEF pathVars, lineVars
  <2>2. PICK f : /\ Laid(b32, f) /\ (done => Ended(f[5].text))
                 /\ ~ done => \E m \in 0..5 : Control(f, m) /\ Contents(f[m].text)
    BY Zenon DEF PathInv
  <2>3. done => Ended(f[5].text)'
    BY <2>1, <2>2, Zenon DEF Ended
  <2>4. ASSUME ~ done PROVE \E m \in 0..5 : Control(f, m)' /\ Contents(f[m].text)'
    <3>1. PICK m \in 0..5 : Control(f, m) /\ Contents(f[m].text)
      BY <2>2, <2>4
    <3>2. Control(f, m)'
      BY <2>1, <3>1 DEF Control
    <3>3. Contents(f[m].text)'
      BY <2>1, <3>1, Zenon DEF Contents
    <3> QED
      BY <3>2, <3>3
  <2>5. b32 \in Paths /\ done \in BOOLEAN /\ start \in Nat /\ room = Room - start
    BY Zenon DEF PathInv
  <2>6. b32' \in Paths /\ Laid(b32', f) /\ start' \in Nat /\ room' = Room - start'
    BY <2>1, <2>2, <2>5
  <2>7. done' \in BOOLEAN /\ (done' <=> done)
    BY <2>1, <2>5, Zenon
  <2> QED
    BY <2>3, <2>4, <2>6, <2>7, Zenon DEF PathInv
<1> QED
  BY <1>1, <1>2 DEF Next, vars

-----------------------------------------------------------------------------
(* The text of a path: what is read.                                           *)

\* The page shows the buffer up to its first terminator.
LEMMA TextIs ==
  ASSUME NEW t \in Seq(PathChar), Ended(t)
  PROVE  TextLength = Len(t) /\ Text = t
<1> DEFINE n == Len(t)
           First(k) == out[k] = Zero /\ \A p \in 0..(k - 1) : out[p] # Zero
<1>1. n \in 0..(Room - 1) /\ out[n] = Zero /\ \A p \in 0..(n - 1) : out[p] = t[p + 1]
  BY Zenon DEF Ended
<1>2. t \in [1..n -> PathChar] /\ n \in Nat /\ Room \in Nat
  BY RoomForDigits
<1>3. \A p \in 0..(n - 1) : out[p] # Zero
  <2>1. ASSUME NEW p \in 0..(n - 1) PROVE out[p] # Zero
    <3>1. p + 1 \in 1..n
      BY <1>2
    <3>2. t[p + 1] \in PathChar /\ out[p] = t[p + 1]
      BY <1>1, <1>2, <3>1
    <3>3. \A ch \in PathChar : ch # Zero
      BY DEF PathChar, Newline, Zero
    <3> QED
      BY <3>2, <3>3, Zenon
  <2> QED
    BY <2>1
<1>4. First(n)
  BY <1>1, <1>3
<1>5. ASSUME NEW k \in 0..(Room - 1), First(k) PROVE k = n
  <2>1. ~ (k < n)
    <3>1. k < n => k \in 0..(n - 1)
      BY <1>2
    <3> QED
      BY <1>3, <1>5, <3>1
  <2>2. ~ (n < k)
    <3>1. n < k => n \in 0..(k - 1)
      BY <1>2
    <3> QED
      BY <1>1, <1>5, <3>1
  <2>3. k \in Int /\ n \in Int
    BY <1>2
  <2> HIDE DEF n
  <2> QED
    BY <2>1, <2>2, <2>3
<1>6. TextLength = n
  <2>1. TextLength = CHOOSE k \in 0..(Room - 1) : First(k)
    BY DEF TextLength
  <2> HIDE DEF First, n
  <2> QED
    BY <1>1, <1>4, <1>5, <2>1
<1>7. Text = t
  <2>1. Text = [p \in 1..n |-> out[p - 1]]
    BY <1>6 DEF Text
  <2>2. ASSUME NEW p \in 1..n PROVE out[p - 1] = t[p]
    <3>1. p - 1 \in 0..(n - 1) /\ (p - 1) + 1 = p
      BY <1>2
    <3> QED
      BY <1>1, <3>1
  <2> HIDE DEF n
  <2> QED
    BY <1>2, <2>1, <2>2
<1> QED
  BY <1>6, <1>7

\* The text is the elements behind each other.
LEMMA LaidInOrder ==
  ASSUME NEW b \in Paths, NEW f, Laid(b, f)
  PROVE  \E br \in [1..4 -> {<<>>, <<Newline>>}] :
           f[5].text = ElementText(b, 1) \o br[1] \o ElementText(b, 2) \o br[2]
                         \o ElementText(b, 3) \o br[3] \o ElementText(b, 4) \o br[4]
                         \o ElementText(b, 5)
<1> DEFINE x(k) == ElementText(b, k)
           u(k) == Separator(b, k + 1, f[k])
           t(k) == f[k].text
           br   == [k \in 1..4 |-> u(k)]
<1>1. f[0] = [line |-> 0, cur |-> 0, text |-> <<>>] /\ \A k \in 1..5 : f[k] = Gone(b, k, f[k - 1])
  BY Zenon DEF Laid
<1>2. ASSUME NEW k \in 1..5 PROVE t(k) = t(k - 1) \o Separator(b, k, f[k - 1]) \o x(k)
  <2>1. IsGone(f[k], b, k, f[k - 1])
    BY <1>1, GoneIs
  <2> QED
    BY <2>1, SMT DEF IsGone
<1>3. t(1) = x(1)
  <2>1. t(1) = t(0) \o Separator(b, 1, f[0]) \o x(1)
    <3>1. 1 \in 1..5 /\ 1 - 1 = 0
      OBVIOUS
    <3> HIDE DEF t, x
    <3> QED
      BY <1>2, <3>1
  <2>2. t(0) = <<>> /\ f[0].cur = 0
    BY <1>1
  <2>3. Separator(b, 1, f[0]) = <<>>
    <3>1. ElementSize(b, 1) \in 2..10
      BY ElementFacts
    <3> QED
      BY <2>2, <3>1, LineNumbers DEF Separator, Full
  <2>4. x(1) \in Seq(ElementChar)
    BY ElementFacts
  <2> HIDE DEF t, x
  <2>5. <<>> \o <<>> = <<>> /\ <<>> \o x(1) = x(1)
    BY <2>4
  <2> QED
    BY <2>1, <2>2, <2>3, <2>5
<1>4. /\ t(2) = t(1) \o u(1) \o x(2) /\ t(3) = t(2) \o u(2) \o x(3)
      /\ t(4) = t(3) \o u(3) \o x(4) /\ t(5) = t(4) \o u(4) \o x(5)
  <2>1. /\ 2 \in 1..5 /\ 3 \in 1..5 /\ 4 \in 1..5 /\ 5 \in 1..5
        /\ 2 - 1 = 1 /\ 3 - 1 = 2 /\ 4 - 1 = 3 /\ 5 - 1 = 4
        /\ 2 = 1 + 1 /\ 3 = 2 + 1 /\ 4 = 3 + 1 /\ 5 = 4 + 1
    OBVIOUS
  <2> HIDE DEF t, x
  <2> QED
    BY <1>2, <2>1
<1>5. br \in [1..4 -> {<<>>, <<Newline>>}]
  BY DEF Separator
<1>6. br[1] = u(1) /\ br[2] = u(2) /\ br[3] = u(3) /\ br[4] = u(4)
  OBVIOUS
<1> HIDE DEF t, x, u, br
<1>7. t(5) = x(1) \o br[1] \o x(2) \o br[2] \o x(3) \o br[3] \o x(4) \o br[4] \o x(5)
  BY <1>3, <1>4, <1>6
<1> QED
  BY <1>5, <1>7 DEF t, x

LEMMA PathInvReads == PathInv => PathReadsBack /\ LinesFit
<1> SUFFICES ASSUME PathInv, done PROVE PathReadsBack /\ LinesFit
  BY DEF PathReadsBack, LinesFit
<1>1. PICK f : Laid(b32, f) /\ Ended(f[5].text)
  BY Zenon DEF PathInv
<1>2. b32 \in Paths
  BY Zenon DEF PathInv
<1> DEFINE t == f[5].text
<1>3. 5 \in 0..5 /\ 5 \in 1..5
  OBVIOUS
<1>4. t \in Seq(PathChar)
  BY <1>1, <1>2, <1>3, LaidText, Zenon
<1>5. TextLength = Len(t) /\ Text = t
  BY <1>1, <1>4, TextIs, Zenon
<1>6. PathReadsBack
  <2>1. PICK br \in [1..4 -> {<<>>, <<Newline>>}] :
          Text = ElementText(b32, 1) \o br[1] \o ElementText(b32, 2) \o br[2]
                   \o ElementText(b32, 3) \o br[3] \o ElementText(b32, 4) \o br[4]
                   \o ElementText(b32, 5)
    BY <1>1, <1>2, <1>5, LaidInOrder
  <2>2. /\ Element(1) = ElementText(b32, 1) /\ Element(2) = ElementText(b32, 2)
        /\ Element(3) = ElementText(b32, 3) /\ Element(4) = ElementText(b32, 4)
        /\ Element(5) = ElementText(b32, 5)
    BY DEF Element, ElementText
  <2>3. Text = Elements(br)
    BY <2>1, <2>2, SMT DEF Elements
  <2> QED
    BY <2>3, Zenon DEF PathReadsBack
<1>7. LinesFit
  <2> DEFINE E == { 0, TextLength + 1 } \cup { p \in 1..TextLength : Text[p] = Newline }
             F == Breaks0(t) \cup {Len(t) + 1}
  <2>1. Fits(f[5]) /\ f[5].cur >= 1 /\ f[5].line \in 0..2
    BY <1>1, <1>2, <1>3, LaidFits, ThreeLines, Zenon
  <2>2. /\ \A p, q \in F : Adjacent(F, p, q) => q - p - 1 \in 1..LineLength
        /\ IsFiniteSet(F) /\ Cardinality(F) <= f[5].line + 2
    BY <2>1, LastLineFits, Zenon
  <2>3. E = F
    BY <1>5 DEF Breaks0
  <2>4. Cardinality(F) <= 4
    <3>1. Cardinality(F) \in Nat
      BY <2>2, FS_CardinalityType, Zenon
    <3> QED
      BY <2>1, <2>2, <3>1
  <2>5. \A p, q \in E : p < q /\ (\A r \in E : r <= p \/ q <= r) => q - p - 1 \in 1..LineLength
    <3> HIDE DEF E, F
    <3> QED
      BY <2>2, <2>3, Zenon DEF Adjacent
  <2>6. Cardinality(E) <= 4
    BY <2>3, <2>4
  <2> QED
    BY <2>5, <2>6, Zenon DEF LinesFit
<1> QED
  BY <1>6, <1>7

LEMMA PathInvCounts == PathInv => RoomIsCounted
<1> SUFFICES ASSUME PathInv PROVE RoomIsCounted
  OBVIOUS
<1>1. start + room = Room
  <2>1. start \in Nat /\ room = Room - start
    BY Zenon DEF PathInv
  <2> QED
    BY <2>1, RoomForDigits
<1>2. ASSUME ~ done
      PROVE  /\ out_max_len = Room - (start + ofs) /\ out_max_len > 0
             /\ \A p \in start..(start + ofs - 1) : out[p] # Zero
             /\ out[start + ofs] = Zero
  <2>1. PICK f : Laid(b32, f) /\ \E m \in 0..5 : Control(f, m) /\ Contents(f[m].text)
    BY <1>2, Zenon DEF PathInv
  <2>2. PICK m \in 0..5 : Control(f, m) /\ Contents(f[m].text)
    BY <2>1
  <2>3. b32 \in Paths
    BY Zenon DEF PathInv
  <2> DEFINE t == f[m].text
             d == ofs
  <2>4. t \in Seq(PathChar)
    BY <2>1, <2>2, <2>3, LaidText, Zenon
  <2>5. /\ linenr \in 0..2 /\ start \in Nat /\ ofs \in 0..LineLength
        /\ start <= LineStart(linenr) /\ out_max_len = Room - (start + ofs)
    BY <2>2, Zenon DEF Control
  <2>6. /\ \A p \in 0..(Len(t) - 1) : out[p] = IF linenr > 0 /\ p = start - 1 THEN Zero ELSE t[p + 1]
        /\ Len(t) = (IF ofs = 0 /\ linenr > 0 THEN start - 1 ELSE start + ofs)
        /\ out[start + ofs] = Zero
    BY <2>2, Zenon DEF Contents, Holds
  <2>7. start + ofs < Room
    BY <2>5, RoomOnLine, Zenon
  <2>8. out_max_len > 0
    BY <2>5, <2>7, RoomForDigits
  <2> HIDE DEF t
  <2>9. ASSUME NEW p \in start..(start + ofs - 1) PROVE out[p] # Zero
    <3>1. ofs # 0 /\ p \in 0..(start + ofs - 1) /\ p # start - 1 /\ p + 1 \in 1..(start + ofs)
      BY <2>5
    <3>2. Len(t) = start + ofs /\ out[p] = t[p + 1]
      BY <2>6, <3>1
    <3>3. t[p + 1] \in PathChar
      BY <2>4, <3>1, <3>2
    <3>4. \A ch \in PathChar : ch # Zero
      BY DEF PathChar, Newline, Zero
    <3> QED
      BY <3>2, <3>3, <3>4, Zenon
  <2> QED
    BY <2>5, <2>6, <2>8, <2>9
<1> QED
  BY <1>1, <1>2 DEF RoomIsCounted

\* format_bip32_with_line_breaks: whoever reads the page reads the path, every element
\* whole and in its place, whatever the elements are and however long a line may be.
THEOREM PathsReadBack == Spec => []PathReadsBack
<1>1. Init => PathInv
  BY PathInvInit DEF Init
<1>2. PathInv /\ [Next]_vars => PathInv'
  BY PathInvSteps
<1>3. PathInv => PathReadsBack
  BY PathInvReads
<1> QED
  BY <1>1, <1>2, <1>3, PTL DEF Spec

\* format_bip32_with_line_breaks: three lines are enough for any path, none of them is
\* longer than the screen and none is empty.
THEOREM PathLinesFit == Spec => []LinesFit
<1>1. Init => PathInv
  BY PathInvInit DEF Init
<1>2. PathInv /\ [Next]_vars => PathInv'
  BY PathInvSteps
<1>3. PathInv => LinesFit
  BY PathInvReads
<1> QED
  BY <1>1, <1>2, <1>3, PTL DEF Spec

\* format_bip32: hex_len counts what snprintf prints, so that the room handed to snprintf
\* is what is left of the buffer: it never wraps around and nothing is cut off.
THEOREM PathRoomIsCounted == Spec => []RoomIsCounted
<1>1. Init => PathInv
  BY PathInvInit DEF Init
<1>2. PathInv /\ [Next]_vars => PathInv'
  BY PathInvSteps
<1>3. PathInv => RoomIsCounted
  BY PathInvCounts
<1> QED
  BY <1>1, <1>2, <1>3, PTL DEF Spec

================================================================================
