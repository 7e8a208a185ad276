-------------------------------- MODULE Digits --------------------------------
(* Numbers written in a base.  The conversions of the standard library the        *)
(* program formats with are stated here, and what a reader makes of the digits.   *)
EXTENDS Integers, Sequences

Power(base) == LET p[n \in Nat] == IF n = 0 THEN 1 ELSE base * p[n - 1] IN p

\* The digit of base^k.
Digit(v, base, k) == (v \div Power(base)[k]) % base

\* %0wu or %0wx of a number of w digits or fewer.
Padded(v, base, w) == [k \in 1..w |-> Digit(v, base, w - k)]

\* %u or %x of a number of max digits or fewer.
Unpadded(v, base, max) ==
  Padded(v, base, CHOOSE w \in 1..max :
                    (w = max \/ v < Power(base)[w]) /\ (w = 1 \/ v >= Power(base)[w - 1]))

\* The number the digits stand for.
Value(digits, base) ==
  LET v[k \in 0..Len(digits)] == IF k = 0 THEN 0 ELSE base * v[k - 1] + digits[k]
  IN  v[Len(digits)]
================================================================================
