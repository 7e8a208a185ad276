------------------------------ MODULE AmountText ------------------------------
(* The text of an amount (get_amount of abstraction.c, format_u64 and             *)
(* format_value_full_decimals of ui_common.c): a 64-bit number is printed in two  *)
(* parts of nine digits, because the device prints 32 bits at most, and copied    *)
(* with a point in front of its last six digits.                                  *)
EXTENDS ScreenBuffer

CONSTANT
  Amounts            \* pairs <<high, low>> of high * 10^9 + low, from 1 on

\* Every amount of 64 bits and beyond, but zero, which the parser refuses.  The
\* buffer holds eighteen digits, the point and the terminator.
ASSUME AmountAssumption ==
  /\ Amounts \subseteq (Nat \X (0..(10^9 - 1))) \ {<<0, 0>>}
  /\ Room >= 20

VARIABLES
  amount,
  buffer,            \* the digits written by format_u64
  copied,            \* how many of them are copied
  text,              \* the buffer of the screen, up to its terminator
  result             \* "called", "copying", "written" or "thrown"

amountVars == <<amount, buffer, copied, text, result>>

\* The characters are the digits 0..9 and the point.
Point == 10

\* %u and %09u of a part.
Unsigned(v)   == Unpadded(v, 10, 9)
NineDigits(v) == Padded(v, 10, 9)

\* Mutant of U64Digits: the low part is printed without its leading zeros.
U64DigitsUnpadded(a) ==
  IF a[1] = 0 THEN Unsigned(a[2]) ELSE Unsigned(a[1]) \o Unsigned(a[2])

\* format_u64, for amounts below 10^18.
U64Digits(a) ==
  IF a[1] = 0 THEN Unsigned(a[2]) ELSE Unsigned(a[1]) \o NineDigits(a[2])

\* Mutant of Printable: the limit is that of 32 bits.
Printable32(a) == a[1] < 4

\* format_u64 throws for the others.
Printable(a) == a[1] < 10^9

AmountInit ==
  /\ amount \in Amounts
  /\ buffer = <<>> /\ copied = 0 /\ text = <<>> /\ result = "called"

\* Either exception; the main loop answers it.
Throw ==
  /\ result = "called"
  /\ Printable(amount) => Room < Len(U64Digits(amount)) + 2
  /\ result' = "thrown"
  /\ UNCHANGED <<amount, buffer, copied, text>>

\* Below one coin: a zero and six digits, as much as there is room for.
WriteFraction ==
  /\ result = "called" /\ amount[1] = 0 /\ amount[2] < 10^6
  /\ Room >= Len(U64Digits(amount)) + 2
  /\ text' = SubSeq(<<0, Point>> \o Padded(amount[2], 10, 6), 1, IF Room > 8 THEN 8 ELSE Room - 1)
  /\ result' = "written"
  /\ UNCHANGED <<amount, buffer, copied>>

StartCopy ==
  /\ result = "called" /\ Printable(amount) /\ (amount[1] > 0 \/ amount[2] >= 10^6)
  /\ Room >= Len(U64Digits(amount)) + 2
  /\ buffer' = U64Digits(amount)
  /\ result' = "copying"
  /\ UNCHANGED <<amount, copied, text>>

\* One turn of the copy loop; behind the last one the text is terminated.
CopyDigit ==
  /\ result = "copying" /\ copied < Len(buffer)
  /\ text' = text \o (IF copied = Len(buffer) - 6 THEN <<Point>> ELSE <<>>)
                  \o <<buffer[copied + 1]>>
  /\ copied' = copied + 1
  /\ result' = IF copied + 1 = Len(buffer) THEN "written" ELSE "copying"
  /\ UNCHANGED <<amount, buffer>>

AmountNext == Throw \/ WriteFraction \/ StartCopy \/ CopyDigit

-----------------------------------------------------------------------------

\* Whoever reads the page reads the amount: a whole number of coins without needless
\* zeros, a point, and exactly six digits, that together are the amount of the output.
AmountReadsBack ==
  result = "written" =>
    LET n     == Len(text) - 7
        whole == SubSeq(text, 1, n)
    IN  /\ n >= 1 /\ text[n + 1] = Point /\ \A k \in (1..Len(text)) \ {n + 1} : text[k] \in 0..9
        /\ whole[1] = 0 => n = 1
        /\ amount = << Value(SubSeq(whole, 1, n - 3), 10),
                       10^6 * Value(SubSeq(whole, IF n > 3 THEN n - 2 ELSE 1, n), 10)
                         + Value(SubSeq(text, n + 2, n + 7), 10) >>

\* Only amounts from 10^18 on have no text and throw out of the review.
ThrowsFromLimitOn == result = "thrown" <=> (result # "called" /\ amount[1] >= 10^9)
================================================================================
