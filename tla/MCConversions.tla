---------------------------- MODULE MCConversions ----------------------------
(* Amounts on both sides of every place where the text changes its form: below    *)
(* one coin, at one coin, where the number is printed in two parts, and where it  *)
(* cannot be printed.  The paths the application sets, 44'/coin'/account'/change'/ *)
(* index', with the three coin types and last elements of one to eight digits.     *)
(* The curve -x^2 + y^2 = 1 + 2 x^2 y^2 modulo 29, of the form of Ed25519, in keys *)
(* of three bytes of two bits.                                                     *)
EXTENDS Conversions

MCLow == {0, 1, 10, 99999, 100000, 999999, 1000000, 1000001, 12345678, 99999999,
          100000000, 999999999}

\* The last high part is the largest number TLC has.
MCHigh == {0, 1, 4, 10, 99, 2779530, 99999999, 100000000, 999999999, 10^9, 2147483647}

MCAmounts == (MCHigh \X MCLow) \ {<<0, 0>>}

MCElements == {0, 255, 4096, 65536, 1048576, 16777216, 268435456, 2147483647}

MCPaths == { <<44, coin, account, change, index>> :
               coin \in {1, 4218, 4219}, account \in MCElements, change \in MCElements,
               index \in MCElements }

MCPoints == { p \in (0..28) \X (0..28) :
                (p[2] * p[2] - p[1] * p[1] - 1 - 2 * p[1] * p[1] * p[2] * p[2]) % 29 = 0 }
================================================================================
