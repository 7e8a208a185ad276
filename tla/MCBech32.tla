------------------------------- MODULE MCBech32 -------------------------------
(* Addresses of 33 bytes, the type and a hash: the ends of the range, alternating *)
(* bits, a single bit at either end, and two without a pattern.                   *)
EXTENDS Bech32

Address(hash(_)) == <<0>> \o [i \in 1..32 |-> hash(i)]

MCInputs == {
  Address(LAMBDA i : 0), Address(LAMBDA i : 255), Address(LAMBDA i : 165),
  Address(LAMBDA i : IF i = 1 THEN 128 ELSE 0), Address(LAMBDA i : IF i = 32 THEN 1 ELSE 0),
  Address(LAMBDA i : (37 * i * i + 11) % 256), Address(LAMBDA i : (i * i * i + 5 * i) % 251) }
================================================================================
