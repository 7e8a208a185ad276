------------------------------ MODULE Conversions ------------------------------
(* The conversions of values the program keeps into what a reader gets: the text   *)
(* of an amount, the text of a path, the bytes of a key.  They share no state but   *)
(* the screen's buffer, which each of them clears first, so one of them runs.      *)
EXTENDS AmountText, PathText, PublicKey

VARIABLE conversion       \* the one that runs

vars == <<conversion, amountVars, pathVars, keyVars>>

\* The others wait at the beginning, with any value.
Waits(x, S) == x = CHOOSE v \in S : TRUE

Init ==
  /\ conversion \in {"amount", "path", "key"}
  /\ conversion # "amount" => Waits(amount, Amounts)
  /\ conversion # "path" => Waits(b32, Paths)
  /\ conversion # "key" => Waits(point, Points)
  /\ AmountInit /\ PathInit /\ KeyInit

Next ==
  /\ UNCHANGED conversion
  /\ \/ conversion = "amount" /\ AmountNext /\ UNCHANGED <<pathVars, keyVars>>
     \/ conversion = "path" /\ PathNext /\ UNCHANGED <<amountVars, keyVars>>
     \/ conversion = "key" /\ KeyNext /\ UNCHANGED <<amountVars, pathVars>>

Spec == Init /\ [][Next]_vars
================================================================================
