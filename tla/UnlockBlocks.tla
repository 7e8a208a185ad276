----------------------------- MODULE UnlockBlocks -----------------------------
(* The unlock blocks a host collects with one SIGN_SINGLE per input, in any     *)
(* order and as often as it likes, from one confirmed essence (signing.c).       *)
EXTENDS Signing

CONSTANTS
  Keys,              \* bip32 indices of inputs
  InputsBound,       \* bound on the number of inputs
  Path,              \* coin and account of the session
  EssenceHash

VARIABLES inputs, blindsigning, path, unlocks

unlockVars == <<inputs, blindsigning, path, unlocks>>

ASSUME UnlockAssumption ==
  /\ InputsBound \in 1..NoReference
  /\ Keys \subseteq [bip32_index : Nat, bip32_change : Nat]
  /\ Path \in [coin : STRING, account : Nat, bip32_change : Nat, bip32_index : Nat]

InputNumbers == 0..(Len(inputs) - 1)

NotAsked == [kind |-> "none"]

Init ==
  /\ inputs \in UNION { [1..n -> Keys] : n \in 1..InputsBound }
  /\ blindsigning \in BOOLEAN
  /\ path = Path
  /\ unlocks = [n \in InputNumbers |-> NotAsked]

\* sign() also leaves the path of the signature in the context.
SignInput(n) ==
  LET u == UnlockBlock(EssenceHash, path, inputs, n, blindsigning)
  IN  /\ unlocks' = [unlocks EXCEPT ![n] = u]
      /\ path' = IF u.kind = "signature" THEN u.path ELSE path
      /\ UNCHANGED <<inputs, blindsigning>>

Next == \E n \in InputNumbers : SignInput(n)

Spec == Init /\ [][Next]_unlockVars

-----------------------------------------------------------------------------

\* A reference unlock block names an earlier input of the same key, and that input
\* is unlocked by a signature: a reference to a reference would be refused by the
\* network.  Whatever the order of the requests, the host ends up with a signature
\* for every reference it holds once it has asked for all inputs.
ReferencesPointToSignatures ==
  \A n \in InputNumbers :
    unlocks[n].kind = "reference" =>
      LET r == unlocks[n].reference
      IN  /\ r \in 0..(n - 1)
          /\ InputKey(inputs, r) = InputKey(inputs, n)
          /\ unlocks[r].kind # "reference"

\* A signature is made with the key of its own input and the account of the
\* session, whatever path the signature before it left in the context.
SignaturesUseInputKey ==
  \A n \in InputNumbers :
    unlocks[n].kind = "signature" =>
      unlocks[n].path = [Path EXCEPT !.bip32_index  = InputKey(inputs, n).bip32_index,
                                     !.bip32_change = InputKey(inputs, n).bip32_change]

\* No key signs twice, and every key of an input does sign once all are asked for;
\* a blindly signed essence has a signature for each input instead.
OneSignaturePerKey ==
  \A n \in InputNumbers :
    unlocks[n].kind # "none" =>
      (unlocks[n].kind = "signature" <=>
         blindsigning \/ \A i \in 0..(n - 1) : InputKey(inputs, i) # InputKey(inputs, n))
================================================================================
