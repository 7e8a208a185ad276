-------------------------------- MODULE Signing --------------------------------
(* Unlock blocks of a confirmed essence (src/src/iota/signing.c): one block    *)
(* per input, a signature for the first input of a key and a reference to that *)
(* block for every later input of the same key.                                *)
(*                                                                              *)
(* Inputs are the parsed bip32 indices of the essence, a sequence of records    *)
(* [bip32_index, bip32_change]; as in C, input numbers start at 0.              *)
EXTENDS Integers, Sequences, FiniteSetsExt

\* The 0xff of sign_get_reference_index: not a reference unlock block.
NoReference == 255

\* Bip32 fragments of input n, counted from 0.
InputKey(inputs, n) == inputs[n + 1]

\* Earlier inputs that are unlocked by the key of input n: all bytes of the two
\* bip32 fragments are compared.
EarlierWithSameKey(inputs, n) ==
  { i \in 0..(n - 1) : InputKey(inputs, i) = InputKey(inputs, n) }

\* Mutant of ReferenceIndex: the loop leaves at the last match.
ReferenceIndexLast(inputs, n) ==
  LET S == EarlierWithSameKey(inputs, n)
  IN  IF S = {} THEN NoReference ELSE Max(S)

\* The loop leaves at its first match.
ReferenceIndex(inputs, n) ==
  LET S == EarlierWithSameKey(inputs, n)
  IN  IF S = {} THEN NoReference ELSE Min(S)

\* Mutant of UnlockReference: blind signing keeps the reference blocks.
UnlockReferenceAlways(inputs, n, blindsigning) == ReferenceIndex(inputs, n)

\* No reference blocks when only the hash of the essence is known.
UnlockReference(inputs, n, blindsigning) ==
  IF blindsigning THEN NoReference ELSE ReferenceIndex(inputs, n)

\* Mutant of SigningPath: the change index of the signature before stays.
SigningPathIndexOnly(path, inputs, n) ==
  [path EXCEPT !.bip32_index = InputKey(inputs, n).bip32_index]

\* The path a signature is made with: coin and account of the session, index and
\* change of the input.
SigningPath(path, inputs, n) ==
  [path EXCEPT !.bip32_index  = InputKey(inputs, n).bip32_index,
               !.bip32_change = InputKey(inputs, n).bip32_change]

\* sign() for input n: what the unlock block is made of.
UnlockBlock(essence_hash, path, inputs, n, blindsigning) ==
  LET r == UnlockReference(inputs, n, blindsigning)
  IN  IF r = NoReference
        THEN [kind |-> "signature", hash |-> essence_hash,
              path |-> SigningPath(path, inputs, n)]
        ELSE [kind |-> "reference", reference |-> r]
================================================================================
