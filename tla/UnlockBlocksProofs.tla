-------------------------- MODULE UnlockBlocksProofs --------------------------
(* The properties of UnlockBlocks, for any number of inputs up to the bound that *)
(* the index of a reference sets.  The inductive invariant says that a request    *)
(* gets the same answer whenever it is made: the path that the signature before   *)
(* it left behind is overwritten in full.                                         *)
EXTENDS UnlockBlocks, SigningProofs

FullPaths == [coin : STRING, account : Nat, bip32_change : Nat, bip32_index : Nat]

\* The answer to a request for input n in a fresh session.
FirstAnswer(n) == UnlockBlock(EssenceHash, Path, inputs, n, blindsigning)

AnswersArePathFree ==
  /\ \E len \in 1..InputsBound : inputs \in [1..len -> Keys]
  /\ blindsigning \in BOOLEAN
  /\ path \in FullPaths /\ path.coin = Path.coin /\ path.account = Path.account
  /\ DOMAIN unlocks = InputNumbers
  /\ \A n \in InputNumbers : unlocks[n] \in {NotAsked, FirstAnswer(n)}

LEMMA InputsType ==
  ASSUME AnswersArePathFree
  PROVE  /\ inputs \in Seq(Keys) /\ Len(inputs) \in 1..InputsBound
         /\ \A n \in InputNumbers : /\ n \in 0..NoReference
                                    /\ InputKey(inputs, n) \in [bip32_index : Nat, bip32_change : Nat]
<1>1. PICK len \in 1..InputsBound : inputs \in [1..len -> Keys]
  BY DEF AnswersArePathFree
<1>2. len \in Nat /\ len <= NoReference
  BY UnlockAssumption DEF NoReference
<1>3. inputs \in Seq(Keys) /\ Len(inputs) = len
  BY <1>1, <1>2
<1>4. ASSUME NEW n \in InputNumbers
      PROVE  n \in 0..NoReference /\ n + 1 \in 1..len
  BY <1>2, <1>3 DEF InputNumbers, NoReference
<1>5. \A n \in InputNumbers : InputKey(inputs, n) \in Keys
  BY <1>1, <1>4 DEF InputKey
<1> QED
  BY <1>3, <1>4, <1>5, UnlockAssumption

\* The path of a signature does not depend on the path before it.
LEMMA SigningPathIsFull ==
  ASSUME AnswersArePathFree, NEW n \in InputNumbers
  PROVE  /\ SigningPath(path, inputs, n) = SigningPath(Path, inputs, n)
         /\ SigningPath(path, inputs, n) \in FullPaths
         /\ SigningPath(path, inputs, n).coin = Path.coin
         /\ SigningPath(path, inputs, n).account = Path.account
<1>1. InputKey(inputs, n).bip32_index \in Nat /\ InputKey(inputs, n).bip32_change \in Nat
  BY InputsType
<1>2. path \in FullPaths /\ Path \in FullPaths
      /\ path.coin = Path.coin /\ path.account = Path.account
  BY UnlockAssumption DEF AnswersArePathFree, FullPaths
<1> QED
  BY <1>1, <1>2 DEF SigningPath, FullPaths

LEMMA AnswerIsFirstAnswer ==
  ASSUME AnswersArePathFree, NEW n \in InputNumbers
  PROVE  UnlockBlock(EssenceHash, path, inputs, n, blindsigning) = FirstAnswer(n)
  BY SigningPathIsFull DEF UnlockBlock, FirstAnswer

LEMMA AnswersArePathFreeInv ==
  Spec => []AnswersArePathFree
<1>1. Init => AnswersArePathFree
  BY UnlockAssumption DEF Init, AnswersArePathFree, FullPaths
<1>2. AnswersArePathFree /\ [Next]_unlockVars => AnswersArePathFree'
  <2> SUFFICES ASSUME AnswersArePathFree, [Next]_unlockVars
               PROVE  AnswersArePathFree'
    OBVIOUS
  <2>1. ASSUME NEW n \in InputNumbers, SignInput(n)
        PROVE  AnswersArePathFree'
    <3> DEFINE u == UnlockBlock(EssenceHash, path, inputs, n, blindsigning)
    <3>1. u = FirstAnswer(n)
      BY AnswerIsFirstAnswer
    <3>2. u.kind = "signature" => u.path = SigningPath(path, inputs, n)
      BY DEF UnlockBlock
    <3>3. unlocks' = [unlocks EXCEPT ![n] = u] /\ inputs' = inputs
          /\ blindsigning' = blindsigning
          /\ path' = IF u.kind = "signature" THEN u.path ELSE path
      BY <2>1 DEF SignInput
    <3> HIDE DEF u
    <3>4. path' \in FullPaths /\ path'.coin = Path.coin /\ path'.account = Path.account
      BY <3>2, <3>3, SigningPathIsFull DEF AnswersArePathFree
    <3>5. InputNumbers' = InputNumbers /\ \A m : FirstAnswer(m)' = FirstAnswer(m)
      BY <3>3 DEF InputNumbers, FirstAnswer
    <3>6. DOMAIN unlocks' = InputNumbers
          /\ \A m \in InputNumbers : unlocks'[m] \in {NotAsked, FirstAnswer(m)}
      BY <3>1, <3>3 DEF AnswersArePathFree
    <3> QED
      BY <3>3, <3>4, <3>5, <3>6 DEF AnswersArePathFree
  <2>2. CASE UNCHANGED unlockVars
    BY <2>2 DEF AnswersArePathFree, unlockVars, InputNumbers, FirstAnswer
  <2> QED
    BY <2>1, <2>2 DEF Next
<1> QED
  BY <1>1, <1>2, PTL DEF Spec

-----------------------------------------------------------------------------

\* The kind of an answer tells whether an earlier input has the same key.
LEMMA FirstAnswerKind ==
  ASSUME AnswersArePathFree, NEW n \in InputNumbers
  PROVE  /\ FirstAnswer(n).kind \in {"signature", "reference"}
         /\ FirstAnswer(n).kind = "signature" <=>
              blindsigning \/ EarlierWithSameKey(inputs, n) = {}
         /\ FirstAnswer(n).kind = "signature" =>
              FirstAnswer(n).path = SigningPath(Path, inputs, n)
         /\ FirstAnswer(n).kind = "reference" =>
              FirstAnswer(n).reference = ReferenceIndex(inputs, n)
<1>1. n \in 0..NoReference
  BY InputsType
<1>2. ReferenceIndex(inputs, n) = NoReference <=> EarlierWithSameKey(inputs, n) = {}
  BY <1>1, ReferenceIndexIsFirst
<1> QED
  BY <1>2 DEF FirstAnswer, UnlockBlock, UnlockReference

\* A reference unlock block names an earlier input of the same key whose unlock
\* block is a signature (sign_get_reference_index).
THEOREM UnlockBlocksReferToSignatures == Spec => []ReferencesPointToSignatures
<1>1. AnswersArePathFree => ReferencesPointToSignatures
  <2> SUFFICES ASSUME AnswersArePathFree, NEW n \in InputNumbers,
                      unlocks[n].kind = "reference"
               PROVE  LET r == unlocks[n].reference
                      IN  /\ r \in 0..(n - 1)
                          /\ InputKey(inputs, r) = InputKey(inputs, n)
                          /\ unlocks[r].kind # "reference"
    BY DEF ReferencesPointToSignatures
  <2> DEFINE r == ReferenceIndex(inputs, n)
             S == EarlierWithSameKey(inputs, n)
  <2>1. unlocks[n] = FirstAnswer(n)
    BY DEF AnswersArePathFree, NotAsked
  <2>2. unlocks[n].reference = r /\ S # {}
    BY <2>1, FirstAnswerKind
  <2>3. n \in 0..NoReference /\ n \in Nat
    BY InputsType
  <2>4. r \in S /\ \A i \in S : r <= i
    BY <2>2, <2>3, ReferenceIndexIsFirst
  <2>5. r \in 0..(n - 1) /\ InputKey(inputs, r) = InputKey(inputs, n)
    BY <2>4, <2>3 DEF EarlierWithSameKey
  <2> HIDE DEF r
  <2>6. r \in InputNumbers
    BY <2>5, <2>3 DEF InputNumbers
  <2>7. EarlierWithSameKey(inputs, r) = {}
    BY <2>3, <2>4, <2>5 DEF EarlierWithSameKey
  <2>8. unlocks[r].kind # "reference"
    BY <2>6, <2>7, FirstAnswerKind DEF AnswersArePathFree, NotAsked
  <2> QED
    BY <2>2, <2>5, <2>8
<1> QED
  BY <1>1, AnswersArePathFreeInv, PTL

\* A signature is made with the key of its own input, whatever path the signature
\* before it left in the context (sign_signature sets index and change).
THEOREM UnlockBlocksUseInputKey == Spec => []SignaturesUseInputKey
<1>1. AnswersArePathFree => SignaturesUseInputKey
  <2> SUFFICES ASSUME AnswersArePathFree, NEW n \in InputNumbers,
                      unlocks[n].kind = "signature"
               PROVE  unlocks[n].path = SigningPath(Path, inputs, n)
    BY DEF SignaturesUseInputKey, SigningPath
  <2>1. unlocks[n] = FirstAnswer(n)
    BY DEF AnswersArePathFree, NotAsked
  <2> QED
    BY <2>1, FirstAnswerKind
<1> QED
  BY <1>1, AnswersArePathFreeInv, PTL

\* No key signs twice and no key is left without its signature.
THEOREM UnlockBlocksSignOnce == Spec => []OneSignaturePerKey
<1>1. AnswersArePathFree => OneSignaturePerKey
  <2> SUFFICES ASSUME AnswersArePathFree, NEW n \in InputNumbers,
                      unlocks[n].kind # "none"
               PROVE  unlocks[n].kind = "signature" <=>
                        blindsigning \/ EarlierWithSameKey(inputs, n) = {}
    BY DEF OneSignaturePerKey, EarlierWithSameKey
  <2>1. unlocks[n] = FirstAnswer(n)
    BY DEF AnswersArePathFree, NotAsked
  <2> QED
    BY <2>1, FirstAnswerKind
<1> QED
  BY <1>1, AnswersArePathFreeInv, PTL
================================================================================
