-------------------------- MODULE EssenceParserProofs --------------------------
(* Proofs about EssenceParser for every buffer size, every field size and every  *)
(* value read from the buffer: the cursor stays in the buffer, the amounts add    *)
(* up, and what is accepted is what ApiContext assumes of the decoders.           *)
EXTENDS EssenceParser, FiniteSetTheorems, TLAPS

USE ParserAssumption

-----------------------------------------------------------------------------
(* Words that do not wrap around.                                               *)

LEMMA SmallMod ==
  ASSUME NEW m \in Nat, NEW x \in Nat, x < m
  PROVE  x % m = x
  BY SMT

LEMMA WrappedMod ==
  ASSUME NEW m \in Nat, m > 0, NEW x \in Nat, m <= x, x < 2 * m
  PROVE  x % m = x - m
  BY SMT

\* A cursor in the buffer moved by at most the size of the buffer.
LEMMA NoWrap ==
  ASSUME NEW i \in Nat, i < BufferSize, NEW size \in Nat, size <= BufferSize
  PROVE  (i + size) % WordMod = i + size
<1>1. i + size \in Nat /\ i + size < WordMod
  OBVIOUS
<1> QED
  BY <1>1, SmallMod

\* The test that finds a sum of amounts that has wrapped around.
LEMMA OverflowIsFound ==
  ASSUME NEW t \in 0..(AmountMod - 1), NEW a \in 0..(AmountMod - 1),
         (t + a) % AmountMod >= a
  PROVE  (t + a) % AmountMod = t + a /\ t + a < AmountMod
<1>1. t + a \in Nat /\ t + a < 2 * AmountMod
  OBVIOUS
<1>2. CASE t + a >= AmountMod
  <2>1. (t + a) % AmountMod = t + a - AmountMod
    BY <1>1, <1>2, WrappedMod
  <2> QED
    BY <2>1
<1>3. CASE t + a < AmountMod
  BY <1>1, <1>3, SmallMod
<1> QED
  BY <1>1, <1>2, <1>3

-----------------------------------------------------------------------------
(* The inductive invariant.                                                     *)

AfterInputs  == {"input", "commitment", "outputs_count", "output", "payload_length",
                 "bip32", "accepted"}
AfterOutputs == {"output", "payload_length", "bip32", "accepted"}

CursorTypes ==
  /\ blindsigning \in BOOLEAN /\ at \in Fields \cup Results
  /\ idx \in Nat /\ idx < BufferSize /\ consumed = idx

AmountTypes ==
  /\ total_amount \in 0..(AmountMod - 1) /\ paid \in Nat
  /\ at # "rejected" => total_amount = paid

\* Which fields each parser reads, and what is known after them.
CountsKnown ==
  /\ blindsigning => /\ at \in {"hash", "inputs_count", "bip32"} \cup Results
                     /\ outputs_count = 0
  /\ ~blindsigning => at # "hash"
  /\ at \in AfterInputs => inputs_count \in 1..CountMax
  /\ at \in AfterOutputs /\ ~blindsigning => outputs_count \in 1..CountMax

LengthsKnown ==
  /\ blindsigning /\ at = "inputs_count" => length \in 1..idx
  /\ at = "bip32" => length \in 1..idx /\ n \in 0..(inputs_count - 1)
  /\ at = "accepted" => length \in 1..(idx - 1) /\ data_length = idx

ParserInv == CursorTypes /\ AmountTypes /\ CountsKnown /\ LengthsKnown

LEMMA InitParserInv == Init => ParserInv
<1> SUFFICES ASSUME Init PROVE ParserInv
  OBVIOUS
<1>1. CursorTypes /\ AmountTypes
  BY DEF Init, CursorTypes, AmountTypes, Fields, Results
<1>2. CountsKnown /\ LengthsKnown
  BY DEF Init, CountsKnown, LengthsKnown, AfterInputs, AfterOutputs
<1> QED
  BY <1>1, <1>2 DEF ParserInv

\* A field is read in full, or the parser stops.
LEMMA ReadMoves ==
  ASSUME CursorTypes, NEW field, NEW next \in Fields \cup Results, NEW size \in 1..BufferSize,
         NEW valid, Read(field, next, size, valid), UNCHANGED blindsigning
  PROVE  /\ at = field /\ CursorTypes'
         /\ \/ valid /\ at' = next /\ idx' = idx + size
            \/ at' = "rejected" /\ idx' = idx
<1>1. (idx + size) % WordMod = idx + size
  <2>1. idx \in Nat /\ idx < BufferSize /\ size \in Nat /\ size <= BufferSize
    BY DEF CursorTypes
  <2> QED
    BY <2>1, NoWrap
<1>2. "rejected" \in Fields \cup Results
  BY DEF Results
<1>3. CASE Fits(size) /\ valid
  BY <1>1, <1>3 DEF Read, Fits, Advance, CursorTypes
<1>4. CASE ~(Fits(size) /\ valid)
  BY <1>2, <1>4 DEF Read, Reject, CursorTypes
<1> QED
  BY <1>3, <1>4 DEF Read

LEMMA SizeType ==
  ASSUME NEW field \in Fields
  PROVE  SizeOf[field] \in 1..BufferSize
  OBVIOUS

-----------------------------------------------------------------------------
(* The fields.                                                                  *)

LEMMA ReadSkippedKeepsInv ==
  ASSUME ParserInv, NEW valid \in BOOLEAN, ReadSkipped(valid)
  PROVE  ParserInv'
<1>1. PICK field \in {"essence_type", "network_id", "commitment", "hash"},
           next \in {"network_id", "inputs_count", "outputs_count"}, v \in BOOLEAN :
        /\ Read(field, next, SizeOf[field], v)
        /\ field = "commitment" <=> next = "outputs_count"
        /\ field = "hash" => next = "inputs_count"
  BY DEF ReadSkipped
<1>2. UNCHANGED <<blindsigning, inputs_count, outputs_count, total_amount, paid>>
  BY DEF ReadSkipped, counts, amounts
<1>3. field \in Fields /\ next \in Fields \cup Results
  BY DEF Fields
<1>4. SizeOf[field] \in 1..BufferSize
  BY <1>3, SizeType
<1>5. /\ at = field /\ CursorTypes'
      /\ \/ at' = next /\ idx' = idx + SizeOf[field]
         \/ at' = "rejected" /\ idx' = idx
  BY <1>1, <1>2, <1>3, <1>4, ReadMoves DEF ParserInv
<1>6. AmountTypes'
  BY <1>1, <1>2, <1>5 DEF ParserInv, AmountTypes
<1>7. CountsKnown'
  BY <1>1, <1>2, <1>5 DEF ParserInv, CountsKnown, AfterInputs, AfterOutputs, Results
<1>8. LengthsKnown'
  <2>1. length' = IF blindsigning /\ at' # "rejected" THEN idx' ELSE length
    BY DEF ReadSkipped
  <2>2. idx \in Nat /\ SizeOf[field] \in Nat /\ SizeOf[field] > 0
    BY <1>4 DEF ParserInv, CursorTypes
  <2> QED
    BY <1>1, <1>2, <1>5, <2>1, <2>2 DEF LengthsKnown
<1> QED
  BY <1>5, <1>6, <1>7, <1>8 DEF ParserInv

LEMMA ReadInputsCountKeepsInv ==
  ASSUME ParserInv, NEW c \in CountValues, ReadInputsCount(c)
  PROVE  ParserInv'
<1> DEFINE next == IF blindsigning THEN "bip32" ELSE "input"
           size == SizeOf["inputs_count"]
<1>1. next \in Fields \cup Results /\ size \in 1..BufferSize
  BY SizeType DEF Fields
<1>2. /\ inputs_count' = (IF at' = "rejected" THEN inputs_count ELSE c) /\ n' = 0
      /\ UNCHANGED <<blindsigning, outputs_count, length, data_length, total_amount, paid>>
  BY DEF ReadInputsCount, lengths, amounts
<1>3. /\ at = "inputs_count" /\ CursorTypes'
      /\ \/ CountIsValid(c) /\ at' = next /\ idx' = idx + size
         \/ at' = "rejected" /\ idx' = idx
  BY <1>1, <1>2, ReadMoves DEF ParserInv, ReadInputsCount
<1>4. CountIsValid(c) => c \in 1..CountMax
  BY DEF CountIsValid
<1>5. AmountTypes'
  BY <1>2, <1>3 DEF ParserInv, AmountTypes
<1>6. CountsKnown'
  BY <1>2, <1>3, <1>4 DEF ParserInv, CountsKnown, AfterInputs, AfterOutputs, Results
<1>7. LengthsKnown'
  <2>1. idx \in Nat /\ size \in Nat /\ idx' \in Nat
    BY <1>1, <1>3 DEF ParserInv, CursorTypes
  <2> HIDE DEF size
  <2>2. ASSUME at' = "bip32"
        PROVE  length' \in 1..idx' /\ n' \in 0..(inputs_count' - 1)
    BY <1>2, <1>3, <1>4, <2>1, <2>2 DEF ParserInv, LengthsKnown
  <2> QED
    BY <1>3, <2>2 DEF LengthsKnown
<1> QED
  BY <1>3, <1>5, <1>6, <1>7 DEF ParserInv

LEMMA ReadInputKeepsInv ==
  ASSUME ParserInv, NEW id \in Ids, NEW valid \in BOOLEAN, ReadInput(id, valid)
  PROVE  ParserInv'
<1> DEFINE next == IF n + 1 = inputs_count THEN "commitment" ELSE "input"
           size == SizeOf["input"]
<1>1. next \in Fields \cup Results /\ size \in 1..BufferSize
  BY SizeType DEF Fields
<1>2. UNCHANGED <<blindsigning, inputs_count, outputs_count, length, data_length,
                  total_amount, paid>>
  BY DEF ReadInput, lengths, amounts
<1>3. /\ at = "input" /\ CursorTypes'
      /\ (at' = next \/ at' = "rejected")
  BY <1>1, <1>2, ReadMoves DEF ParserInv, ReadInput
<1>4. AmountTypes'
  BY <1>2, <1>3 DEF ParserInv, AmountTypes
<1>5. CountsKnown' /\ LengthsKnown'
  BY <1>2, <1>3 DEF ParserInv, CountsKnown, LengthsKnown, AfterInputs, AfterOutputs, Results
<1> QED
  BY <1>3, <1>4, <1>5 DEF ParserInv

LEMMA ReadOutputsCountKeepsInv ==
  ASSUME ParserInv, NEW c \in CountValues, ReadOutputsCount(c)
  PROVE  ParserInv'
<1>1. "output" \in Fields \cup Results /\ SizeOf["outputs_count"] \in 1..BufferSize
  BY SizeType DEF Fields
<1>2. /\ outputs_count' = (IF at' = "rejected" THEN outputs_count ELSE c)
      /\ UNCHANGED <<blindsigning, inputs_count, length, data_length, total_amount, paid>>
  BY DEF ReadOutputsCount, lengths, amounts
<1>3. /\ at = "outputs_count" /\ CursorTypes'
      /\ ((CountIsValid(c) /\ at' = "output") \/ at' = "rejected")
  BY <1>1, <1>2, ReadMoves DEF ParserInv, ReadOutputsCount
<1>4. CountIsValid(c) => c \in 1..CountMax
  BY DEF CountIsValid
<1>5. AmountTypes' /\ LengthsKnown'
  BY <1>2, <1>3 DEF ParserInv, AmountTypes, LengthsKnown
<1>6. CountsKnown'
  BY <1>2, <1>3, <1>4 DEF ParserInv, CountsKnown, AfterInputs, AfterOutputs, Results
<1> QED
  BY <1>3, <1>5, <1>6 DEF ParserInv

LEMMA ReadOutputKeepsInv ==
  ASSUME ParserInv, NEW amount \in AmountValues, NEW valid \in BOOLEAN,
         ReadOutput(amount, valid)
  PROVE  ParserInv'
<1> DEFINE next == IF n + 1 = outputs_count THEN "payload_length" ELSE "output"
           sum == (total_amount + amount) % AmountMod
<1>1. next \in Fields \cup Results /\ SizeOf["output"] \in 1..BufferSize
  BY SizeType DEF Fields
<1>2. /\ total_amount' = sum /\ paid' = paid + amount
      /\ UNCHANGED <<blindsigning, inputs_count, outputs_count, length, data_length>>
  BY DEF ReadOutput, lengths
<1>3. /\ at = "output" /\ CursorTypes'
      /\ ((NoOverflow(amount) /\ at' = next) \/ at' = "rejected")
  BY <1>1, <1>2, ReadMoves DEF ParserInv, ReadOutput
<1>4. AmountTypes'
  <2>1. /\ total_amount \in 0..(AmountMod - 1) /\ amount \in 0..(AmountMod - 1)
        /\ paid \in Nat /\ total_amount = paid
    BY <1>3 DEF ParserInv, AmountTypes
  <2>2. sum \in 0..(AmountMod - 1)
    <3>1. \A m, x \in Nat : m > 0 => x % m \in 0..(m - 1)
      BY SMT
    <3>2. total_amount + amount \in Nat /\ AmountMod \in Nat /\ AmountMod > 0
      BY <2>1
    <3> QED
      BY <3>1, <3>2
  <2>3. NoOverflow(amount) => sum = total_amount + amount
    BY <2>1, OverflowIsFound DEF NoOverflow
  <2>4. paid + amount \in Nat
    BY <2>1
  <2> HIDE DEF sum
  <2> QED
    BY <1>2, <1>3, <2>1, <2>2, <2>3, <2>4 DEF AmountTypes
<1>5. CountsKnown' /\ LengthsKnown'
  BY <1>2, <1>3 DEF ParserInv, CountsKnown, LengthsKnown, AfterInputs, AfterOutputs, Results
<1> QED
  BY <1>3, <1>4, <1>5 DEF ParserInv

LEMMA ReadPayloadKeepsInv ==
  ASSUME ParserInv, NEW l \in LengthValues, ReadPayload(l)
  PROVE  ParserInv'
<1> DEFINE size == SizeOf["payload_length"]
           start == (idx + size) % WordMod
<1>1. size \in 1..BufferSize /\ idx \in Nat /\ idx < BufferSize /\ l \in Nat
  BY SizeType DEF Fields, ParserInv, CursorTypes
<1>2. start = idx + size
  <2>1. size \in Nat /\ size <= BufferSize
    BY <1>1
  <2> HIDE DEF size
  <2> QED
    BY <1>1, <2>1, NoWrap
<1>3. /\ at = "payload_length" /\ n' = 0 /\ inputs_count \in 1..CountMax
      /\ UNCHANGED <<blindsigning, inputs_count, outputs_count, data_length,
                     total_amount, paid>>
  BY DEF ReadPayload, amounts, ParserInv, CountsKnown, AfterInputs
<1>4. CASE Fits(size) /\ SumIsLower(start, l)
  <2>1. /\ idx' = (idx + (size + l)) % WordMod /\ consumed' = consumed + (size + l)
        /\ length' = idx' /\ at' = "bip32"
    BY <1>4 DEF ReadPayload, Advance
  <2>2. start < BufferSize /\ l < BufferSize /\ (start + l) % WordMod < BufferSize
    BY <1>4 DEF SumIsLower
  <2>3. (start + l) % WordMod = start + l
    <3>1. start \in Nat /\ l \in Nat /\ l <= BufferSize
      BY <1>1, <1>2, <2>2
    <3> HIDE DEF start
    <3> QED
      BY <2>2, <3>1, NoWrap
  <2>4. idx + (size + l) = start + l
    BY <1>1, <1>2
  <2> HIDE DEF start, size
  <2>5. idx' = idx + (size + l) /\ idx' < BufferSize
    BY <2>1, <2>2, <2>3, <2>4
  <2>6. CursorTypes'
    BY <1>1, <1>3, <2>1, <2>5 DEF ParserInv, CursorTypes, Fields
  <2>7. AmountTypes' /\ CountsKnown'
    BY <1>3, <2>1 DEF ParserInv, AmountTypes, CountsKnown, AfterInputs, AfterOutputs, Results
  <2>8. LengthsKnown'
    BY <1>1, <1>3, <2>1, <2>5 DEF LengthsKnown
  <2> QED
    BY <2>6, <2>7, <2>8 DEF ParserInv
<1>5. CASE ~(Fits(size) /\ SumIsLower(start, l))
  <2>1. at' = "rejected" /\ UNCHANGED <<idx, consumed, length>>
    BY <1>5 DEF ReadPayload, Reject
  <2> QED
    BY <1>3, <2>1 DEF ParserInv, CursorTypes, AmountTypes, CountsKnown, LengthsKnown,
                      AfterInputs, AfterOutputs, Results
<1> QED
  BY <1>4, <1>5

LEMMA ReadBip32KeepsInv ==
  ASSUME ParserInv, NEW valid \in BOOLEAN, ReadBip32(valid)
  PROVE  ParserInv'
<1> DEFINE size == SizeOf["bip32"]
           next == IF n + 1 < inputs_count THEN "bip32"
                   ELSE IF blindsigning \/ NoDuplicates THEN "accepted" ELSE "rejected"
<1>1. next \in Fields \cup Results /\ size \in 1..BufferSize
  BY SizeType DEF Fields, Results
<1>2. /\ data_length' = IF idx' # idx /\ n + 1 = inputs_count THEN idx' ELSE data_length
      /\ UNCHANGED <<blindsigning, inputs_count, outputs_count, length, total_amount, paid>>
  BY DEF ReadBip32, amounts
<1>3. /\ at = "bip32" /\ CursorTypes'
      /\ \/ at' = next /\ idx' = idx + size
         \/ at' = "rejected" /\ idx' = idx
  BY <1>1, <1>2, ReadMoves DEF ParserInv, ReadBip32
<1>4. AmountTypes'
  BY <1>2, <1>3 DEF ParserInv, AmountTypes
<1>5. CountsKnown'
  BY <1>2, <1>3 DEF ParserInv, CountsKnown, AfterInputs, AfterOutputs, Results
<1>6. LengthsKnown'
  <2>1. /\ length \in 1..idx /\ n \in 0..(inputs_count - 1) /\ inputs_count \in Nat
        /\ idx \in Nat /\ size \in Nat /\ size > 0
    BY <1>1, <1>3 DEF ParserInv, LengthsKnown, CursorTypes, CountsKnown, AfterInputs
  <2>2. n' = n + 1
    BY DEF ReadBip32
  <2>3. at' = "bip32" => idx' = idx + size /\ n + 1 < inputs_count
    BY <1>3
  <2>4. at' = "accepted" => idx' = idx + size /\ ~(n + 1 < inputs_count)
    BY <1>3
  <2>5. at' # "inputs_count"
    BY <1>3
  <2> HIDE DEF size, next
  <2>6. at' = "bip32" => length' \in 1..idx' /\ n' \in 0..(inputs_count' - 1)
    BY <1>2, <2>1, <2>2, <2>3
  <2>7. at' = "accepted" => length' \in 1..(idx' - 1) /\ data_length' = idx'
    BY <1>2, <2>1, <2>4
  <2> QED
    BY <2>5, <2>6, <2>7 DEF LengthsKnown
<1> QED
  BY <1>3, <1>4, <1>5, <1>6 DEF ParserInv

-----------------------------------------------------------------------------

LEMMA NextParserInv == ParserInv /\ [Next]_parserVars => ParserInv'
<1> SUFFICES ASSUME ParserInv, [Next]_parserVars PROVE ParserInv'
  OBVIOUS
<1>1. CASE UNCHANGED parserVars
  BY <1>1 DEF parserVars, counts, lengths, amounts, ParserInv, CursorTypes, AmountTypes,
              CountsKnown, LengthsKnown
<1>2. CASE Next
  BY <1>2, ReadSkippedKeepsInv, ReadBip32KeepsInv, ReadInputsCountKeepsInv,
     ReadOutputsCountKeepsInv, ReadInputKeepsInv, ReadOutputKeepsInv, ReadPayloadKeepsInv
     DEF Next
<1> QED
  BY <1>1, <1>2

LEMMA ParserInvInvariant == Spec => []ParserInv
  BY InitParserInv, NextParserInv, PTL DEF Spec

LEMMA ParserInvImplies == ParserInv => CursorInBuffer /\ AmountsAddUp /\ WellFormedResult
<1> SUFFICES ASSUME ParserInv PROVE CursorInBuffer /\ AmountsAddUp /\ WellFormedResult
  OBVIOUS
<1>1. CursorInBuffer /\ AmountsAddUp
  BY DEF ParserInv, CursorTypes, AmountTypes, CursorInBuffer, AmountsAddUp
<1>2. WellFormedResult
  BY DEF ParserInv, CursorTypes, CountsKnown, LengthsKnown, AfterInputs, AfterOutputs,
         WellFormedResult
<1> QED
  BY <1>1, <1>2

\* No sequence of fields makes the parsers read outside the buffer: not an unchecked
\* count, not a payload length close to the wrap-around of the cursor.
THEOREM ParserStaysInBuffer == Spec => []CursorInBuffer
  BY ParserInvInvariant, ParserInvImplies, PTL

\* The amounts of a transaction that is not rejected are a sum on 64 bits: the test
\* "total_amount >= tmp.amount" of each output finds every wrap-around.
THEOREM ParserAddsAmounts == Spec => []AmountsAddUp
  BY ParserInvInvariant, ParserInvImplies, PTL

\* What is accepted has counts and lengths in range: DecodeAssumption of ApiContext.
THEOREM ParserResultIsWellFormed == Spec => []WellFormedResult
  BY ParserInvInvariant, ParserInvImplies, PTL

-----------------------------------------------------------------------------
(* The inputs of a transaction.                                                 *)

\* How many inputs have been read; all pairs are compared before accepting.
InputsKnown ==
  /\ inputs \in Seq(Ids)
  /\ ~blindsigning =>
       /\ at \in {"essence_type", "network_id", "inputs_count"} => inputs = <<>>
       /\ at = "input" => n = Len(inputs) /\ n < inputs_count
       /\ at \in AfterInputs \ {"input"} => Len(inputs) = inputs_count
       /\ at = "accepted" => NoDuplicates

LEMMA InitInputs == Init => InputsKnown
BY DEF Init, InputsKnown, AfterInputs, NoDuplicates

LEMMA NextInputs == ParserInv /\ InputsKnown /\ [Next]_parserVars => InputsKnown'
<1> SUFFICES ASSUME ParserInv, InputsKnown, [Next]_parserVars PROVE InputsKnown'
  OBVIOUS
<1>0. inputs \in Seq(Ids) /\ Len(inputs) \in Nat
  BY DEF InputsKnown
<1>1. ASSUME NEW valid \in BOOLEAN, ReadSkipped(valid) PROVE InputsKnown'
  <2>1. UNCHANGED <<blindsigning, inputs, inputs_count, n>>
    BY <1>1 DEF ReadSkipped, counts
  <2>2. \/ at' = "rejected"
        \/ at = "essence_type" /\ at' = "network_id"
        \/ at = "network_id" /\ at' = "inputs_count"
        \/ at = "commitment" /\ at' = "outputs_count"
        \/ at = "hash" /\ at' = "inputs_count"
    BY <1>1 DEF ReadSkipped, Read, Reject
  <2>3. at = "hash" => blindsigning
    BY DEF ParserInv, CountsKnown
  <2> QED
    BY <2>1, <2>2, <2>3 DEF InputsKnown, AfterInputs
<1>2. ASSUME NEW c \in CountValues, ReadInputsCount(c) PROVE InputsKnown'
  <2>1. UNCHANGED <<blindsigning, inputs>> /\ n' = 0 /\ at = "inputs_count"
    BY <1>2 DEF ReadInputsCount, Read
  <2>2. \/ at' = "rejected"
        \/ at' = (IF blindsigning THEN "bip32" ELSE "input") /\ inputs_count' = c
           /\ CountIsValid(c)
    BY <1>2 DEF ReadInputsCount, Read, Reject
  <2>3. ~blindsigning => inputs = <<>> /\ Len(inputs) = 0
    BY <2>1 DEF InputsKnown
  <2>4. CountIsValid(c) => 0 < c
    BY DEF CountIsValid
  <2> QED
    BY <2>1, <2>2, <2>3, <2>4 DEF InputsKnown, AfterInputs
<1>3. ASSUME NEW id \in Ids, NEW valid \in BOOLEAN, ReadInput(id, valid) PROVE InputsKnown'
  <2>1. UNCHANGED <<blindsigning, inputs_count>> /\ n' = n + 1 /\ at = "input"
    BY <1>3 DEF ReadInput, Read
  <2>2. \/ at' = "rejected" /\ inputs' = inputs
        \/ /\ at' = (IF n + 1 = inputs_count THEN "commitment" ELSE "input")
           /\ inputs' = Append(inputs, id)
    BY <1>3 DEF ReadInput, Read, Reject
  <2>3. Append(inputs, id) \in Seq(Ids) /\ Len(Append(inputs, id)) = Len(inputs) + 1
    BY <1>0
  <2>4. inputs_count \in Nat
    BY <2>1 DEF ParserInv, CountsKnown, AfterInputs
  <2>5. ~blindsigning => n = Len(inputs) /\ n < inputs_count
    BY <2>1 DEF InputsKnown
  <2>6. CASE at' = "rejected" /\ inputs' = inputs
    BY <1>0, <2>1, <2>6 DEF InputsKnown, AfterInputs
  <2>7. CASE /\ at' = (IF n + 1 = inputs_count THEN "commitment" ELSE "input")
             /\ inputs' = Append(inputs, id)
    <3>1. inputs' \in Seq(Ids) /\ Len(inputs') = Len(inputs) + 1
      BY <2>3, <2>7
    <3>2. ~blindsigning => /\ at' = "input" => n' = Len(inputs') /\ n' < inputs_count'
                           /\ at' = "commitment" => Len(inputs') = inputs_count'
      BY <1>0, <2>1, <2>4, <2>5, <2>7, <3>1
    <3> QED
      BY <2>1, <2>7, <3>1, <3>2 DEF InputsKnown
  <2> QED
    BY <2>2, <2>6, <2>7
<1>4. ASSUME NEW c \in CountValues, ReadOutputsCount(c) PROVE InputsKnown'
  <2>1. UNCHANGED <<blindsigning, inputs, inputs_count>> /\ at = "outputs_count"
        /\ at' \in {"output", "rejected"}
    BY <1>4 DEF ReadOutputsCount, Read, Reject
  <2> QED
    BY <2>1 DEF InputsKnown, AfterInputs
<1>5. ASSUME NEW amount \in AmountValues, NEW valid \in BOOLEAN, ReadOutput(amount, valid)
      PROVE  InputsKnown'
  <2>1. UNCHANGED <<blindsigning, inputs, inputs_count>> /\ at = "output"
        /\ at' \in {"output", "payload_length", "rejected"}
    BY <1>5 DEF ReadOutput, Read, Reject
  <2> QED
    BY <2>1 DEF InputsKnown, AfterInputs
<1>6. ASSUME NEW l \in LengthValues, ReadPayload(l) PROVE InputsKnown'
  <2>1. UNCHANGED <<blindsigning, inputs, inputs_count>> /\ at = "payload_length"
        /\ at' \in {"bip32", "rejected"}
    BY <1>6 DEF ReadPayload, Reject
  <2> QED
    BY <2>1 DEF InputsKnown, AfterInputs
<1>7. ASSUME NEW valid \in BOOLEAN, ReadBip32(valid) PROVE InputsKnown'
  <2>1. UNCHANGED <<blindsigning, inputs, inputs_count>> /\ at = "bip32"
        /\ at' \in {"bip32", "accepted", "rejected"}
        /\ (at' = "accepted" => blindsigning \/ NoDuplicates)
    BY <1>7 DEF ReadBip32, Read, Reject
  <2>2. NoDuplicates => NoDuplicates'
    BY <2>1 DEF NoDuplicates
  <2> QED
    BY <2>1, <2>2 DEF InputsKnown, AfterInputs
<1>8. CASE UNCHANGED parserVars
  BY <1>8 DEF parserVars, counts, InputsKnown, NoDuplicates
<1> QED
  BY <1>1, <1>2, <1>3, <1>4, <1>5, <1>6, <1>7, <1>8 DEF Next

\* Sequences without duplicates have as many elements as places.
LEMMA DistinctAreMany ==
  ASSUME InputsKnown, NoDuplicates
  PROVE  Cardinality({ inputs[i] : i \in 1..Len(inputs) }) = Len(inputs)
<1> DEFINE S == { inputs[i] : i \in 1..Len(inputs) }
           f == [i \in 1..Len(inputs) |-> inputs[i]]
<1>1. Len(inputs) \in Nat
  BY DEF InputsKnown
<1>2. \A i, j \in 1..Len(inputs) : inputs[i] = inputs[j] => i = j
  <2> SUFFICES ASSUME NEW i \in 1..Len(inputs), NEW j \in 1..Len(inputs),
                      inputs[i] = inputs[j]
               PROVE  i = j
    OBVIOUS
  <2>1. i < j \/ j < i \/ i = j
    BY <1>1
  <2> QED
    BY <2>1 DEF NoDuplicates
<1>3. f \in Bijection(1..Len(inputs), S)
  BY <1>2 DEF Bijection, Injection, Surjection, IsInjective
<1>4. ExistsBijection(1..Len(inputs), S)
  BY <1>3 DEF ExistsBijection
<1>5. IsFiniteSet(1..Len(inputs)) /\ Cardinality(1..Len(inputs)) = Len(inputs)
  <2>1. 1 \in Int /\ Len(inputs) \in Int
    BY <1>1
  <2>2. /\ IsFiniteSet(1..Len(inputs))
        /\ Cardinality(1..Len(inputs)) = IF 1 > Len(inputs) THEN 0 ELSE Len(inputs) - 1 + 1
    BY <2>1, FS_Interval
  <2> QED
    BY <1>1, <2>2
<1> QED
  BY <1>4, <1>5, FS_Bijection

\* However the equal inputs are placed, a transaction with two of them is rejected: the
\* inputs of an accepted transaction are inputs_count different ones.
THEOREM ParserFindsDuplicates == Spec => []InputsAreDistinct
<1>1. ParserInv /\ InputsKnown => InputsAreDistinct
  BY DistinctAreMany DEF InputsKnown, InputsAreDistinct, AfterInputs
<1> QED
  BY <1>1, InitInputs, NextInputs, ParserInvInvariant, PTL DEF Spec
================================================================================
