----------------------------- MODULE EssenceParser -----------------------------
(* The cursor arithmetic of the two parsers (essence_stardust.c and               *)
(* blindsigning_stardust.c): the fields are read one after the other from a       *)
(* buffer the host has filled with arbitrary bytes.  What a field holds is chosen *)
(* freely; what the parser does with its cursor idx, with counts, lengths and     *)
(* amounts is exact, on words of WordMod (uint32_t) and AmountMod (uint64_t).     *)
(*                                                                                *)
(* LedgerApp uses the result as Decode; DecodeAssumption is WellFormedResult.     *)
EXTENDS Integers, Sequences, FiniteSets

CONSTANTS
  BufferSize,        \* API_BUFFER_SIZE_BYTES
  WordMod,           \* 2^32
  AmountMod,         \* 2^64
  CountMax,          \* INPUTS_MAX_COUNT_STARDUST, OUTPUTS_MAX_COUNT_STARDUST
  SizeOf,            \* sizes in bytes of the fields
  Ids,               \* contents of an input: transaction id and output number
  CountValues, LengthValues, AmountValues   \* values read from the buffer

Fields == {"essence_type", "network_id", "inputs_count", "input", "commitment",
           "outputs_count", "output", "payload_length", "bip32", "hash"}

ASSUME ParserAssumption ==
  /\ BufferSize \in Nat /\ WordMod \in Nat /\ AmountMod \in Nat
  /\ CountMax \in Nat
  /\ 0 < BufferSize /\ 2 * BufferSize <= WordMod /\ 1 < AmountMod
  /\ SizeOf \in [Fields -> 1..BufferSize]
  /\ CountValues \subseteq Nat /\ LengthValues \subseteq 0..(WordMod - 1)
  /\ AmountValues \subseteq 0..(AmountMod - 1)

VARIABLES
  blindsigning,      \* which of the two parsers runs
  at,                \* the field the parser is at, or its result
  idx,               \* its cursor
  inputs,            \* the inputs read
  inputs_count, outputs_count,
  n,                 \* elements read in the loop of the current field
  total_amount,
  length,            \* api.essence.length
  data_length,       \* api.data.length
  consumed,          \* bytes before the cursor, as a number        (history)
  paid               \* sum of the amounts, as a number             (history)

counts  == <<inputs, inputs_count, outputs_count, n>>
lengths == <<length, data_length>>
amounts == <<total_amount, paid>>
parserVars ==
  <<blindsigning, at, idx, counts, lengths, amounts, consumed>>

Results == {"accepted", "rejected"}

Init ==
  /\ blindsigning \in BOOLEAN
  /\ at = IF blindsigning THEN "hash" ELSE "essence_type"
  /\ idx = 0 /\ consumed = 0
  /\ inputs = <<>> /\ inputs_count = 0 /\ outputs_count = 0 /\ n = 0
  /\ total_amount = 0 /\ paid = 0
  /\ length = 0 /\ data_length = 0

-----------------------------------------------------------------------------

\* The bounds check of every getter and loop, in uint32_t arithmetic.
Fits(size) == (idx + size) % WordMod < BufferSize

Advance(size) == /\ idx' = (idx + size) % WordMod
                 /\ consumed' = consumed + size

\* Mutant of SumIsLower: only the sum is compared.
SumIsLowerWrapping(a, b) == (a + b) % WordMod < BufferSize

\* MUST_SUM_LOWER_THAN: the sum cannot have wrapped around.
SumIsLower(a, b) ==
  a < BufferSize /\ b < BufferSize /\ (a + b) % WordMod < BufferSize

Reject == at' = "rejected" /\ UNCHANGED <<idx, consumed>>

\* Move past a field of the given size to the next one, if it is in the buffer
\* and its content is valid.
Read(field, next, size, valid) ==
  /\ at = field
  /\ IF Fits(size) /\ valid THEN Advance(size) /\ at' = next ELSE Reject

\* Mutant of CountIsValid: the maximum is not enforced.
CountIsPositive(c) == c >= 1

CountIsValid(c) == c >= 1 /\ c <= CountMax

-----------------------------------------------------------------------------
(* The fields in the order of essence_parse_and_validate_stardust.             *)

\* Essence type, network id and inputs commitment; only the type is checked.
ReadSkipped(valid) ==
  /\ \/ Read("essence_type", "network_id", SizeOf["essence_type"], valid)
     \/ Read("network_id", "inputs_count", SizeOf["network_id"], TRUE)
     \/ Read("commitment", "outputs_count", SizeOf["commitment"], TRUE)
     \/ Read("hash", "inputs_count", SizeOf["hash"], TRUE)
  /\ length' = IF blindsigning /\ at' # "rejected" THEN idx' ELSE length
  /\ UNCHANGED <<blindsigning, counts, data_length, amounts>>

\* validate_inputs, and the count of parse_and_validate_blindsigning.
ReadInputsCount(c) ==
  /\ Read("inputs_count", IF blindsigning THEN "bip32" ELSE "input",
          SizeOf["inputs_count"], CountIsValid(c))
  /\ inputs_count' = IF at' = "rejected" THEN inputs_count ELSE c
  /\ n' = 0
  /\ UNCHANGED <<blindsigning, inputs, outputs_count, lengths, amounts>>

\* One turn of the loop over the inputs; valid: type and output number.
ReadInput(id, valid) ==
  /\ Read("input", IF n + 1 = inputs_count THEN "commitment" ELSE "input",
          SizeOf["input"], valid)
  /\ inputs' = IF at' = "rejected" THEN inputs ELSE Append(inputs, id)
  /\ n' = n + 1
  /\ UNCHANGED <<blindsigning, inputs_count, outputs_count, lengths, amounts>>

\* validate_outputs.
ReadOutputsCount(c) ==
  /\ Read("outputs_count", "output", SizeOf["outputs_count"], CountIsValid(c))
  /\ outputs_count' = IF at' = "rejected" THEN outputs_count ELSE c
  /\ n' = 0
  /\ UNCHANGED <<blindsigning, inputs, inputs_count, lengths, amounts>>

\* Mutant of NoOverflow: the sum is checked before it is taken.
NoOverflowLate(amount) == total_amount >= 0

\* "detect overflows": the sum on 64 bits is not below the amount just added.
NoOverflow(amount) == (total_amount + amount) % AmountMod >= amount

\* One turn of the loop over the outputs; valid: the enforced constants.
ReadOutput(amount, valid) ==
  /\ Read("output", IF n + 1 = outputs_count THEN "payload_length" ELSE "output",
          SizeOf["output"], valid /\ amount > 0 /\ NoOverflow(amount))
  /\ total_amount' = (total_amount + amount) % AmountMod
  /\ paid' = paid + amount
  /\ n' = n + 1
  /\ UNCHANGED <<blindsigning, inputs, inputs_count, outputs_count, lengths>>

\* validate_payload: the length word, then the payload itself is skipped.
ReadPayload(l) ==
  LET start == (idx + SizeOf["payload_length"]) % WordMod
  IN  /\ at = "payload_length"
      /\ IF Fits(SizeOf["payload_length"]) /\ SumIsLower(start, l)
           THEN /\ Advance(SizeOf["payload_length"] + l)
                /\ length' = idx'
                /\ at' = "bip32"
           ELSE Reject /\ UNCHANGED length
      /\ n' = 0
      /\ UNCHANGED <<blindsigning, inputs, inputs_count, outputs_count, data_length, amounts>>

\* Mutant of NoDuplicates: only neighbours are compared.
NoDuplicateNeighbours ==
  \A i \in 1..(Len(inputs) - 1) : inputs[i] # inputs[i + 1]

\* validate_inputs_duplicates compares every pair.
NoDuplicates == \A i, j \in 1..Len(inputs) : i < j => inputs[i] # inputs[j]

\* One turn of the loop over the bip32 indices; valid: both are hardened.  The
\* last one ends the parsing; duplicates are looked for afterwards.
ReadBip32(valid) ==
  /\ Read("bip32", IF n + 1 < inputs_count THEN "bip32"
                   ELSE IF blindsigning \/ NoDuplicates THEN "accepted" ELSE "rejected",
          SizeOf["bip32"], valid)
  /\ data_length' = IF idx' # idx /\ n + 1 = inputs_count THEN idx' ELSE data_length
  /\ n' = n + 1
  /\ UNCHANGED <<blindsigning, inputs, inputs_count, outputs_count, length, amounts>>

Next ==
  \/ \E valid \in BOOLEAN : ReadSkipped(valid) \/ ReadBip32(valid)
  \/ \E c \in CountValues : ReadInputsCount(c) \/ ReadOutputsCount(c)
  \/ \E id \in Ids, valid \in BOOLEAN : ReadInput(id, valid)
  \/ \E amount \in AmountValues, valid \in BOOLEAN : ReadOutput(amount, valid)
  \/ \E l \in LengthValues : ReadPayload(l)

Spec == Init /\ [][Next]_parserVars

-----------------------------------------------------------------------------

\* The cursor never leaves the buffer and never wraps around, so each field is read
\* from the bytes that follow the field before it, all of them in the buffer.
CursorInBuffer == idx = consumed /\ consumed < BufferSize

\* Amounts of an essence that is not rejected add up without wrapping around.
AmountsAddUp == at # "rejected" => total_amount = paid

\* The inputs of an accepted transaction are as many as it says, all different.
InputsAreDistinct ==
  at = "accepted" /\ ~blindsigning =>
    Cardinality({ inputs[i] : i \in 1..Len(inputs) }) = inputs_count

\* What the rest of the program relies on (DecodeAssumption of ApiContext): counts
\* in range, and an essence that ends inside the data that ends inside the buffer.
WellFormedResult ==
  at = "accepted" =>
    /\ inputs_count \in 1..CountMax
    /\ IF blindsigning THEN outputs_count = 0 ELSE outputs_count \in 1..CountMax
    /\ 0 < length /\ length < data_length /\ data_length = idx
    /\ data_length < BufferSize
================================================================================
