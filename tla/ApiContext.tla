------------------------------ MODULE ApiContext ------------------------------
(* The global API_CTX api (src/src/api.h): derivation path, application mode,  *)
(* data buffer with its type, and the parsed essence; how it is initialised     *)
(* and wiped, and how the buffer is decoded and checked against the wallet.     *)
(*                                                                              *)
(* The bytes of the buffer are abstract: the host's part is a function from    *)
(* block numbers to block contents, the device's part is the sequence of        *)
(* addresses written over it.  What the parser makes of a buffer is the         *)
(* constant Decode.  A 32-bit word keeps its most significant bit: words are    *)
(* 0..2*Hardened-1 and the bit is set from Hardened on.                         *)
EXTENDS Integers, Sequences, FiniteSets

CONSTANTS
  App,               \* "IOTA" or "SHIMMER": APP_IOTA / APP_SHIMMER
  Debug,             \* APP_DEBUG: whether the debug commands are compiled in
  Hardened,          \* the value of the most significant bit of a word
  BlockCount,        \* DATA_BLOCK_COUNT
  BlockData,         \* contents of one data block
  ZeroBlock,         \* a block of zero bytes
  Hashes,            \* essence hashes
  ZeroHash,          \* 32 zero bytes
  Foreign,           \* addresses no key of this device owns
  BufferSize,        \* API_BUFFER_SIZE_BYTES
  InputsMax,         \* INPUTS_MAX_COUNT_STARDUST
  OutputsMax,        \* OUTPUTS_MAX_COUNT_STARDUST
  Decode,            \* Decode[blindsigning][blocks]: what the parser reads
  Malformed          \* the parser rejects the buffer

VARIABLE api

UInt32 == 0..(2 * Hardened - 1)

IsHardened(v) == v >= Hardened

-----------------------------------------------------------------------------
(* Application modes: the low 7 bits choose the network, bit 7 its testnet.   *)

IotaStardust    == 1
ShimmerClaiming == 2
Shimmer         == 3
AppModes        == 0..255

BaseMode(app_mode) == app_mode % 128

APP_MODE_INIT == IF App = "IOTA" THEN IotaStardust ELSE Shimmer

\* The cases of the switch in api_initialize that are compiled in.
SupportedBaseModes ==
  IF App = "IOTA" THEN {IotaStardust} ELSE {ShimmerClaiming, Shimmer}

Coin(app_mode) ==
  IF app_mode >= 128 THEN "testnet"
  ELSE IF BaseMode(app_mode) = Shimmer THEN "shimmer" ELSE "iota"

-----------------------------------------------------------------------------
(* Paths, addresses and essences.                                              *)

Paths == [coin : {"iota", "shimmer", "testnet"}, account : UInt32,
          bip32_change : UInt32, bip32_index : UInt32]

\* address_generate: one address for each path, none of them foreign.
AddressOf(path) == [key |-> path]

Addresses == Foreign \cup [key : Paths]

Blocks == [0..(BlockCount - 1) -> BlockData]

Bip32Indices == [bip32_index : UInt32, bip32_change : UInt32]

\* What essence_parse_and_validate and parse_and_validate_blindsigning read.
Essences ==
  [inputs : Seq(Bip32Indices), outputs : Seq([address : Addresses, amount : Nat]),
   length : 0..(BufferSize - 1), data_length : 0..(BufferSize - 1), hash : Hashes]

WellFormed(e, blind) ==
  /\ e \in Essences
  /\ e.length <= e.data_length
  /\ Len(e.inputs) \in 1..InputsMax
  /\ IF blind THEN e.outputs = <<>> ELSE Len(e.outputs) \in 1..OutputsMax

BlankEssence ==
  [inputs_count |-> 0, outputs_count |-> 0, length |-> 0, blindsigning |-> FALSE,
   has_remainder |-> FALSE, remainder_index |-> 0, remainder_bip32_index |-> 0,
   remainder_bip32_change |-> 0, is_internal_transfer |-> FALSE, hash |-> ZeroHash]

DataTypes == {"EMPTY", "GENERATED_ADDRESSES", "VALIDATED_ESSENCE",
              "USER_CONFIRMED_ESSENCE", "LOCKED"}

\* The types of ESSENCE and API_CTX.
ParsedTypes ==
  [inputs_count : 0..InputsMax, outputs_count : 0..OutputsMax,
   length : 0..(BufferSize - 1), blindsigning : BOOLEAN,
   has_remainder : BOOLEAN, remainder_index : 0..(OutputsMax - 1),
   remainder_bip32_index : UInt32, remainder_bip32_change : UInt32,
   is_internal_transfer : BOOLEAN, hash : Hashes]

ApiTypes ==
  [path : Paths, app_mode : AppModes, type : DataTypes,
   blocks : Blocks, addresses : Seq(Addresses), length : 0..(BufferSize - 1),
   essence : ParsedTypes, flow_locked : BOOLEAN, non_interactive_mode : BOOLEAN]

ASSUME ApiAssumption ==
  /\ App \in {"IOTA", "SHIMMER"}
  /\ Debug \in BOOLEAN
  /\ Hardened \in Nat \ {0}
  /\ BlockCount \in Nat \ {0}
  /\ ZeroBlock \in BlockData
  /\ ZeroHash \in Hashes
  /\ BufferSize \in Nat \ {0}
  /\ InputsMax \in 1..255
  /\ OutputsMax \in Nat \ {0}

\* Only what EssenceParser establishes about the decoders.
ASSUME DecodeAssumption ==
  \A blind \in BOOLEAN, blocks \in Blocks :
    Decode[blind][blocks] # Malformed => WellFormed(Decode[blind][blocks], blind)

-----------------------------------------------------------------------------
(* Initialising and wiping.                                                    *)

ZeroBlocks == [n \in 0..(BlockCount - 1) |-> ZeroBlock]

\* The context after api_initialize.
ApiInitial(app_mode, account) ==
  [path |-> [coin |-> Coin(app_mode), account |-> account,
             bip32_change |-> 0, bip32_index |-> 0],
   app_mode |-> app_mode, type |-> "EMPTY", blocks |-> ZeroBlocks,
   addresses |-> <<>>, length |-> 0, essence |-> BlankEssence,
   flow_locked |-> FALSE, non_interactive_mode |-> FALSE]

\* Mutants of ApiCleared: the lock or the data type survives.
ClearedKeepsLock(a) ==
  [ApiInitial(a.app_mode, a.path.account) EXCEPT
     !.non_interactive_mode = a.non_interactive_mode, !.flow_locked = a.flow_locked]

ClearedKeepsType(a) ==
  [ApiInitial(a.app_mode, a.path.account) EXCEPT
     !.non_interactive_mode = a.non_interactive_mode, !.type = a.type]

\* api_clear_data: mode, account and the debug flag survive, nothing else.
ApiCleared(a) ==
  [ApiInitial(a.app_mode, a.path.account) EXCEPT
     !.non_interactive_mode = a.non_interactive_mode]

\* An account was selected through the api.
AccountIsSet == IsHardened(api.path.account)

-----------------------------------------------------------------------------
(* The decoded buffer.  Inputs and outputs are pointers into the live buffer,  *)
(* while counts, lengths and hash are copies made when it was parsed.          *)

LiveEssence == Decode[api.essence.blindsigning][api.blocks]
Inputs  == LiveEssence.inputs
Outputs == LiveEssence.outputs

InputPath(path, input) ==
  [path EXCEPT !.bip32_index  = input.bip32_index,
               !.bip32_change = input.bip32_change]

\* check_for_internal_transfer: a single output, without a remainder, on the key
\* of one of the inputs; never when claiming.
IsInternalTransfer(a, e, has_remainder) ==
  /\ Len(e.outputs) = 1 /\ ~has_remainder
  /\ a.app_mode # ShimmerClaiming
  /\ \E i \in 1..Len(e.inputs) :
       e.outputs[1].address = AddressOf(InputPath(a.path, e.inputs[i]))

RemainderPath(path, r) ==
  [path EXCEPT !.bip32_index = r.bip32_index, !.bip32_change = r.bip32_change]

\* essence_verify_remainder_address: output r.index pays the wallet's own key.
RemainderVerified(path, e, r) ==
  /\ r.index < Len(e.outputs)
  /\ IsHardened(r.bip32_change) /\ IsHardened(r.bip32_index)
  /\ e.outputs[r.index + 1].address = AddressOf(RemainderPath(path, r))
================================================================================
