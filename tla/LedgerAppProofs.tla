---------------------------- MODULE LedgerAppProofs ----------------------------
(* Proofs about LedgerApp for every value of its constants: first the properties  *)
(* of every environment, then those of one that is Undisturbed (one command at a   *)
(* time, no amount beyond the display).  The last of them: LedgerApp implements    *)
(* SigningSession, each step of it being a step of the session, seen through the   *)
(* mapping of LedgerAppProperties, or a stutter.                                   *)
EXTENDS LedgerAppProperties, SigningProofs

-----------------------------------------------------------------------------
(* Arithmetic of words and of the tick count.                                   *)

LEMMA ModInRange ==
  ASSUME NEW m \in Nat \ {0}, NEW x \in Int
  PROVE  x % m \in 0..(m - 1)
  BY SMT

LEMMA ModOfSmall ==
  ASSUME NEW m \in Nat \ {0}, NEW x \in 0..(m - 1)
  PROVE  x % m = x
  BY SMT

LEMMA ModOfNext ==
  ASSUME NEW m \in Nat \ {0}, NEW x \in m..(2 * m - 1)
  PROVE  x % m = x - m
  BY SMT

-----------------------------------------------------------------------------
(* The context as a value: what holds of every context the program builds.      *)

\* The address of a fully hardened path.
OnHardenedPath(address) ==
  /\ IsHardened(address.key.account) /\ IsHardened(address.key.bip32_index)
  /\ address.key.bip32_change \in {Hardened, Hardened + 1}

\* The typed context whose empty buffer is wiped, whose addresses are hardened, and
\* whose parsed essence, if it has one, is what its buffer reads as; reviews are
\* skipped in debug builds only.
Sound(a) ==
  /\ a \in ApiTypes
  /\ \A i \in DOMAIN a.addresses : OnHardenedPath(a.addresses[i])
  /\ a.type = "EMPTY" => /\ ~a.flow_locked
                         /\ a.essence = BlankEssence
                         /\ a.addresses = <<>> /\ a.length = 0
  /\ a.non_interactive_mode => Debug
  /\ a.essence.inputs_count > 0 =>
       LET e == Decode[a.essence.blindsigning][a.blocks]
       IN  /\ e # Malformed
           /\ e.hash = a.essence.hash
           /\ Len(e.inputs) = a.essence.inputs_count
           /\ Len(e.outputs) = a.essence.outputs_count

USE ApiAssumption

\* A fresh context is sound.
LEMMA InitialIsSound ==
  ASSUME NEW app_mode \in AppModes, NEW account \in UInt32
  PROVE  Sound(ApiInitial(app_mode, account))
<1>1. Coin(app_mode) \in {"iota", "shimmer", "testnet"}
  BY DEF Coin
<1>2. ZeroBlocks \in Blocks
  BY DEF ZeroBlocks, Blocks
<1>3. 0 \in UInt32 /\ 0 \in 0..(BufferSize - 1) /\ 0 \in 0..InputsMax
      /\ 0 \in 0..OutputsMax /\ 0 \in 0..(OutputsMax - 1)
  BY DEF UInt32
<1>4. BlankEssence \in ParsedTypes
  BY <1>3 DEF BlankEssence, ParsedTypes
<1>5. ApiInitial(app_mode, account) \in ApiTypes
  BY <1>1, <1>2, <1>3, <1>4 DEF ApiInitial, ApiTypes, Paths, DataTypes
<1> QED
  BY <1>5 DEF Sound, ApiInitial, BlankEssence

\* Wiping keeps mode, account and the debug flag.
LEMMA ClearedIsSound ==
  ASSUME NEW a, Sound(a)
  PROVE  Sound(ApiCleared(a))
<1>1. a.app_mode \in AppModes /\ a.path.account \in UInt32
      /\ a.non_interactive_mode \in BOOLEAN
  BY DEF Sound, ApiTypes, Paths
<1> DEFINE b == ApiInitial(a.app_mode, a.path.account)
<1>2. Sound(b)
  BY <1>1, InitialIsSound
<1> HIDE DEF b
<1>3. ApiCleared(a) = [b EXCEPT !.non_interactive_mode = a.non_interactive_mode]
  BY DEF ApiCleared, b
<1> QED
  BY <1>1, <1>2, <1>3 DEF Sound, ApiTypes

\* Host data is only written while no essence leads into the buffer.
LEMMA WrittenIsSound ==
  ASSUME NEW a, Sound(a), a.type = "EMPTY",
         NEW n \in 0..(BlockCount - 1), NEW data \in BlockData
  PROVE  Sound([a EXCEPT !.blocks[n] = data])
<1> DEFINE blocks == [a.blocks EXCEPT ![n] = data]
<1>1. blocks \in Blocks
  BY DEF Sound, ApiTypes, Blocks
<1>2. a.essence.inputs_count = 0
  BY DEF Sound, BlankEssence
<1> HIDE DEF blocks
<1> DEFINE b == [a EXCEPT !.blocks = blocks]
<1>3. b \in ApiTypes
  BY <1>1 DEF Sound, ApiTypes
<1>4. b.type = a.type /\ b.flow_locked = a.flow_locked /\ b.essence = a.essence
      /\ b.addresses = a.addresses /\ b.length = a.length
      /\ b.non_interactive_mode = a.non_interactive_mode
  BY DEF Sound, ApiTypes
<1> HIDE DEF b
<1>5. Sound(b)
  BY <1>2, <1>3, <1>4 DEF Sound
<1> QED
  BY <1>5 DEF b, blocks

\* The debug flag and the type of a buffer in use say nothing about its content.
LEMMA ModeChangeIsSound ==
  ASSUME NEW a, Sound(a), NEW mode \in BOOLEAN, mode => Debug
  PROVE  Sound([a EXCEPT !.non_interactive_mode = mode])
  BY DEF Sound, ApiTypes

LEMMA TypeChangeIsSound ==
  ASSUME NEW a, Sound(a), NEW type \in DataTypes \ {"EMPTY"}
  PROVE  Sound([a EXCEPT !.type = type])
  BY DEF Sound, ApiTypes

LEMMA PathChangeIsSound ==
  ASSUME NEW a, Sound(a), NEW path \in Paths
  PROVE  Sound([a EXCEPT !.path = path])
  BY DEF Sound, ApiTypes

\* The path of an input or a remainder stays in the account.
LEMMA PathInAccount ==
  ASSUME NEW path \in Paths, NEW change \in UInt32, NEW index \in UInt32
  PROVE  /\ [path EXCEPT !.bip32_index = index, !.bip32_change = change] \in Paths
         /\ [path EXCEPT !.bip32_index = index, !.bip32_change = change].coin = path.coin
         /\ [path EXCEPT !.bip32_index = index, !.bip32_change = change].account = path.account
  BY DEF Paths

-----------------------------------------------------------------------------
(* The contexts that the commands build.                                        *)

\* Without a parsed essence there is little to show.
LEMMA UnparsedIsSound ==
  ASSUME NEW a \in ApiTypes, a.type # "EMPTY", a.essence.inputs_count = 0,
         a.non_interactive_mode => Debug,
         \A i \in DOMAIN a.addresses : OnHardenedPath(a.addresses[i])
  PROVE  Sound(a)
  BY DEF Sound

LEMMA RequestType ==
  ASSUME NEW req \in Bip32Requests
  PROVE  /\ req.count \in Nat
         /\ req.bip32_index \in UInt32 /\ req.bip32_index \in Nat
         /\ req.bip32_change \in UInt32
<1>1. req.bip32_index \in UInt32 /\ req.bip32_change \in UInt32
  BY ArgsAssumption DEF Bip32Requests
<1>2. req.count \in 0..(AddressesMax + 1) /\ AddressesMax \in Nat
  BY ArgsAssumption DEF Bip32Requests
<1> QED
  BY <1>1, <1>2 DEF UInt32

LEMMA RequestPathType ==
  ASSUME api.path \in Paths, NEW req \in Bip32Requests, NEW i \in Nat
  PROVE  /\ RequestPath(req, i) \in Paths
         /\ RequestPath(req, i).account = api.path.account
         /\ RequestPath(req, i).bip32_index = (req.bip32_index + i) % (2 * Hardened)
         /\ RequestPath(req, i).bip32_change = req.bip32_change
<1>1. req.bip32_index \in Nat /\ req.bip32_change \in UInt32
  BY RequestType
<1> DEFINE index == (req.bip32_index + i) % (2 * Hardened)
<1>2. index \in UInt32
  <2>1. 2 * Hardened \in Nat \ {0} /\ req.bip32_index + i \in Int
    BY <1>1
  <2>2. index \in 0..(2 * Hardened - 1)
    BY <2>1, ModInRange
  <2> QED
    BY <2>2 DEF UInt32
<1> HIDE DEF index
<1>3. RequestPath(req, i) = [api.path EXCEPT !.bip32_index  = index,
                                             !.bip32_change = req.bip32_change]
  BY DEF RequestPath, index
<1> QED
  BY <1>1, <1>2, <1>3 DEF Paths, index

\* What the generation writes, in one step.
LEMMA GeneratedWrites ==
  ASSUME api \in ApiTypes, NEW req
  PROVE  GeneratedInto(req) =
           [api EXCEPT
              !.type = "LOCKED", !.path = RequestPath(req, req.count),
              !.blocks = ZeroBlocks,
              !.addresses = [i \in 1..req.count |-> AddressOf(RequestPath(req, i - 1))],
              !.length = req.count * AddressSize]
<1> DEFINE path == RequestPath(req, req.count)
           addresses == [i \in 1..req.count |-> AddressOf(RequestPath(req, i - 1))]
           length == req.count * AddressSize
<1>1. GeneratedInto(req) = [DerivedInto(req, req.count) EXCEPT !.length = length]
  BY DEF GeneratedInto, length
<1>2. DerivedInto(req, req.count) =
        [Locked EXCEPT !.path = path, !.blocks = ZeroBlocks, !.addresses = addresses]
  BY DEF DerivedInto, path, addresses
<1> HIDE DEF path, addresses, length
<1>3. GeneratedInto(req) = [api EXCEPT !.type = "LOCKED", !.path = path, !.blocks = ZeroBlocks,
                                       !.addresses = addresses, !.length = length]
  BY <1>1, <1>2 DEF Locked, ApiTypes
<1> QED
  BY <1>3 DEF path, addresses, length

LEMMA GeneratedFields ==
  ASSUME api \in ApiTypes, NEW req
  PROVE  /\ GeneratedInto(req).type = "LOCKED"
         /\ GeneratedInto(req).addresses
              = [i \in 1..req.count |-> AddressOf(RequestPath(req, i - 1))]
         /\ GeneratedInto(req).essence = api.essence
         /\ GeneratedInto(req).non_interactive_mode = api.non_interactive_mode
<1> DEFINE g == GeneratedInto(req)
           path == RequestPath(req, req.count)
           addresses == [i \in 1..req.count |-> AddressOf(RequestPath(req, i - 1))]
           length == req.count * AddressSize
<1>1. g = [api EXCEPT !.type = "LOCKED", !.path = path, !.blocks = ZeroBlocks,
                      !.addresses = addresses, !.length = length]
  BY GeneratedWrites
<1> HIDE DEF g, path, addresses, length
<1>2. /\ g.type = "LOCKED" /\ g.addresses = addresses /\ g.essence = api.essence
      /\ g.non_interactive_mode = api.non_interactive_mode
  BY <1>1 DEF ApiTypes
<1> QED
  BY <1>2 DEF g, addresses

LEMMA GeneratedType ==
  ASSUME Sound(api), NEW req \in Bip32Requests, req.count <= AddressesMax
  PROVE  GeneratedInto(req) \in ApiTypes
<1>1. req.count \in Nat /\ req.count \in 0..AddressesMax
  BY RequestType, ArgsAssumption
<1>2. api.path \in Paths
  BY DEF Sound, ApiTypes
<1> DEFINE path == RequestPath(req, req.count)
           addresses == [i \in 1..req.count |-> AddressOf(RequestPath(req, i - 1))]
           length == req.count * AddressSize
<1>3. path \in Paths
  BY <1>1, <1>2, RequestPathType
<1>4. \A i \in 1..req.count : AddressOf(RequestPath(req, i - 1)) \in Addresses
  <2> TAKE i \in 1..req.count
  <2>1. i - 1 \in Nat
    BY <1>1
  <2>2. RequestPath(req, i - 1) \in Paths
    BY <2>1, <1>2, RequestPathType
  <2> QED
    BY <2>2 DEF AddressOf, Addresses
<1>5. addresses \in Seq(Addresses)
  BY <1>1, <1>4
<1>6. length \in 0..(BufferSize - 1)
  BY <1>1, ArgsAssumption
<1>7. ZeroBlocks \in Blocks
  BY DEF ZeroBlocks, Blocks
<1> HIDE DEF path, addresses, length
<1>8. [api EXCEPT !.type = "LOCKED", !.path = path, !.blocks = ZeroBlocks,
                  !.addresses = addresses, !.length = length] \in ApiTypes
  BY <1>3, <1>5, <1>6, <1>7 DEF Sound, ApiTypes, DataTypes
<1>9. api \in ApiTypes
  BY DEF Sound
<1> QED
  BY <1>8, <1>9, GeneratedWrites DEF path, addresses, length

\* No index of a valid request wraps around, so no path loses a hardened bit.
LEMMA GeneratedAreHardened ==
  ASSUME Sound(api), AccountIsSet, NEW show \in BOOLEAN, NEW req \in Bip32Requests,
         RequestIsValid(show, req), NEW i \in 1..req.count
  PROVE  OnHardenedPath(AddressOf(RequestPath(req, i - 1)))
<1> DEFINE j == i - 1
<1>1. /\ req.bip32_index \in Nat /\ req.bip32_index < 2 * Hardened
      /\ req.count \in Nat /\ req.count <= Hardened
      /\ j \in Nat /\ j < req.count
  BY RequestType, ArgsAssumption DEF UInt32, RequestIsValid
<1>2. /\ req.bip32_index >= Hardened
      /\ (req.bip32_index + req.count) % (2 * Hardened) >= Hardened
      /\ req.bip32_change \in {Hardened, Hardened + 1}
      /\ api.path.account >= Hardened
  BY DEF RequestIsValid, RangeIsHardened, IsHardened, AccountIsSet
<1>3. 2 * Hardened \in Nat \ {0}
  OBVIOUS
<1> HIDE DEF j
<1>4. req.bip32_index + req.count < 2 * Hardened
  <2>1. SUFFICES ASSUME req.bip32_index + req.count >= 2 * Hardened PROVE FALSE
    BY <1>1
  <2>2. req.bip32_index + req.count \in (2 * Hardened)..(2 * (2 * Hardened) - 1)
    BY <2>1, <1>1
  <2>3. (req.bip32_index + req.count) % (2 * Hardened)
          = (req.bip32_index + req.count) - 2 * Hardened
    BY <2>2, <1>3, ModOfNext
  <2> QED
    BY <2>3, <1>1, <1>2
<1>5. (req.bip32_index + j) % (2 * Hardened) = req.bip32_index + j
  <2>1. req.bip32_index + j \in 0..(2 * Hardened - 1)
    BY <1>1, <1>4
  <2> QED
    BY <2>1, <1>3, ModOfSmall
<1>6. api.path \in Paths
  BY DEF Sound, ApiTypes
<1> DEFINE path == RequestPath(req, j)
<1>7. /\ path.account = api.path.account /\ path.bip32_change = req.bip32_change
      /\ path.bip32_index = (req.bip32_index + j) % (2 * Hardened)
  BY <1>1, <1>6, RequestPathType
<1> HIDE DEF path
<1>8. IsHardened(path.account) /\ IsHardened(path.bip32_index)
      /\ path.bip32_change \in {Hardened, Hardened + 1}
  BY <1>1, <1>2, <1>5, <1>7 DEF IsHardened
<1> QED
  BY <1>8 DEF OnHardenedPath, AddressOf, path, j

\* Generating takes an empty buffer into use, so there is no essence in it.
LEMMA GeneratedIsSound ==
  ASSUME Sound(api), api.type = "EMPTY", AccountIsSet,
         NEW show \in BOOLEAN, NEW req \in Bip32Requests, RequestIsValid(show, req)
  PROVE  Sound([GeneratedInto(req) EXCEPT !.type = "GENERATED_ADDRESSES"])
<1> DEFINE g == GeneratedInto(req)
<1>1. g \in ApiTypes
  BY GeneratedType DEF RequestIsValid
<1>2a. \A i \in DOMAIN g.addresses : OnHardenedPath(g.addresses[i])
  <2>1. api \in ApiTypes
    BY DEF Sound
  <2>2. g.addresses = [i \in 1..req.count |-> AddressOf(RequestPath(req, i - 1))]
    BY <2>1, GeneratedFields DEF g
  <2> HIDE DEF g
  <2> QED
    BY <2>2, GeneratedAreHardened
<1>2. g.essence.inputs_count = 0 /\ (g.non_interactive_mode => Debug)
      /\ g.type = "LOCKED"
  <2>1. /\ api \in ApiTypes /\ api.essence.inputs_count = 0
        /\ api.non_interactive_mode => Debug
    BY DEF Sound, BlankEssence
  <2>2. /\ g.essence = api.essence /\ g.type = "LOCKED"
        /\ g.non_interactive_mode = api.non_interactive_mode
    BY <2>1, GeneratedFields DEF g
  <2> HIDE DEF g
  <2> QED
    BY <2>1, <2>2
<1> HIDE DEF g
<1>3. "GENERATED_ADDRESSES" \in DataTypes
  BY DEF DataTypes
<1> DEFINE b == [g EXCEPT !.type = "GENERATED_ADDRESSES"]
<1>4. b \in ApiTypes /\ b.type # "EMPTY" /\ b.essence.inputs_count = 0
      /\ b.addresses = g.addresses /\ (b.non_interactive_mode => Debug)
  BY <1>1, <1>2, <1>3 DEF ApiTypes
<1> HIDE DEF b
<1>5. Sound(b)
  BY <1>4, <1>2a, UnparsedIsSound
<1> QED
  BY <1>5 DEF b, g

LEMMA ReviewedAddressIsSound ==
  ASSUME Sound(api), api.type = "EMPTY", AccountIsSet,
         NEW show \in BOOLEAN, NEW req \in Bip32Requests, RequestIsValid(show, req)
  PROVE  Sound(ReviewedAddress(req))
<1> DEFINE g == GeneratedInto(req)
<1>1. g \in ApiTypes
  BY GeneratedType DEF RequestIsValid
<1>2a. \A i \in DOMAIN g.addresses : OnHardenedPath(g.addresses[i])
  <2>1. api \in ApiTypes
    BY DEF Sound
  <2>2. g.addresses = [i \in 1..req.count |-> AddressOf(RequestPath(req, i - 1))]
    BY <2>1, GeneratedFields DEF g
  <2> HIDE DEF g
  <2> QED
    BY <2>2, GeneratedAreHardened
<1>2. g.essence.inputs_count = 0 /\ (g.non_interactive_mode => Debug)
      /\ g.type = "LOCKED"
  <2>1. /\ api \in ApiTypes /\ api.essence.inputs_count = 0
        /\ api.non_interactive_mode => Debug
    BY DEF Sound, BlankEssence
  <2>2. /\ g.essence = api.essence /\ g.type = "LOCKED"
        /\ g.non_interactive_mode = api.non_interactive_mode
    BY <2>1, GeneratedFields DEF g
  <2> HIDE DEF g
  <2> QED
    BY <2>1, <2>2
<1>3. api.path \in Paths /\ 0 \in Nat
  BY DEF Sound, ApiTypes
<1> DEFINE path == RequestPath(req, 0)
<1>4. path \in Paths
  BY <1>3, RequestPathType
<1>5. req.bip32_index \in UInt32 /\ req.bip32_change \in UInt32
  BY RequestType
<1> HIDE DEF g, path
<1> DEFINE essence == [g.essence EXCEPT
                         !.outputs_count = 1, !.remainder_index = 0,
                         !.remainder_bip32_index = req.bip32_index,
                         !.remainder_bip32_change = req.bip32_change]
<1>6. essence \in ParsedTypes /\ essence.inputs_count = 0
  <2>1. g.essence \in ParsedTypes
    BY <1>1 DEF ApiTypes
  <2>2. 1 \in 0..OutputsMax /\ 0 \in 0..(OutputsMax - 1)
    OBVIOUS
  <2>3. essence \in ParsedTypes
    BY <2>1, <2>2, <1>5 DEF ParsedTypes
  <2>4. essence.inputs_count = g.essence.inputs_count
    BY <2>1 DEF ParsedTypes
  <2> QED
    BY <2>3, <2>4, <1>2
<1> HIDE DEF essence
<1> DEFINE b == [g EXCEPT !.flow_locked = TRUE, !.path = path, !.essence = essence]
<1>7. Sound(b)
  <2>1. b \in ApiTypes /\ b.type # "EMPTY" /\ b.essence = essence
        /\ b.addresses = g.addresses /\ (b.non_interactive_mode => Debug)
    BY <1>1, <1>2, <1>4, <1>6 DEF ApiTypes
  <2> HIDE DEF b
  <2> QED
    BY <2>1, <1>2a, <1>6, UnparsedIsSound
<1>8. ReviewedAddress(req) = b
  BY <1>1 DEF ReviewedAddress, b, g, path, essence, ApiTypes
<1> QED
  BY <1>7, <1>8

LEMMA DecodedType ==
  ASSUME Sound(api), NEW blind \in BOOLEAN, Decode[blind][api.blocks] # Malformed
  PROVE  WellFormed(Decode[blind][api.blocks], blind)
<1>1. api.blocks \in Blocks
  BY DEF Sound, ApiTypes
<1> QED
  BY <1>1, DecodeAssumption

\* What the parsers leave is typed, and says what the buffer says.
LEMMA ParsedType ==
  ASSUME NEW e, NEW blind \in BOOLEAN, WellFormed(e, blind), NEW has_remainder \in BOOLEAN,
         NEW internal \in BOOLEAN, NEW r, r.index \in 0..(OutputsMax - 1),
         r.bip32_index \in UInt32, r.bip32_change \in UInt32
  PROVE  ParsedEssence(e, blind, has_remainder, r, internal) \in ParsedTypes
<1>1. Len(e.inputs) \in 0..InputsMax
  BY DEF WellFormed
<1>2. Len(e.outputs) \in 0..OutputsMax
  BY DEF WellFormed
<1>3. e.length \in 0..(BufferSize - 1) /\ e.hash \in Hashes
  BY DEF WellFormed, Essences
<1> QED
  BY <1>1, <1>2, <1>3 DEF ParsedEssence, ParsedTypes

LEMMA ParsedIsSound ==
  ASSUME Sound(api), NEW blind \in BOOLEAN, NEW has_remainder \in BOOLEAN,
         NEW internal \in BOOLEAN, NEW r, r.index \in 0..(OutputsMax - 1),
         r.bip32_index \in UInt32, r.bip32_change \in UInt32, NEW path \in Paths,
         NEW e, e = Decode[blind][api.blocks], e # Malformed
  PROVE  Sound([api EXCEPT !.type = "VALIDATED_ESSENCE", !.length = e.data_length,
                  !.path = path,
                  !.essence = ParsedEssence(e, blind, has_remainder, r, internal)])
<1> DEFINE parsed == ParsedEssence(e, blind, has_remainder, r, internal)
           b == [api EXCEPT !.type = "VALIDATED_ESSENCE", !.length = e.data_length,
                            !.path = path, !.essence = parsed]
<1>1. WellFormed(e, blind)
  BY DecodedType
<1>2. parsed \in ParsedTypes
  BY <1>1, ParsedType
<1>3. parsed.blindsigning = blind /\ parsed.hash = e.hash
      /\ parsed.inputs_count = Len(e.inputs) /\ parsed.outputs_count = Len(e.outputs)
  BY DEF ParsedEssence
<1>4. e.data_length \in 0..(BufferSize - 1)
  BY <1>1 DEF WellFormed, Essences
<1>5. "VALIDATED_ESSENCE" \in DataTypes
  BY DEF DataTypes
<1>6. api \in ApiTypes
  BY DEF Sound
<1> HIDE DEF parsed
<1>7. b \in ApiTypes
  BY <1>2, <1>4, <1>5, <1>6 DEF ApiTypes
<1>8. b.type = "VALIDATED_ESSENCE" /\ b.essence = parsed /\ b.blocks = api.blocks
      /\ b.addresses = api.addresses
      /\ b.non_interactive_mode = api.non_interactive_mode
  BY <1>6 DEF ApiTypes
<1> HIDE DEF b
<1>9. Sound(b)
  <2>1. /\ \A i \in DOMAIN b.addresses : OnHardenedPath(b.addresses[i])
        /\ b.non_interactive_mode => Debug
    BY <1>8 DEF Sound
  <2> QED
    BY <1>3, <1>7, <1>8, <2>1 DEF Sound
<1> QED
  BY <1>9 DEF b, parsed

LEMMA ValidatedIsSound ==
  ASSUME Sound(api), NEW has_remainder \in BOOLEAN, NEW internal \in BOOLEAN,
         NEW r, r.index \in 0..(OutputsMax - 1), r.bip32_index \in UInt32,
         r.bip32_change \in UInt32, Decode[FALSE][api.blocks] # Malformed
  PROVE  Sound(Validated(has_remainder, r, internal))
<1>1. api.path \in Paths
  BY DEF Sound, ApiTypes
<1> DEFINE path == IF has_remainder THEN RemainderPath(api.path, r) ELSE api.path
<1>2. path \in Paths
  BY <1>1, PathInAccount DEF RemainderPath
<1> HIDE DEF path
<1> DEFINE e == Decode[FALSE][api.blocks]
<1>3. Sound([api EXCEPT !.type = "VALIDATED_ESSENCE", !.length = e.data_length,
               !.path = path,
               !.essence = ParsedEssence(e, FALSE, has_remainder, r, internal)])
  BY <1>2, ParsedIsSound
<1> QED
  BY <1>3 DEF Validated, path

LEMMA ValidatedBlindIsSound ==
  ASSUME Sound(api), Decode[TRUE][api.blocks] # Malformed
  PROVE  Sound(ValidatedBlind)
<1>1. api \in ApiTypes /\ api.path \in Paths
  BY DEF Sound, ApiTypes
<1>2. /\ NoRemainder.index \in 0..(OutputsMax - 1)
      /\ NoRemainder.bip32_index \in UInt32 /\ NoRemainder.bip32_change \in UInt32
  BY DEF NoRemainder, UInt32
<1> DEFINE e == Decode[TRUE][api.blocks]
           parsed == ParsedEssence(e, TRUE, FALSE, NoRemainder, FALSE)
<1>3. Sound([api EXCEPT !.type = "VALIDATED_ESSENCE", !.length = e.data_length,
               !.path = api.path, !.essence = parsed])
  BY <1>1, <1>2, ParsedIsSound
<1> HIDE DEF parsed
<1>4. ValidatedBlind = [api EXCEPT !.type = "VALIDATED_ESSENCE", !.length = e.data_length,
               !.path = api.path, !.essence = parsed]
  BY <1>1 DEF ValidatedBlind, parsed, ApiTypes
<1> QED
  BY <1>3, <1>4

-----------------------------------------------------------------------------
(* The inductive invariant of every environment.                                *)

LinkTypes == [owed : 0..MaxInFlight, stray : BOOLEAN, sw : StatusWords, body : Bodies]

HistoryTypes == Subjects \cup {NoSubject}

\* Everything beside the context.
UiSound ==
  /\ flow \in FlowTypes /\ screen \in Screens /\ timer \in 0..(TimerMod - 1)
  /\ nv \in NvTypes /\ nv.initialized
  /\ io \in LinkTypes
  /\ reviewed \in HistoryTypes /\ approved \in HistoryTypes
  /\ ReviewHasCallbacks
  /\ ReviewAgeBounded

AnyInv == Sound(api) /\ UiSound

LEMMA AnyInvImplies ==
  AnyInv => TypeOK /\ EmptyIsWiped /\ EssenceFrozen /\ AddressesAreHardened
            /\ ReviewAgeBounded /\ ReviewHasCallbacks
<1> SUFFICES ASSUME AnyInv
             PROVE  TypeOK /\ EmptyIsWiped /\ EssenceFrozen /\ AddressesAreHardened
                    /\ ReviewAgeBounded /\ ReviewHasCallbacks
  OBVIOUS
<1>1. TypeOK
  BY DEF AnyInv, UiSound, Sound, TypeOK, LinkTypes, HistoryTypes
<1>2. EmptyIsWiped
  BY DEF AnyInv, Sound, EmptyIsWiped
<1>3. EssenceFrozen
  BY DEF AnyInv, Sound, EssenceFrozen, LiveEssence, Inputs, Outputs
<1>4. AddressesAreHardened
  BY DEF AnyInv, Sound, AddressesAreHardened, OnHardenedPath
<1> QED
  BY <1>1, <1>2, <1>3, <1>4 DEF AnyInv, UiSound

LEMMA StartIsSound == Sound(ApiStart)
<1>1. APP_MODE_INIT \in AppModes /\ 0 \in UInt32
  BY DEF APP_MODE_INIT, AppModes, UInt32, IotaStardust, Shimmer
<1> QED
  BY <1>1, InitialIsSound DEF ApiStart

LEMMA AnswerType ==
  ASSUME io \in LinkTypes, NEW sw \in StatusWords, NEW body \in Bodies, Answer(sw, body)
  PROVE  io' \in LinkTypes
  BY DEF LinkTypes, Answer

LEMMA NoBodyType == NoBody \in Bodies
  BY DEF Bodies

LEMMA DeferType ==
  ASSUME io \in LinkTypes, CanReceive, Defer
  PROVE  io' \in LinkTypes
<1>1. io.owed + 1 \in 0..MaxInFlight
  BY LinkAssumption DEF LinkTypes, CanReceive
<1>2. "none" \in StatusWords
  BY DEF StatusWords
<1> QED
  BY <1>1, <1>2, NoBodyType DEF LinkTypes, Defer

LEMMA AnswerFlowType ==
  ASSUME io \in LinkTypes, NEW sw \in StatusWords, AnswerFlow(sw)
  PROVE  io' \in LinkTypes
<1> DEFINE owed == IF io.owed > 0 THEN io.owed - 1 ELSE 0
<1>1. owed \in 0..MaxInFlight
  BY LinkAssumption DEF LinkTypes
<1>2. (io.stray \/ io.owed = 0) \in BOOLEAN
  OBVIOUS
<1> QED
  BY <1>1, <1>2, NoBodyType DEF LinkTypes, AnswerFlow

\* A step that leaves flow and clock alone, and shows no other review.
LEMMA UiKept ==
  ASSUME UiSound, io' \in LinkTypes, UNCHANGED <<flow, timer, nv>>,
         screen' \in {screen, "busy", "menu", "settings"},
         reviewed' \in HistoryTypes, approved' \in HistoryTypes
  PROVE  UiSound'
<1>1. screen' \in Screens /\ ReviewHasCallbacks'
  BY DEF UiSound, Screens, ReviewScreens, ReviewHasCallbacks
<1>2. ReviewAgeBounded'
  BY DEF UiSound, ReviewAgeBounded
<1> QED
  BY <1>1, <1>2 DEF UiSound

LEMMA CatchOtherIsSound ==
  ASSUME Sound(api), NEW sw, CatchOther(api, sw)
  PROVE  Sound(api')
  BY StartIsSound DEF CatchOther

\* Whatever a handler has done to the context, the reset undoes it: a throw half
\* way is like one before anything was changed.
LEMMA ResetForgets ==
  ASSUME NEW a, NEW sw, ResetsStates(sw)
  PROVE  /\ ThrowFrom(a, sw) => Throw(sw)
         /\ ThrowBusy(a, sw) => ThrowBusy(api, sw)
  BY DEF Throw, ThrowFrom, ThrowBusy, CatchOther

\* The errors each handler throws half way are all errors that reset.
LEMMA GenerateAddressThrows ==
  ASSUME NEW show \in BOOLEAN, NEW req, NEW len_ok, NEW derived,
         GenerateAddress(show, req, len_ok, derived)
  PROVE  LET sw == GenerateAddressStatus(show, req, len_ok)
         IN  /\ sw # "OK" => Throw(sw)
             /\ sw = "OK" /\ derived < req.count =>
                  Throw("UNKNOWN") \/ ThrowBusy(api, "UNKNOWN")
             /\ sw = "OK" /\ ~(derived < req.count) =>
                  GenerateSilently(show, req) \/ GenerateForReview(show, req)
<1> DEFINE sw == GenerateAddressStatus(show, req, len_ok)
<1>1. ResetsStates(sw) /\ ResetsStates("UNKNOWN")
  BY DEF GenerateAddressStatus, ResetsStates
<1>2. CASE sw # "OK"
  <2>1. Throw(sw) \/ ThrowFrom(Locked, sw)
    BY <1>2 DEF GenerateAddress, ThrowGenerate
  <2> QED
    BY <1>1, <1>2, <2>1, ResetForgets
<1>3. CASE sw = "OK" /\ derived < req.count
  <2>1. \/ ThrowFrom(DerivedInto(req, derived), "UNKNOWN")
        \/ ThrowBusy(DerivedInto(req, derived), "UNKNOWN")
    BY <1>3 DEF GenerateAddress
  <2> QED
    BY <1>1, <1>3, <2>1, ResetForgets
<1>4. CASE sw = "OK" /\ ~(derived < req.count)
  BY <1>4 DEF GenerateAddress
<1> QED
  BY <1>2, <1>3, <1>4

LEMMA PrepareSigningThrows ==
  ASSUME NEW has_remainder, NEW r, NEW len_ok, NEW derived,
         PrepareSigning(has_remainder, r, len_ok, derived),
         PrepareSigningStatus(has_remainder, r, len_ok, derived) # "OK"
  PROVE  Throw(PrepareSigningStatus(has_remainder, r, len_ok, derived))
<1> DEFINE sw == PrepareSigningStatus(has_remainder, r, len_ok, derived)
<1>1. ResetsStates(sw)
  BY DEF PrepareSigningStatus, ResetsStates
<1>2. Throw(sw) \/ ThrowFrom(Locked, sw) \/ ThrowFrom(Parsing(has_remainder, r), sw)
  BY DEF PrepareSigning, ThrowPrepare
<1> QED
  BY <1>1, <1>2, ResetForgets

LEMMA PrepareBlindsigningThrows ==
  ASSUME PrepareBlindsigning, PrepareBlindsigningStatus # "OK"
  PROVE  Throw(PrepareBlindsigningStatus)
<1> DEFINE sw == PrepareBlindsigningStatus
<1>1. ResetsStates(sw)
  BY DEF PrepareBlindsigningStatus, ResetsStates
<1>2. PICK a : ThrowFrom(a, sw)
  BY DEF PrepareBlindsigning, ThrowPrepareBlind, Throw
<1> QED
  BY <1>1, <1>2, ResetForgets

LEMMA SignThrows ==
  ASSUME NEW p1, NEW derived, Sign(p1, derived)
  PROVE  /\ SignStatus(p1) # "OK" => Throw(SignStatus(p1))
         /\ SignStatus(p1) = "OK" /\ SignedBody(p1).kind = "signature" /\ ~derived =>
              ThrowBusy(api, "UNKNOWN")
<1>1. ResetsStates("UNKNOWN")
  BY DEF ResetsStates
<1> QED
  BY <1>1, ResetForgets DEF Sign

LEMMA ThrowKeepsAnyInv ==
  ASSUME AnyInv, NEW sw \in StatusWords, Throw(sw) \/ ThrowBusy(api, sw)
  PROVE  AnyInv'
<1>1. CatchOther(api, sw) /\ Answer(sw, NoBody)
  BY DEF Throw, ThrowFrom, ThrowBusy
<1>2. Sound(api')
  BY <1>1, CatchOtherIsSound DEF AnyInv
<1>3. io' \in LinkTypes
  BY <1>1, AnswerType, NoBodyType DEF AnyInv, UiSound
<1>4. UNCHANGED <<flow, timer, nv, history>> /\ screen' \in {screen, "busy"}
  BY DEF Throw, ThrowFrom, ThrowBusy, CatchOther
<1>5. UiSound'
  BY <1>3, <1>4, UiKept DEF AnyInv, UiSound, history
<1> QED
  BY <1>2, <1>5 DEF AnyInv

LEMMA SucceedKeepsAnyInv ==
  ASSUME AnyInv, NEW a, Sound(a), NEW body \in Bodies, Succeed(a, body)
  PROVE  AnyInv'
<1>1. io' \in LinkTypes
  <2>1. "OK" \in StatusWords
    BY DEF StatusWords
  <2> QED
    BY <2>1, AnswerType DEF AnyInv, UiSound, Succeed
<1>2. UiSound'
  BY <1>1, UiKept DEF AnyInv, UiSound, Succeed, uiVars, history
<1> QED
  BY <1>2 DEF AnyInv, Succeed

-----------------------------------------------------------------------------
(* The commands keep it.                                                        *)

LEMMA SetAccountKeepsAnyInv ==
  ASSUME AnyInv, NEW app_mode \in ModeArgs, NEW account \in AccountArgs,
         NEW len_ok \in BOOLEAN, SetAccount(app_mode, account, len_ok)
  PROVE  AnyInv'
<1> DEFINE sw == SetAccountStatus(app_mode, account, len_ok)
<1>1. sw \in StatusWords
  BY DEF SetAccountStatus, StatusWords
<1>2. CASE sw = "OK"
  <2>1. Sound(AccountSelected(app_mode, account))
    BY ArgsAssumption, InitialIsSound DEF AccountSelected
  <2> QED
    BY <2>1, <1>2, NoBodyType, SucceedKeepsAnyInv DEF SetAccount
<1>3. CASE sw # "OK"
  BY <1>1, <1>3, ThrowKeepsAnyInv DEF SetAccount
<1> QED
  BY <1>2, <1>3

LEMMA WriteDataBlockKeepsAnyInv ==
  ASSUME AnyInv, NEW n \in 0..BlockCount, NEW data \in BlockData,
         NEW len_ok \in BOOLEAN, WriteDataBlock(n, data, len_ok)
  PROVE  AnyInv'
<1> DEFINE sw == WriteDataBlockStatus(n, len_ok)
<1>1. sw \in StatusWords
  BY DEF WriteDataBlockStatus, StatusWords
<1>2. CASE sw = "OK"
  <2>1. api.type = "EMPTY" /\ ~(n >= BlockCount)
    BY <1>2 DEF WriteDataBlockStatus
  <2>2. n \in 0..(BlockCount - 1)
    BY <2>1
  <2>3. Sound([api EXCEPT !.blocks[n] = data])
    BY <2>1, <2>2, WrittenIsSound DEF AnyInv
  <2> QED
    BY <2>3, <1>2, NoBodyType, SucceedKeepsAnyInv DEF WriteDataBlock
<1>3. CASE sw # "OK"
  BY <1>1, <1>3, ThrowKeepsAnyInv DEF WriteDataBlock
<1> QED
  BY <1>2, <1>3

LEMMA ReadDataBlockKeepsAnyInv ==
  ASSUME AnyInv, NEW n \in 0..BlockCount, ReadDataBlock(n)
  PROVE  AnyInv'
<1> DEFINE sw == ReadDataBlockStatus(n)
           body == [kind |-> "addresses", addresses |-> api.addresses]
<1>1. sw \in StatusWords
  BY DEF ReadDataBlockStatus, StatusWords
<1>2. body \in Bodies
  BY DEF AnyInv, Sound, ApiTypes, Bodies
<1>3. CASE sw = "OK"
  BY <1>2, <1>3, SucceedKeepsAnyInv DEF ReadDataBlock, AnyInv
<1>4. CASE sw # "OK"
  BY <1>1, <1>4, ThrowKeepsAnyInv DEF ReadDataBlock
<1> QED
  BY <1>3, <1>4

\* The start of a review.
LEMMA FlowStartedType ==
  ASSUME UiSound, NEW callbacks \in {"address", "essence"}
  PROVE  /\ FlowStarted(callbacks) \in FlowTypes
         /\ FlowStarted(callbacks).flow_timer_start = timer
         /\ FlowStarted(callbacks).callbacks = callbacks
<1>1. NoFlow \in FlowTypes
  BY TimerAssumption DEF NoFlow, FlowTypes
<1>2. timer \in 0..(TimerMod - 1)
  BY DEF UiSound
<1> QED
  BY <1>1, <1>2 DEF FlowStarted, FlowTypes

LEMMA ReviewStartedType ==
  ASSUME UiSound, NEW e \in ParsedTypes
  PROVE  /\ ReviewStarted(e) \in FlowTypes
         /\ ReviewStarted(e).flow_timer_start = timer
         /\ ReviewStarted(e).callbacks = "essence"
<1>1. FlowStarted("essence") \in FlowTypes
      /\ FlowStarted("essence").flow_timer_start = timer
      /\ FlowStarted("essence").callbacks = "essence"
  BY FlowStartedType
<1>2. OutputsToReview(e) \in Int /\ ReadIndex(0, e) \in Int
  BY DEF OutputsToReview, ReadIndex, ParsedTypes
<1> DEFINE r == IF StaysInWallet(e) THEN 0 ELSE ReadIndex(0, e)
<1>3. r \in Int
  BY <1>2
<1> HIDE DEF r
<1>4. ReviewStarted(e) = [FlowStarted("essence") EXCEPT
        !.num_non_remainder_outputs = OutputsToReview(e), !.read_index = r]
  BY DEF ReviewStarted, r
<1> QED
  BY <1>1, <1>2, <1>3, <1>4 DEF FlowTypes

LEMMA DeferKeepsUiSound ==
  ASSUME UiSound, CanReceive, Defer, UNCHANGED <<timer, nv>>,
         flow' \in FlowTypes, flow'.flow_timer_start = timer,
         flow'.callbacks \in {"address", "essence"}, screen' \in ReviewScreens,
         flow'.callbacks = IF screen' = "new_address" THEN "address" ELSE "essence",
         reviewed' \in HistoryTypes, approved' \in HistoryTypes
  PROVE  UiSound'
<1>1. io' \in LinkTypes
  BY DeferType DEF UiSound
<1>2. (timer - timer) % TimerMod = 0
  <2>1. TimerMod \in Nat \ {0} /\ 0 \in 0..(TimerMod - 1)
    BY TimerAssumption
  <2>2. timer - timer = 0
    BY DEF UiSound
  <2> QED
    BY <2>1, <2>2, ModOfSmall
<1>3. ReviewAgeBounded'
  BY <1>2, TimerAssumption DEF ReviewAgeBounded
<1>4. screen' \in Screens /\ ReviewHasCallbacks'
  BY DEF Screens, ReviewScreens, ReviewHasCallbacks
<1> QED
  BY <1>1, <1>3, <1>4 DEF UiSound

LEMMA GenerateAddressKeepsAnyInv ==
  ASSUME AnyInv, NEW show \in BOOLEAN, NEW req \in Bip32Requests,
         NEW len_ok \in BOOLEAN, NEW derived \in 0..AddressesMax,
         GenerateAddress(show, req, len_ok, derived)
  PROVE  AnyInv'
<1> DEFINE sw == GenerateAddressStatus(show, req, len_ok)
<1>1. sw \in StatusWords /\ "UNKNOWN" \in StatusWords /\ "OK" \in StatusWords
  BY DEF GenerateAddressStatus, StatusWords
<1>2. CASE sw # "OK"
  BY <1>1, <1>2, GenerateAddressThrows, ThrowKeepsAnyInv
<1>3. CASE sw = "OK" /\ derived < req.count
  BY <1>1, <1>3, GenerateAddressThrows, ThrowKeepsAnyInv
<1>4. CASE sw = "OK" /\ ~(derived < req.count)
  <2>1. api.type = "EMPTY" /\ AccountIsSet /\ RequestIsValid(show, req)
    BY <1>4 DEF GenerateAddressStatus
  <2>2. CanReceive /\ (GenerateSilently(show, req) \/ GenerateForReview(show, req))
    BY <1>4, GenerateAddressThrows DEF GenerateAddress
  <2>3. CASE GenerateSilently(show, req)
    <3>1. Sound(api')
      BY <2>1, <2>3, GeneratedIsSound DEF AnyInv, GenerateSilently
    <3>2. io' \in LinkTypes
      BY <1>1, <2>3, AnswerType, NoBodyType DEF AnyInv, UiSound, GenerateSilently
    <3>3. UiSound'
      BY <2>3, <3>2, UiKept DEF AnyInv, UiSound, GenerateSilently, history
    <3> QED
      BY <3>1, <3>3 DEF AnyInv
  <2>4. CASE GenerateForReview(show, req)
    <3>1. Sound(api')
      BY <2>1, <2>4, ReviewedAddressIsSound DEF AnyInv, GenerateForReview
    <3>2. /\ FlowStarted("address") \in FlowTypes
          /\ FlowStarted("address").flow_timer_start = timer
          /\ FlowStarted("address").callbacks = "address"
      BY FlowStartedType DEF AnyInv
    <3>3. flow' = FlowStarted("address") /\ screen' = "new_address" /\ Defer
          /\ reviewed' = NoSubject /\ UNCHANGED <<timer, nv, approved>>
      BY <2>4 DEF GenerateForReview
    <3>4. reviewed' \in HistoryTypes /\ approved' \in HistoryTypes
      BY <3>3 DEF HistoryTypes, AnyInv, UiSound
    <3>5. screen' \in ReviewScreens
      BY <3>3 DEF ReviewScreens
    <3>6. UiSound'
      BY <2>2, <3>2, <3>3, <3>4, <3>5, DeferKeepsUiSound DEF AnyInv
    <3> QED
      BY <3>1, <3>6 DEF AnyInv
  <2> QED
    BY <2>2, <2>3, <2>4
<1> QED
  BY <1>2, <1>3, <1>4

LEMMA PrepareSigningKeepsAnyInv ==
  ASSUME AnyInv, NEW has_remainder \in BOOLEAN, NEW r,
         IF has_remainder THEN r \in Remainders ELSE r = NoRemainder,
         NEW len_ok \in BOOLEAN, NEW derived \in BOOLEAN,
         PrepareSigning(has_remainder, r, len_ok, derived)
  PROVE  AnyInv'
<1> DEFINE sw == PrepareSigningStatus(has_remainder, r, len_ok, derived)
           internal == derived /\ IsInternalTransfer(api, Decode[FALSE][api.blocks],
                                                     has_remainder)
<1>1. sw \in StatusWords
  BY DEF PrepareSigningStatus, StatusWords
<1>2. CASE sw # "OK"
  BY <1>1, <1>2, PrepareSigningThrows, ThrowKeepsAnyInv
<1>3. CASE sw = "OK"
  <2>1. /\ has_remainder => RemainderAccepted(r)
        /\ Decode[FALSE][api.blocks] # Malformed
    BY <1>3 DEF PrepareSigningStatus, EssenceAccepted
  <2>2. /\ r.index \in 0..(OutputsMax - 1)
        /\ r.bip32_index \in UInt32 /\ r.bip32_change \in UInt32
    <3>1. CASE has_remainder
      <4>1. r.index \in 0..OutputsMax /\ r.bip32_index \in UInt32
            /\ r.bip32_change \in UInt32
        BY <3>1, ArgsAssumption DEF Remainders
      <4>2. r.index < OutputsMax
        BY <2>1, <3>1 DEF RemainderAccepted
      <4> QED
        BY <4>1, <4>2
    <3>2. CASE ~has_remainder
      BY <3>2 DEF NoRemainder, UInt32
    <3> QED
      BY <3>1, <3>2
  <2>3. internal \in BOOLEAN
    BY DEF IsInternalTransfer
  <2> HIDE DEF internal
  <2>4. Sound(Validated(has_remainder, r, internal))
    BY <2>1, <2>2, <2>3, ValidatedIsSound DEF AnyInv
  <2>5. Succeed(Validated(has_remainder, r, internal), NoBody)
    BY <1>3 DEF PrepareSigning, internal
  <2> QED
    BY <2>4, <2>5, NoBodyType, SucceedKeepsAnyInv
<1> QED
  BY <1>2, <1>3

LEMMA PrepareBlindsigningKeepsAnyInv ==
  ASSUME AnyInv, PrepareBlindsigning
  PROVE  AnyInv'
<1>1. PrepareBlindsigningStatus \in StatusWords
  BY DEF PrepareBlindsigningStatus, StatusWords
<1>2. CASE PrepareBlindsigningStatus # "OK"
  BY <1>1, <1>2, PrepareBlindsigningThrows, ThrowKeepsAnyInv
<1>3. CASE PrepareBlindsigningStatus = "OK"
  <2>1. Decode[TRUE][api.blocks] # Malformed
    BY <1>3 DEF PrepareBlindsigningStatus
  <2>2. Sound(ValidatedBlind)
    BY <2>1, ValidatedBlindIsSound DEF AnyInv
  <2> QED
    BY <1>3, <2>2, NoBodyType, SucceedKeepsAnyInv DEF PrepareBlindsigning
<1> QED
  BY <1>2, <1>3

LEMMA ConfirmPathType ==
  ASSUME Sound(api)
  PROVE  /\ ConfirmPath \in Paths
         /\ ConfirmPath.coin = api.path.coin /\ ConfirmPath.account = api.path.account
<1>1. api.path \in Paths
  BY DEF Sound, ApiTypes
<1>2. api.essence.remainder_bip32_index \in UInt32
      /\ api.essence.remainder_bip32_change \in UInt32
  BY DEF Sound, ApiTypes, ParsedTypes
<1> QED
  BY <1>1, <1>2, PathInAccount DEF ConfirmPath

LEMMA SubjectType ==
  ASSUME Sound(api)
  PROVE  Subject \in Subjects
<1>1. api.essence.hash \in Hashes
  BY DEF Sound, ApiTypes, ParsedTypes
<1>2. api.path \in Paths
  BY DEF Sound, ApiTypes
<1> QED
  BY <1>1, <1>2 DEF Subject, Subjects, Paths

LEMMA LockedIsSound ==
  ASSUME NEW a, Sound(a), a.type # "EMPTY", NEW path \in Paths
  PROVE  Sound([a EXCEPT !.flow_locked = TRUE, !.path = path])
  BY DEF Sound, ApiTypes

LEMMA ConfirmedIsSound ==
  ASSUME NEW a, Sound(a), NEW path \in Paths
  PROVE  Sound([a EXCEPT !.type = "USER_CONFIRMED_ESSENCE", !.path = path])
<1>1. "USER_CONFIRMED_ESSENCE" \in DataTypes
  BY DEF DataTypes
<1> QED
  BY <1>1 DEF Sound, ApiTypes

LEMMA UserConfirmKeepsAnyInv ==
  ASSUME AnyInv, UserConfirmEssence
  PROVE  AnyInv'
<1>1. UserConfirmStatus \in StatusWords /\ "OK" \in StatusWords
  BY DEF UserConfirmStatus, StatusWords
<1>2. CASE UserConfirmStatus # "OK"
  BY <1>1, <1>2, ThrowKeepsAnyInv DEF UserConfirmEssence
<1>3. ASSUME UserConfirmStatus = "OK", ConfirmSilently
      PROVE  AnyInv'
  <2>1. Sound(api')
    BY <1>3, ConfirmPathType, ConfirmedIsSound DEF ConfirmSilently, AnyInv
  <2>2. io' \in LinkTypes
    BY <1>1, <1>3, AnswerType, NoBodyType DEF AnyInv, UiSound, ConfirmSilently
  <2>3. approved' \in HistoryTypes
    BY <1>3, SubjectType DEF AnyInv, HistoryTypes, ConfirmSilently
  <2>4. UiSound'
    BY <1>3, <2>2, <2>3, UiKept DEF AnyInv, UiSound, ConfirmSilently, uiVars
  <2> QED
    BY <2>1, <2>4 DEF AnyInv
<1>4. ASSUME UserConfirmStatus = "OK", ConfirmByReview, CanReceive
      PROVE  AnyInv'
  <2>1. api.type = "VALIDATED_ESSENCE"
    BY <1>4 DEF UserConfirmStatus
  <2>2. Sound(api')
    BY <1>4, <2>1, ConfirmPathType, LockedIsSound DEF ConfirmByReview, AnyInv
  <2>3. /\ flow' \in FlowTypes /\ flow'.flow_timer_start = timer
        /\ flow'.callbacks = "essence"
        /\ screen' \in ReviewScreens \ {"new_address"}
    <3>1. CASE api.essence.blindsigning
      <4>1. flow' = FlowStarted("essence") /\ screen' = BlindsigningScreen(nv.blindsigning)
        BY <1>4, <3>1 DEF ConfirmByReview
      <4>2. screen' \in ReviewScreens \ {"new_address"}
        BY <4>1 DEF BlindsigningScreen, ReviewScreens
      <4> QED
        BY <4>1, <4>2, FlowStartedType DEF AnyInv
    <3>2. CASE ~api.essence.blindsigning
      <4>1. flow' = ReviewStarted(api.essence)
            /\ screen' = TransactionScreen(api.essence, api.app_mode = ShimmerClaiming)
        BY <1>4, <3>2 DEF ConfirmByReview
      <4>2. screen' \in ReviewScreens \ {"new_address"}
        BY <4>1 DEF TransactionScreen, ReviewScreens
      <4>3. api.essence \in ParsedTypes
        BY DEF AnyInv, Sound, ApiTypes
      <4> QED
        BY <4>1, <4>2, <4>3, ReviewStartedType DEF AnyInv
    <3> QED
      BY <3>1, <3>2
  <2>4. reviewed' \in HistoryTypes /\ approved' \in HistoryTypes
    BY <1>4, SubjectType DEF AnyInv, UiSound, HistoryTypes, ConfirmByReview
  <2>5. UiSound'
    BY <1>4, <2>3, <2>4, DeferKeepsUiSound DEF AnyInv, ConfirmByReview
  <2> QED
    BY <2>2, <2>5 DEF AnyInv
<1> QED
  BY <1>2, <1>3, <1>4 DEF UserConfirmEssence

\* The unlock block of an input and the path it leaves behind.
LEMMA SignedType ==
  ASSUME Sound(api), NEW p1 \in 0..InputsMax, p1 < api.essence.inputs_count
  PROVE  /\ SignedBody(p1) \in Bodies
         /\ PathAfterSign(p1) \in Paths
         /\ PathAfterSign(p1).coin = api.path.coin
         /\ PathAfterSign(p1).account = api.path.account
         /\ SignedBody(p1).kind = "signature" =>
              /\ SignedBody(p1).hash = api.essence.hash
              /\ SignedBody(p1).path.coin = api.path.coin
              /\ SignedBody(p1).path.account = api.path.account
<1>1. api.essence \in ParsedTypes /\ api.path \in Paths
  BY DEF Sound, ApiTypes
<1>2. api.essence.blindsigning \in BOOLEAN /\ api.essence.hash \in Hashes
      /\ api.essence.inputs_count \in 0..InputsMax
  BY <1>1 DEF ParsedTypes
<1>3. LiveEssence # Malformed /\ Len(Inputs) = api.essence.inputs_count
  BY <1>2 DEF Sound, LiveEssence, Inputs
<1>4. Inputs \in Seq(Bip32Indices)
  BY <1>2, <1>3, DecodedType DEF LiveEssence, Inputs, WellFormed, Essences
<1>5. InputKey(Inputs, p1) \in Bip32Indices
  BY <1>2, <1>3, <1>4 DEF InputKey
<1> DEFINE path == SigningPath(api.path, Inputs, p1)
<1>6. path \in Paths /\ path.coin = api.path.coin /\ path.account = api.path.account
  BY <1>1, <1>5, PathInAccount DEF SigningPath, Bip32Indices
<1>7. UnlockReference(Inputs, p1, api.essence.blindsigning) \in Nat
  <2>1. p1 \in 0..NoReference
    BY DEF NoReference
  <2> QED
    BY <2>1, ReferenceIndexIsFirst DEF UnlockReference, NoReference
<1> HIDE DEF path
<1>8. \/ SignedBody(p1) = [kind |-> "signature", hash |-> api.essence.hash, path |-> path]
      \/ \E r \in Nat : SignedBody(p1) = [kind |-> "reference", reference |-> r]
  BY <1>7 DEF SignedBody, UnlockBlock, path
<1>9. CASE SignedBody(p1) = [kind |-> "signature", hash |-> api.essence.hash, path |-> path]
  BY <1>1, <1>2, <1>6, <1>9 DEF Bodies, PathAfterSign
<1>10. CASE \E r \in Nat : SignedBody(p1) = [kind |-> "reference", reference |-> r]
  BY <1>1, <1>10 DEF Bodies, PathAfterSign
<1> QED
  BY <1>8, <1>9, <1>10

LEMMA SignKeepsAnyInv ==
  ASSUME AnyInv, NEW p1 \in 0..InputsMax, NEW derived \in BOOLEAN, Sign(p1, derived)
  PROVE  AnyInv'
<1> DEFINE sw == SignStatus(p1)
<1>1. sw \in StatusWords /\ "UNKNOWN" \in StatusWords /\ "OK" \in StatusWords
  BY DEF SignStatus, StatusWords
<1>2. CASE sw # "OK"
  BY <1>1, <1>2, SignThrows, ThrowKeepsAnyInv
<1>3. CASE sw = "OK" /\ SignedBody(p1).kind = "signature" /\ ~derived
  BY <1>1, <1>3, SignThrows, ThrowKeepsAnyInv
<1>4. CASE sw = "OK" /\ ~(SignedBody(p1).kind = "signature" /\ ~derived)
  <2>1. p1 < api.essence.inputs_count
    <3>1. ~(p1 >= api.essence.inputs_count)
      BY <1>4 DEF SignStatus
    <3>2. api.essence.inputs_count \in 0..InputsMax
      BY DEF AnyInv, Sound, ApiTypes, ParsedTypes
    <3> QED
      BY <3>1, <3>2
  <2>2. SignedBody(p1) \in Bodies /\ PathAfterSign(p1) \in Paths
    BY <2>1, SignedType DEF AnyInv
  <2>3. /\ api' = [api EXCEPT !.path = PathAfterSign(p1)]
        /\ Answer("OK", SignedBody(p1)) /\ screen' = "busy"
        /\ UNCHANGED <<flow, timer, nv, history>>
    BY <1>4 DEF Sign
  <2>4. Sound(api')
    BY <2>2, <2>3, PathChangeIsSound DEF AnyInv
  <2>5. io' \in LinkTypes
    BY <1>1, <2>2, <2>3, AnswerType DEF AnyInv, UiSound
  <2>6. UiSound'
    BY <2>3, <2>5, UiKept DEF AnyInv, UiSound, history
  <2> QED
    BY <2>4, <2>6 DEF AnyInv
<1> QED
  BY <1>2, <1>3, <1>4

LEMMA SetModeKeepsAnyInv ==
  ASSUME AnyInv, NEW mode \in 0..2, SetNonInteractiveMode(mode)
  PROVE  AnyInv'
<1>1. CASE mode > 1
  <2>1. "INCORRECT_P1P2" \in StatusWords
    BY DEF StatusWords
  <2> QED
    BY <1>1, <2>1, ThrowKeepsAnyInv DEF SetNonInteractiveMode
<1>2. CASE ~(mode > 1)
  <2> DEFINE on == mode = 1
  <2>1. on \in BOOLEAN /\ Debug
    BY DEF SetNonInteractiveMode
  <2> HIDE DEF on
  <2>2. Sound([api EXCEPT !.non_interactive_mode = on])
    BY <2>1, ModeChangeIsSound DEF AnyInv
  <2>3. Succeed([api EXCEPT !.non_interactive_mode = on], NoBody)
    BY <1>2 DEF SetNonInteractiveMode, on
  <2> QED
    BY <2>2, <2>3, NoBodyType, SucceedKeepsAnyInv
<1> QED
  BY <1>1, <1>2

LEMMA CommandKeepsAnyInv ==
  ASSUME AnyInv, Command
  PROVE  AnyInv'
<1>1. CASE HeaderError \/ DeviceIsLocked \/ UnknownInstruction
  <2>1. {"INCORRECT_LENGTH", "CLA_NOT_SUPPORTED", "INCORRECT_LENGTH_P3",
         "DEVICE_IS_LOCKED", "INS_NOT_SUPPORTED"} \subseteq StatusWords
    BY DEF StatusWords
  <2>2. \E sw \in StatusWords : Throw(sw)
    BY <1>1, <2>1 DEF HeaderError, DeviceIsLocked, UnknownInstruction
  <2> QED
    BY <2>2, ThrowKeepsAnyInv
<1>2. CASE NoOperation
  BY <1>2 DEF NoOperation, vars, AnyInv, UiSound, ReviewHasCallbacks, ReviewAgeBounded
<1>3. CASE GetAppConfig \/ GetDataBufferState \/ ShowFlow
  BY <1>3, NoBodyType, SucceedKeepsAnyInv
     DEF GetAppConfig, GetDataBufferState, ShowFlow, AnyInv
<1>4. CASE Reset
  BY <1>4, NoBodyType, StartIsSound, SucceedKeepsAnyInv DEF Reset
<1>5. CASE ClearDataBuffer
  BY <1>5, NoBodyType, ClearedIsSound, SucceedKeepsAnyInv DEF ClearDataBuffer, AnyInv
<1>6. CASE \E app_mode \in ModeArgs, account \in AccountArgs, len_ok \in BOOLEAN :
             SetAccount(app_mode, account, len_ok)
  BY <1>6, SetAccountKeepsAnyInv
<1>7. CASE \E n \in 0..BlockCount, data \in BlockData, len_ok \in BOOLEAN :
             WriteDataBlock(n, data, len_ok)
  BY <1>7, WriteDataBlockKeepsAnyInv
<1>8. CASE \E n \in 0..BlockCount : ReadDataBlock(n)
  BY <1>8, ReadDataBlockKeepsAnyInv
<1>9. CASE \E show \in BOOLEAN, req \in Bip32Requests, len_ok \in BOOLEAN,
              derived \in 0..AddressesMax : GenerateAddress(show, req, len_ok, derived)
  BY <1>9, GenerateAddressKeepsAnyInv
<1>10. CASE \E r \in Remainders, len_ok \in BOOLEAN, derived \in BOOLEAN :
              PrepareSigning(TRUE, r, len_ok, derived)
  BY <1>10, PrepareSigningKeepsAnyInv
<1>11. CASE \E len_ok \in BOOLEAN, derived \in BOOLEAN :
              PrepareSigning(FALSE, NoRemainder, len_ok, derived)
  BY <1>11, PrepareSigningKeepsAnyInv
<1>12. CASE PrepareBlindsigning
  BY <1>12, PrepareBlindsigningKeepsAnyInv
<1>13. CASE UserConfirmEssence
  BY <1>13, UserConfirmKeepsAnyInv
<1>14. CASE \E p1 \in 0..InputsMax, derived \in BOOLEAN : Sign(p1, derived)
  BY <1>14, SignKeepsAnyInv
<1>15. CASE \E mode \in 0..2 : SetNonInteractiveMode(mode)
  BY <1>15, SetModeKeepsAnyInv
<1> QED
  BY <1>1, <1>2, <1>3, <1>4, <1>5, <1>6, <1>7, <1>8, <1>9, <1>10, <1>11, <1>12,
     <1>13, <1>14, <1>15, Zenon DEF Command

-----------------------------------------------------------------------------
(* So do the steps of the user, the ticker and a restart.                       *)

LEMMA NoFlowType == NoFlow \in FlowTypes /\ ~NoFlow.flow_active
  BY TimerAssumption DEF NoFlow, FlowTypes

\* The end of a review.
LEMMA FlowStopKeepsUiSound ==
  ASSUME UiSound, FlowStop, io' \in LinkTypes, timer' \in 0..(TimerMod - 1),
         UNCHANGED nv, reviewed' \in HistoryTypes, approved' \in HistoryTypes
  PROVE  UiSound'
<1>1. flow' = NoFlow /\ screen' = "menu"
  BY DEF FlowStop
<1>2. screen' \in Screens /\ ReviewHasCallbacks'
  BY <1>1 DEF Screens, ReviewScreens, ReviewHasCallbacks
<1>3. flow' \in FlowTypes /\ ReviewAgeBounded'
  BY <1>1, NoFlowType DEF ReviewAgeBounded
<1> QED
  BY <1>2, <1>3 DEF UiSound

LEMMA UserAcceptKeepsAnyInv ==
  ASSUME AnyInv, UserAccept
  PROVE  AnyInv'
<1> DEFINE type == IF flow.callbacks = "address" THEN "GENERATED_ADDRESSES"
                                                 ELSE "USER_CONFIRMED_ESSENCE"
<1>1. type \in DataTypes \ {"EMPTY"}
  BY DEF DataTypes
<1>2. api' = [api EXCEPT !.type = type] /\ AnswerFlow("OK") /\ FlowStop
      /\ approved' \in {approved, reviewed} /\ reviewed' = NoSubject
      /\ UNCHANGED <<timer, nv>>
  BY DEF UserAccept, AcceptCallback
<1> HIDE DEF type
<1>3. Sound(api')
  BY <1>1, <1>2, TypeChangeIsSound DEF AnyInv
<1>4. "OK" \in StatusWords
  BY DEF StatusWords
<1>5. io' \in LinkTypes
  BY <1>2, <1>4, AnswerFlowType DEF AnyInv, UiSound
<1>6. UiSound'
  BY <1>2, <1>5, FlowStopKeepsUiSound DEF AnyInv, UiSound, HistoryTypes
<1> QED
  BY <1>3, <1>6 DEF AnyInv

LEMMA UserRejectKeepsAnyInv ==
  ASSUME AnyInv, UserReject
  PROVE  AnyInv'
<1>1. Sound(api')
  BY ClearedIsSound DEF AnyInv, UserReject, RejectCallback
<1>2. "DENIED_BY_USER" \in StatusWords
  BY DEF StatusWords
<1>3. io' \in LinkTypes
  BY <1>2, AnswerFlowType DEF AnyInv, UiSound, UserReject, RejectCallback
<1>4. UiSound'
  BY <1>3, FlowStopKeepsUiSound DEF AnyInv, UiSound, HistoryTypes, UserReject
<1> QED
  BY <1>1, <1>4 DEF AnyInv

LEMMA ChangeOutputKeepsAnyInv ==
  ASSUME AnyInv, ChangeOutput
  PROVE  AnyInv'
<1>1. PICK i \in {NextOutput(flow.current), PrevOutput(flow.current)} :
        ShowOutput(i, api.essence)
  BY DEF ChangeOutput
<1>2. api.essence \in ParsedTypes
  BY DEF AnyInv, Sound, ApiTypes
<1>3. flow \in FlowTypes
  BY DEF AnyInv, UiSound
<1>4. i \in Int
  BY <1>3 DEF NextOutput, PrevOutput, FlowTypes
<1>5. ReadIndex(i, api.essence) \in Int
  BY <1>2, <1>4 DEF ReadIndex, ParsedTypes
<1>6. flow' = [flow EXCEPT !.current = i, !.read_index = ReadIndex(i, api.essence)]
  BY <1>1 DEF ShowOutput
<1>7. /\ flow' \in FlowTypes /\ flow'.flow_active = flow.flow_active
      /\ flow'.flow_timer_start = flow.flow_timer_start
      /\ flow'.callbacks = flow.callbacks
  BY <1>3, <1>4, <1>5, <1>6 DEF FlowTypes
<1>8. UNCHANGED <<api, screen, timer, nv, io, reviewed, approved>>
  BY DEF ChangeOutput, history
<1>9. ReviewHasCallbacks' /\ ReviewAgeBounded'
  BY <1>7, <1>8 DEF AnyInv, UiSound, ReviewHasCallbacks, ReviewAgeBounded
<1> QED
  BY <1>7, <1>8, <1>9 DEF AnyInv, UiSound

LEMMA DisplayErrorKeepsAnyInv ==
  ASSUME AnyInv, DisplayError
  PROVE  AnyInv'
<1>1. CatchOther(api, "UNKNOWN") /\ AnswerFlow("UNKNOWN")
      /\ UNCHANGED <<flow, screen, timer, nv, reviewed, approved>>
  BY DEF DisplayError, CatchOther, history
<1>2. Sound(api')
  BY <1>1, CatchOtherIsSound DEF AnyInv
<1>3. "UNKNOWN" \in StatusWords
  BY DEF StatusWords
<1>4. io' \in LinkTypes
  BY <1>1, <1>3, AnswerFlowType DEF AnyInv, UiSound
<1>5. UiSound'
  BY <1>1, <1>4, UiKept DEF AnyInv, UiSound
<1> QED
  BY <1>2, <1>5 DEF AnyInv

LEMMA UserStepKeepsAnyInv ==
  ASSUME AnyInv, UserStep
  PROVE  AnyInv'
<1>1. CASE ContinueClaiming
  <2>1. screen' \in Screens /\ ReviewHasCallbacks'
    BY <1>1 DEF ContinueClaiming, Screens, ReviewScreens, ReviewHasCallbacks, AnyInv, UiSound
  <2>2. ReviewAgeBounded'
    BY <1>1 DEF ContinueClaiming, ReviewAgeBounded, AnyInv, UiSound
  <2> QED
    BY <1>1, <2>1, <2>2 DEF ContinueClaiming, AnyInv, UiSound, history
<1>2. CASE EnterSettings \/ BackToMenu
  <2>1. UNCHANGED <<api, flow, timer, nv, io, reviewed, approved>>
        /\ screen' \in {"settings", "menu"}
    BY <1>2 DEF EnterSettings, BackToMenu, history
  <2>2. UiSound'
    BY <2>1, UiKept DEF AnyInv, UiSound
  <2> QED
    BY <2>1, <2>2 DEF AnyInv
<1>3. CASE ToggleBlindsigning
  <2>1. nv' \in NvTypes /\ nv'.initialized
    BY <1>3 DEF ToggleBlindsigning, NvToggled, NvTypes, AnyInv, UiSound
  <2>2. UNCHANGED <<api, flow, screen, timer, io, reviewed, approved>>
    BY <1>3 DEF ToggleBlindsigning, uiVars, history
  <2>3. ReviewHasCallbacks' /\ ReviewAgeBounded'
    BY <2>2 DEF AnyInv, UiSound, ReviewHasCallbacks, ReviewAgeBounded
  <2> QED
    BY <2>1, <2>2, <2>3 DEF AnyInv, UiSound
<1> QED
  BY <1>1, <1>2, <1>3, UserAcceptKeepsAnyInv, UserRejectKeepsAnyInv,
     ChangeOutputKeepsAnyInv, DisplayErrorKeepsAnyInv DEF UserStep

LEMMA TickKeepsAnyInv ==
  ASSUME AnyInv, Tick
  PROVE  AnyInv'
<1>1. Now \in 0..(TimerMod - 1) /\ timer' = Now
  <2>1. timer + 1 \in Int /\ TimerMod \in Nat \ {0}
    BY TimerAssumption DEF AnyInv, UiSound
  <2> QED
    BY <2>1, ModInRange DEF Now, Tick
<1>2. CASE FlowExpired(Now)
  <2>1. TimeoutCallback /\ FlowStop /\ reviewed' = NoSubject /\ UNCHANGED <<nv, approved>>
    BY <1>2 DEF Tick
  <2>2. Sound(api')
    BY <2>1, ClearedIsSound DEF AnyInv, TimeoutCallback
  <2>3. "COMMAND_TIMEOUT" \in StatusWords
    BY DEF StatusWords
  <2>4. io' \in LinkTypes
    BY <2>1, <2>3, AnswerFlowType DEF AnyInv, UiSound, TimeoutCallback
  <2>5. UiSound'
    BY <1>1, <2>1, <2>4, FlowStopKeepsUiSound DEF AnyInv, UiSound, HistoryTypes
  <2> QED
    BY <2>2, <2>5 DEF AnyInv
<1>3. CASE ~FlowExpired(Now)
  <2>1. UNCHANGED <<api, flow, screen, nv, io, reviewed, approved>>
    BY <1>3 DEF Tick, history
  <2>2. ReviewHasCallbacks'
    BY <2>1 DEF AnyInv, UiSound, ReviewHasCallbacks
  <2>3. ReviewAgeBounded'
    <3>1. flow.flow_timer_start \in Int
      BY DEF AnyInv, UiSound, FlowTypes
    <3>2. (Now - flow.flow_timer_start) % TimerMod \in Int
      <4>1. Now - flow.flow_timer_start \in Int /\ TimerMod \in Nat \ {0}
        BY <1>1, <3>1, TimerAssumption
      <4> QED
        BY <4>1, ModInRange
    <3>3. flow.flow_active => (Now - flow.flow_timer_start) % TimerMod < Timeout
      BY <1>3, <3>2, TimerAssumption DEF FlowExpired
    <3> QED
      BY <1>1, <2>1, <3>3 DEF ReviewAgeBounded
  <2> QED
    BY <1>1, <2>1, <2>2, <2>3 DEF AnyInv, UiSound
<1> QED
  BY <1>2, <1>3

\* What Init and Restart share.
LEMMA StartUpIsSound ==
  /\ 0 \in 0..(TimerMod - 1) /\ "menu" \in Screens \ ReviewScreens
  /\ LinkInitial \in LinkTypes /\ NoSubject \in HistoryTypes
<1>1. "none" \in StatusWords
  BY DEF StatusWords
<1> QED
  BY <1>1, TimerAssumption, LinkAssumption, NoBodyType
     DEF Screens, ReviewScreens, LinkInitial, LinkTypes, HistoryTypes

LEMMA NvInitializedType ==
  ASSUME NEW v \in NvTypes
  PROVE  NvInitialized(v) \in NvTypes /\ NvInitialized(v).initialized
  BY DEF NvInitialized, NvFresh, NvTypes

LEMMA RestartKeepsAnyInv ==
  ASSUME AnyInv, Restart
  PROVE  AnyInv'
<1>1. nv' \in NvTypes /\ nv'.initialized
  BY NvInitializedType DEF Restart, AnyInv, UiSound
<1>2. ReviewHasCallbacks' /\ ReviewAgeBounded'
  BY StartUpIsSound, NoFlowType DEF Restart, ReviewHasCallbacks, ReviewAgeBounded
<1>3. UiSound'
  BY <1>1, <1>2, StartUpIsSound, NoFlowType DEF Restart, UiSound
<1> QED
  BY <1>3, StartIsSound DEF Restart, AnyInv

LEMMA InitAnyInv == Init => AnyInv
<1> SUFFICES ASSUME Init PROVE AnyInv
  OBVIOUS
<1>1. nv \in NvTypes /\ nv.initialized
  BY NvInitializedType DEF Init
<1>2. ReviewHasCallbacks /\ ReviewAgeBounded
  BY StartUpIsSound, NoFlowType DEF Init, ReviewHasCallbacks, ReviewAgeBounded
<1>3. UiSound
  BY <1>1, <1>2, StartUpIsSound, NoFlowType DEF Init, UiSound
<1> QED
  BY <1>3, StartIsSound DEF Init, AnyInv

LEMMA NextAnyInv == AnyInv /\ [Next]_vars => AnyInv'
<1> SUFFICES ASSUME AnyInv, [Next]_vars PROVE AnyInv'
  OBVIOUS
<1>1. CASE UNCHANGED vars
  BY <1>1 DEF vars, AnyInv, UiSound, ReviewHasCallbacks, ReviewAgeBounded
<1> QED
  BY <1>1, CommandKeepsAnyInv, UserStepKeepsAnyInv, TickKeepsAnyInv, RestartKeepsAnyInv
     DEF Next

LEMMA AnyInvInvariant == Spec => []AnyInv
  BY InitAnyInv, NextAnyInv, PTL DEF Spec

-----------------------------------------------------------------------------
(* The theorems: what holds whatever the host sends and whatever fails.         *)

\* The context, the screens and the link keep their types.  That api_sign leaves a
\* path behind needs EssenceFrozen, which needs EmptyIsWiped.
THEOREM LedgerAppTypeOK == Spec => []TypeOK
  BY AnyInvInvariant, AnyInvImplies, PTL

\* Every clear, reset, error and timeout wipes the context in full.
THEOREM LedgerAppWipes == Spec => []EmptyIsWiped
  BY AnyInvInvariant, AnyInvImplies, PTL

\* The buffer of a validated essence is never written again, so the pointers into
\* it and the copies made of it agree until it is wiped.
THEOREM LedgerAppFreezesEssence == Spec => []EssenceFrozen
  BY AnyInvInvariant, AnyInvImplies, PTL

\* No request makes the application generate an address of an unhardened path,
\* however close its range comes to the wrap-around of the index.
THEOREM LedgerAppHardensAddresses == Spec => []AddressesAreHardened
  BY AnyInvInvariant, AnyInvImplies, PTL

\* A review is over within Timeout ticks, also across a wrap-around of the count.
THEOREM LedgerAppBoundsReviews == Spec => []ReviewAgeBounded
  BY AnyInvInvariant, AnyInvImplies, PTL

\* No button of a review is without its callback, errors included.
THEOREM LedgerAppReviewsHaveCallbacks == Spec => []ReviewHasCallbacks
  BY AnyInvInvariant, AnyInvImplies, PTL

LEMMA CommandKeepsSettings ==
  ASSUME Command
  PROVE  UNCHANGED nv
<1>1. /\ \A a, sw : ThrowFrom(a, sw) \/ ThrowBusy(a, sw) => UNCHANGED nv
      /\ \A sw : Throw(sw) => UNCHANGED nv
  BY DEF Throw, ThrowFrom, ThrowBusy
<1>2. \A a, body : Succeed(a, body) => UNCHANGED nv
  BY DEF Succeed
<1>3. CASE HeaderError \/ DeviceIsLocked \/ UnknownInstruction
  BY <1>1, <1>3 DEF HeaderError, DeviceIsLocked, UnknownInstruction
<1>4. CASE NoOperation
  BY <1>4 DEF NoOperation, vars
<1>5. CASE GetAppConfig \/ GetDataBufferState \/ ShowFlow \/ Reset \/ ClearDataBuffer
  BY <1>2, <1>5 DEF GetAppConfig, GetDataBufferState, ShowFlow, Reset, ClearDataBuffer
<1>6. CASE \E app_mode \in ModeArgs, account \in AccountArgs, len_ok \in BOOLEAN :
             SetAccount(app_mode, account, len_ok)
  BY <1>1, <1>2, <1>6 DEF SetAccount
<1>7. CASE \E n \in 0..BlockCount, data \in BlockData, len_ok \in BOOLEAN :
             WriteDataBlock(n, data, len_ok)
  BY <1>1, <1>2, <1>7 DEF WriteDataBlock
<1>8. CASE \E n \in 0..BlockCount : ReadDataBlock(n)
  BY <1>1, <1>2, <1>8 DEF ReadDataBlock
<1>9. CASE \E show \in BOOLEAN, req \in Bip32Requests, len_ok \in BOOLEAN,
              derived \in 0..AddressesMax : GenerateAddress(show, req, len_ok, derived)
  BY <1>1, <1>9 DEF GenerateAddress, ThrowGenerate, GenerateSilently, GenerateForReview
<1>10. CASE \E r \in Remainders, len_ok \in BOOLEAN, derived \in BOOLEAN :
              PrepareSigning(TRUE, r, len_ok, derived)
  BY <1>1, <1>2, <1>10 DEF PrepareSigning, ThrowPrepare
<1>11. CASE \E len_ok \in BOOLEAN, derived \in BOOLEAN :
              PrepareSigning(FALSE, NoRemainder, len_ok, derived)
  BY <1>1, <1>2, <1>11 DEF PrepareSigning, ThrowPrepare
<1>12. CASE PrepareBlindsigning
  BY <1>1, <1>2, <1>12 DEF PrepareBlindsigning, ThrowPrepareBlind
<1>13. CASE UserConfirmEssence
  BY <1>1, <1>13 DEF UserConfirmEssence, ConfirmSilently, ConfirmByReview
<1>14. CASE \E p1 \in 0..InputsMax, derived \in BOOLEAN : Sign(p1, derived)
  BY <1>1, <1>14 DEF Sign
<1>15. CASE \E mode \in 0..2 : SetNonInteractiveMode(mode)
  BY <1>1, <1>2, <1>15 DEF SetNonInteractiveMode
<1> QED
  BY <1>3, <1>4, <1>5, <1>6, <1>7, <1>8, <1>9, <1>10, <1>11, <1>12, <1>13, <1>14, <1>15
     DEF Command

\* No command, error or restart changes whether blind signing is enabled: the
\* settings are initialised once and then only toggled by the user.
THEOREM LedgerAppKeepsSetting == Spec => SettingChangedByUserOnly
<1> DEFINE A == nv'.blindsigning # nv.blindsigning => screen = "settings"
<1>1. AnyInv /\ [Next]_vars => [A]_vars
  <2> SUFFICES ASSUME AnyInv, Next PROVE A
    OBVIOUS
  <2>1. CASE Command
    BY <2>1, CommandKeepsSettings
  <2>2. CASE UserStep
    BY <2>2 DEF UserStep, UserAccept, UserReject, ContinueClaiming, ChangeOutput,
                DisplayError, EnterSettings, ToggleBlindsigning, BackToMenu
  <2>3. CASE Tick
    BY <2>3 DEF Tick
  <2>4. CASE Restart
    BY <2>4 DEF Restart, NvInitialized, AnyInv, UiSound
  <2> QED
    BY <2>1, <2>2, <2>3, <2>4 DEF Next
<1> QED
  BY <1>1, AnyInvInvariant, PTL DEF Spec, SettingChangedByUserOnly

-----------------------------------------------------------------------------
(* An undisturbed environment: the inductive invariant.                        *)

SubjectOf(a) ==
  [hash |-> a.essence.hash, coin |-> a.path.coin, account |-> a.path.account]

\* Of the basic checks, what the types do not say.
BasicOf(a) == a.length >= a.essence.length /\ a.essence.inputs_count > 0

OwnedBy(coin, account, address) ==
  \E change, index \in UInt32 :
    address = [key |-> [coin |-> coin, account |-> account,
                        bip32_change |-> change, bip32_index |-> index]]

\* The outputs a review leaves out pay keys of the account.
OutputsAreOwn(a) ==
  a.essence.inputs_count > 0 /\ ~a.essence.blindsigning =>
    LET outputs == Decode[FALSE][a.blocks].outputs
    IN  /\ a.essence.has_remainder =>
             /\ a.essence.remainder_index < a.essence.outputs_count
             /\ OwnedBy(a.path.coin, a.path.account,
                        outputs[a.essence.remainder_index + 1].address)
        /\ a.essence.is_internal_transfer =>
             /\ a.essence.outputs_count = 1
             /\ OwnedBy(a.path.coin, a.path.account, outputs[1].address)

\* The screen shows a review exactly as long as there is a flow.
FlowOnScreen ==
  /\ flow.flow_active <=> screen \in ReviewScreens
  /\ flow.flow_active <=> flow.callbacks # "none"

\* Every page of a transaction review has its output.
PagesExist ==
  screen \in {"transaction", "claiming"} =>
    /\ flow.num_non_remainder_outputs = OutputsToReview(api.essence)
    /\ flow.current \in 0..(flow.num_non_remainder_outputs - 1)
    /\ flow.read_index = ReadIndex(flow.current, api.essence)

\* Which screens review which essences.
ScreenIsOfKind ==
  /\ screen \in {"transaction", "claiming", "internal_transfer"} => ~api.essence.blindsigning
  /\ screen = "internal_transfer" => StaysInWallet(api.essence)
  /\ screen = "blindsigning" => nv.blindsigning

\* What holds of the context a with approval s while no review runs.
QuietApi(a, s) ==
  /\ a.type # "LOCKED"
  /\ a.type = "USER_CONFIRMED_ESSENCE" => s = SubjectOf(a)
  /\ a.type \in {"VALIDATED_ESSENCE", "USER_CONFIRMED_ESSENCE"} => BasicOf(a)
  /\ OutputsAreOwn(a)

QuietInv ==
  /\ AnyInv
  /\ FlowOnScreen /\ PagesExist /\ ScreenIsOfKind
  /\ ReviewMatchesBuffer /\ NewAddressIsOfShownPath
  /\ ConfirmedIsApproved /\ SignatureIsApproved /\ OneReplyPerCommand
  /\ api.type \in {"VALIDATED_ESSENCE", "USER_CONFIRMED_ESSENCE"} => BasicOf(api)
  /\ OutputsAreOwn(api)

\* No review runs, and no reply is owed.
Idle ==
  /\ ~flow.flow_active /\ flow.callbacks = "none" /\ screen \notin ReviewScreens
  /\ io.owed = 0 /\ ~io.stray

ApprovedBody ==
  io.body.kind = "signature" =>
    /\ io.body.hash = approved.hash
    /\ io.body.path.coin = approved.coin
    /\ io.body.path.account = approved.account

LEMMA IdleIsQuiet ==
  AnyInv /\ Idle /\ QuietApi(api, approved) /\ ApprovedBody => QuietInv
<1> SUFFICES ASSUME AnyInv, Idle, QuietApi(api, approved), ApprovedBody PROVE QuietInv
  OBVIOUS
<1>1. FlowOnScreen /\ PagesExist /\ ScreenIsOfKind /\ NewAddressIsOfShownPath
  BY DEF Idle, FlowOnScreen, PagesExist, ScreenIsOfKind, NewAddressIsOfShownPath,
         ReviewScreens
<1>2. ReviewMatchesBuffer /\ OneReplyPerCommand
  BY DEF Idle, QuietApi, ReviewMatchesBuffer, OneReplyPerCommand
<1>3. ConfirmedIsApproved /\ SignatureIsApproved
  BY DEF QuietApi, ApprovedBody, ConfirmedIsApproved, SignatureIsApproved, Subject, SubjectOf
<1> QED
  BY <1>1, <1>2, <1>3 DEF QuietInv, QuietApi

\* A command comes in only when no review runs.
LEMMA ReceivedWhenIdle ==
  ASSUME Undisturbed, QuietInv, CanReceive
  PROVE  Idle /\ QuietApi(api, approved) /\ ApprovedBody
<1>1. ~flow.flow_active /\ io.owed = 0 /\ ~io.stray
  BY DEF QuietInv, Undisturbed, CanReceive, OneReplyPerCommand, AnyInv, UiSound, LinkTypes
<1>2. flow.callbacks = "none" /\ screen \notin ReviewScreens
  BY <1>1 DEF QuietInv, FlowOnScreen
<1>3. api.type # "LOCKED"
  BY <1>2 DEF QuietInv, ReviewMatchesBuffer
<1> QED
  BY <1>1, <1>2, <1>3 DEF Idle, QuietApi, ApprovedBody, QuietInv, ConfirmedIsApproved,
     SignatureIsApproved, Subject, SubjectOf

-----------------------------------------------------------------------------
(* Commands.                                                                    *)

\* A context without an essence, and one that only differs from another in what
\* QuietApi does not read.
LEMMA UnparsedIsQuiet ==
  ASSUME NEW a, NEW s, a.type \in {"EMPTY", "GENERATED_ADDRESSES"},
         a.essence.inputs_count = 0
  PROVE  QuietApi(a, s)
  BY DEF QuietApi, OutputsAreOwn

LEMMA SimilarIsQuiet ==
  ASSUME NEW a, NEW b, NEW s, QuietApi(a, s), b.type = a.type, b.essence = a.essence,
         b.blocks = a.blocks, b.length = a.length, b.path.coin = a.path.coin,
         b.path.account = a.path.account
  PROVE  QuietApi(b, s)
  BY DEF QuietApi, OutputsAreOwn, SubjectOf, BasicOf

LEMMA InitialIsUnparsed ==
  ASSUME NEW app_mode, NEW account
  PROVE  /\ ApiInitial(app_mode, account).type = "EMPTY"
         /\ ApiInitial(app_mode, account).essence.inputs_count = 0
  BY DEF ApiInitial, BlankEssence

LEMMA ClearedIsUnparsed ==
  ASSUME NEW a
  PROVE  ApiCleared(a).type = "EMPTY" /\ ApiCleared(a).essence.inputs_count = 0
<1> DEFINE b == ApiInitial(a.app_mode, a.path.account)
<1>1. /\ b = [path |-> b.path, app_mode |-> b.app_mode, type |-> "EMPTY",
              blocks |-> b.blocks, addresses |-> b.addresses, length |-> b.length,
              essence |-> b.essence, flow_locked |-> b.flow_locked,
              non_interactive_mode |-> b.non_interactive_mode]
      /\ b.essence.inputs_count = 0
  BY DEF ApiInitial, BlankEssence
<1>2. ApiCleared(a) = [b EXCEPT !.non_interactive_mode = a.non_interactive_mode]
  BY DEF ApiCleared
<1> HIDE DEF b
<1> QED
  BY <1>1, <1>2

LEMMA IdleEndsQuiet ==
  ASSUME AnyInv', Idle', QuietApi(api', approved'), ApprovedBody'
  PROVE  QuietInv'
<1>1. (AnyInv /\ Idle /\ QuietApi(api, approved) /\ ApprovedBody)' => QuietInv'
  BY IdleIsQuiet, PTL
<1> QED
  BY <1>1

LEMMA ThrowKeepsQuiet ==
  ASSUME Undisturbed, QuietInv, CanReceive, NEW sw \in StatusWords,
         Throw(sw) \/ ThrowBusy(api, sw)
  PROVE  QuietInv'
<1>1. Idle /\ QuietApi(api, approved)
  BY ReceivedWhenIdle
<1>2. AnyInv'
  BY ThrowKeepsAnyInv DEF QuietInv
<1>3. CatchOther(api, sw) /\ Answer(sw, NoBody) /\ screen' \in {screen, "busy"}
      /\ UNCHANGED <<flow, timer, nv, history>>
  BY DEF Throw, ThrowFrom, ThrowBusy, CatchOther
<1>4. io' = [io EXCEPT !.sw = sw, !.body = NoBody] /\ io \in LinkTypes
  BY <1>3 DEF Answer, QuietInv, AnyInv, UiSound
<1>5. io'.owed = io.owed /\ io'.stray = io.stray /\ io'.body = NoBody
  BY <1>4 DEF LinkTypes
<1>6. Idle'
  BY <1>1, <1>3, <1>5 DEF Idle, ReviewScreens
<1>7. QuietApi(ApiStart, approved)
  BY InitialIsUnparsed, UnparsedIsQuiet DEF ApiStart
<1>8. QuietApi(api', approved')
  BY <1>1, <1>3, <1>7 DEF CatchOther, history
<1>9. ApprovedBody'
  BY <1>5 DEF ApprovedBody, NoBody
<1> QED
  BY <1>2, <1>6, <1>8, <1>9, IdleEndsQuiet

LEMMA SucceedKeepsQuiet ==
  ASSUME Undisturbed, QuietInv, CanReceive, NEW a, Sound(a), QuietApi(a, approved),
         NEW body \in Bodies, body.kind # "signature", Succeed(a, body)
  PROVE  QuietInv'
<1>1. Idle
  BY ReceivedWhenIdle
<1>2. AnyInv'
  BY SucceedKeepsAnyInv DEF QuietInv
<1>3. io' = [io EXCEPT !.sw = "OK", !.body = body] /\ io \in LinkTypes
  BY DEF Succeed, Answer, QuietInv, AnyInv, UiSound
<1>4. io'.owed = io.owed /\ io'.stray = io.stray /\ io'.body = body
  BY <1>3 DEF LinkTypes
<1>5. Idle'
  BY <1>1, <1>4 DEF Idle, Succeed, uiVars
<1>6. QuietApi(api', approved')
  BY DEF Succeed, history
<1>7. ApprovedBody'
  BY <1>4 DEF ApprovedBody
<1> QED
  BY <1>2, <1>5, <1>6, <1>7, IdleEndsQuiet

LEMMA NoBodyKind == NoBody \in Bodies /\ NoBody.kind # "signature"
  BY NoBodyType DEF NoBody

LEMMA SetAccountKeepsQuiet ==
  ASSUME Undisturbed, QuietInv, NEW app_mode \in ModeArgs, NEW account \in AccountArgs,
         NEW len_ok \in BOOLEAN, SetAccount(app_mode, account, len_ok)
  PROVE  QuietInv'
<1> DEFINE sw == SetAccountStatus(app_mode, account, len_ok)
<1>1. sw \in StatusWords
  BY DEF SetAccountStatus, StatusWords
<1>2. CASE sw = "OK"
  <2>1. Sound(AccountSelected(app_mode, account))
    BY ArgsAssumption, InitialIsSound DEF AccountSelected
  <2>2. QuietApi(AccountSelected(app_mode, account), approved)
    BY InitialIsUnparsed, UnparsedIsQuiet DEF AccountSelected
  <2> QED
    BY <2>1, <2>2, <1>2, NoBodyKind, SucceedKeepsQuiet DEF SetAccount
<1>3. CASE sw # "OK"
  BY <1>1, <1>3, ThrowKeepsQuiet DEF SetAccount
<1> QED
  BY <1>2, <1>3

LEMMA WriteDataBlockKeepsQuiet ==
  ASSUME Undisturbed, QuietInv, NEW n \in 0..BlockCount, NEW data \in BlockData,
         NEW len_ok \in BOOLEAN, WriteDataBlock(n, data, len_ok)
  PROVE  QuietInv'
<1> DEFINE sw == WriteDataBlockStatus(n, len_ok)
<1>1. sw \in StatusWords
  BY DEF WriteDataBlockStatus, StatusWords
<1>2. CASE sw = "OK"
  <2>1. api.type = "EMPTY" /\ ~(n >= BlockCount)
    BY <1>2 DEF WriteDataBlockStatus
  <2>2. n \in 0..(BlockCount - 1)
    BY <2>1, ApiAssumption
  <2> DEFINE a == [api EXCEPT !.blocks[n] = data]
  <2>3. Sound(a)
    BY <2>1, <2>2, WrittenIsSound DEF QuietInv, AnyInv
  <2>4. a.type = "EMPTY" /\ a.essence.inputs_count = 0
    BY <2>1 DEF QuietInv, AnyInv, Sound, ApiTypes, BlankEssence
  <2> HIDE DEF a
  <2>5. QuietApi(a, approved)
    BY <2>4, UnparsedIsQuiet
  <2>6. Succeed(a, NoBody) /\ CanReceive
    BY <1>2 DEF WriteDataBlock, a
  <2> QED
    BY <2>3, <2>5, <2>6, NoBodyKind, SucceedKeepsQuiet
<1>3. CASE sw # "OK"
  BY <1>1, <1>3, ThrowKeepsQuiet DEF WriteDataBlock
<1> QED
  BY <1>2, <1>3

LEMMA ReadDataBlockKeepsQuiet ==
  ASSUME Undisturbed, QuietInv, NEW n \in 0..BlockCount, ReadDataBlock(n)
  PROVE  QuietInv'
<1> DEFINE sw == ReadDataBlockStatus(n)
           body == [kind |-> "addresses", addresses |-> api.addresses]
<1>1. sw \in StatusWords
  BY DEF ReadDataBlockStatus, StatusWords
<1>2. body \in Bodies /\ body.kind # "signature"
  BY DEF QuietInv, AnyInv, Sound, ApiTypes, Bodies
<1>3. CASE sw = "OK"
  BY <1>2, <1>3, ReceivedWhenIdle, SucceedKeepsQuiet DEF ReadDataBlock, QuietInv, AnyInv
<1>4. CASE sw # "OK"
  BY <1>1, <1>4, ThrowKeepsQuiet DEF ReadDataBlock
<1> QED
  BY <1>3, <1>4

\* The fields of a generated context, and of one under review.
LEMMA GeneratedShape ==
  ASSUME Sound(api), api.type = "EMPTY", NEW req \in Bip32Requests
  PROVE  \A a : a = [GeneratedInto(req) EXCEPT !.type = "GENERATED_ADDRESSES"] =>
                a.type = "GENERATED_ADDRESSES" /\ a.essence.inputs_count = 0
<1> DEFINE g == GeneratedInto(req)
           path == RequestPath(req, req.count)
           addresses == [i \in 1..req.count |-> AddressOf(RequestPath(req, i - 1))]
           length == req.count * AddressSize
<1>1. api \in ApiTypes /\ api.essence.inputs_count = 0
  BY DEF Sound, BlankEssence
<1> HIDE DEF path, addresses, length
<1>2. g = [api EXCEPT !.type = "LOCKED", !.path = path, !.blocks = ZeroBlocks,
                      !.addresses = addresses, !.length = length]
  BY <1>1, GeneratedWrites DEF path, addresses, length
<1> HIDE DEF g
<1>3. \A a : a = [g EXCEPT !.type = "GENERATED_ADDRESSES"] =>
             a.type = "GENERATED_ADDRESSES" /\ a.essence.inputs_count = 0
  BY <1>1, <1>2 DEF ApiTypes
<1> QED
  BY <1>3 DEF g

LEMMA ReviewedAddressShape ==
  ASSUME Sound(api), api.type = "EMPTY", NEW req \in Bip32Requests, req.count = 1
  PROVE  /\ ReviewedAddress(req).type = "LOCKED"
         /\ ReviewedAddress(req).essence.inputs_count = 0
         /\ ReviewedAddress(req).addresses = <<AddressOf(ReviewedAddress(req).path)>>
<1> DEFINE g == GeneratedInto(req)
           last == RequestPath(req, req.count)
           path == RequestPath(req, 0)
           addresses == [i \in 1..req.count |-> AddressOf(RequestPath(req, i - 1))]
           length == req.count * AddressSize
<1>1. api \in ApiTypes /\ api.essence.inputs_count = 0 /\ api.essence \in ParsedTypes
  BY DEF Sound, BlankEssence, ApiTypes
<1>2. addresses = <<AddressOf(path)>>
  <2>1. \A i \in 1..1 : i - 1 = 0
    OBVIOUS
  <2>2. addresses = [i \in 1..1 |-> AddressOf(path)]
    BY <2>1
  <2> QED
    BY <2>2
<1> HIDE DEF path, last, addresses, length
<1>3. g = [api EXCEPT !.type = "LOCKED", !.path = last, !.blocks = ZeroBlocks,
                      !.addresses = addresses, !.length = length]
  BY <1>1, GeneratedWrites DEF last, addresses, length
<1>4. g.essence = api.essence /\ g.addresses = addresses
      /\ g = [path |-> last, app_mode |-> api.app_mode, type |-> "LOCKED",
              blocks |-> ZeroBlocks, addresses |-> addresses, length |-> length,
              essence |-> api.essence, flow_locked |-> api.flow_locked,
              non_interactive_mode |-> api.non_interactive_mode]
  BY <1>1, <1>3 DEF ApiTypes
<1> HIDE DEF g
<1> DEFINE essence == [g.essence EXCEPT
                         !.outputs_count = 1, !.remainder_index = 0,
                         !.remainder_bip32_index = req.bip32_index,
                         !.remainder_bip32_change = req.bip32_change]
<1>5. essence.inputs_count = 0
  BY <1>1, <1>4 DEF ParsedTypes
<1> HIDE DEF essence
<1>6. ReviewedAddress(req) = [g EXCEPT !.flow_locked = TRUE, !.path = path,
                                       !.essence = essence]
  BY <1>4 DEF ReviewedAddress, g, path, essence
<1> QED
  BY <1>2, <1>4, <1>5, <1>6

LEMMA AnswerShape ==
  ASSUME io \in LinkTypes, NEW sw, NEW body, Answer(sw, body)
  PROVE  io'.owed = io.owed /\ io'.stray = io.stray /\ io'.body = body
  BY DEF LinkTypes, Answer

LEMMA DeferShape ==
  ASSUME io \in LinkTypes, Defer
  PROVE  io'.owed = io.owed + 1 /\ io'.stray = io.stray /\ io'.body = NoBody
  BY DEF LinkTypes, Defer

LEMMA FlowStartedShape ==
  ASSUME NEW callbacks
  PROVE  FlowStarted(callbacks).flow_active /\ FlowStarted(callbacks).callbacks = callbacks
  BY DEF FlowStarted, NoFlow

LEMMA GenerateAddressKeepsQuiet ==
  ASSUME Undisturbed, QuietInv, NEW show \in BOOLEAN, NEW req \in Bip32Requests,
         NEW len_ok \in BOOLEAN, NEW derived \in 0..AddressesMax,
         GenerateAddress(show, req, len_ok, derived)
  PROVE  QuietInv'
<1> DEFINE sw == GenerateAddressStatus(show, req, len_ok)
<1>1. sw \in StatusWords /\ "UNKNOWN" \in StatusWords
  BY DEF GenerateAddressStatus, StatusWords
<1>2. CASE sw # "OK"
  BY <1>1, <1>2, GenerateAddressThrows, ThrowKeepsQuiet DEF GenerateAddress
<1>3. CASE sw = "OK" /\ derived < req.count
  BY <1>1, <1>3, GenerateAddressThrows, ThrowKeepsQuiet DEF GenerateAddress
<1>4. CASE sw = "OK" /\ ~(derived < req.count)
  <2>1. api.type = "EMPTY" /\ RequestIsValid(show, req)
    BY <1>4 DEF GenerateAddressStatus
  <2>2. CanReceive /\ (GenerateSilently(show, req) \/ GenerateForReview(show, req))
    BY <1>4, GenerateAddressThrows DEF GenerateAddress
  <2>3. AnyInv'
    BY GenerateAddressKeepsAnyInv DEF QuietInv
  <2>4. Idle /\ io \in LinkTypes /\ Sound(api)
    BY <2>2, ReceivedWhenIdle DEF QuietInv, AnyInv, UiSound
  <2>5. CASE GenerateSilently(show, req)
    <3>1. io'.owed = io.owed /\ io'.stray = io.stray /\ io'.body = NoBody
      BY <2>4, <2>5, AnswerShape DEF GenerateSilently
    <3>2. Idle'
      BY <2>4, <2>5, <3>1 DEF Idle, GenerateSilently, ReviewScreens
    <3>3. QuietApi(api', approved')
      <4>1. api' = [GeneratedInto(req) EXCEPT !.type = "GENERATED_ADDRESSES"]
        BY <2>5 DEF GenerateSilently
      <4>2. api'.type = "GENERATED_ADDRESSES" /\ api'.essence.inputs_count = 0
        BY <2>1, <2>4, <4>1, GeneratedShape
      <4> QED
        BY <4>2, UnparsedIsQuiet
    <3>4. ApprovedBody'
      BY <3>1 DEF ApprovedBody, NoBody
    <3> QED
      BY <2>3, <3>2, <3>3, <3>4, IdleEndsQuiet
  <2>6. CASE GenerateForReview(show, req)
    <3>1. req.count = 1
      BY <2>1, <2>6 DEF GenerateForReview, RequestIsValid
    <3>2. /\ api'.type = "LOCKED" /\ api'.essence.inputs_count = 0
          /\ api'.addresses = <<AddressOf(api'.path)>>
      BY <2>1, <2>4, <2>6, <3>1, ReviewedAddressShape DEF GenerateForReview
    <3>3. flow'.flow_active /\ flow'.callbacks = "address" /\ screen' = "new_address"
      BY <2>6, FlowStartedShape DEF GenerateForReview
    <3>4. io'.owed = 1 /\ ~io'.stray /\ io'.body = NoBody
      BY <2>4, <2>6, DeferShape DEF GenerateForReview, Idle
    <3>5. FlowOnScreen' /\ PagesExist' /\ ScreenIsOfKind' /\ NewAddressIsOfShownPath'
      BY <3>2, <3>3 DEF FlowOnScreen, PagesExist, ScreenIsOfKind, NewAddressIsOfShownPath,
                        ReviewScreens
    <3>6. ReviewMatchesBuffer' /\ OneReplyPerCommand' /\ ConfirmedIsApproved'
          /\ SignatureIsApproved'
      BY <3>2, <3>3, <3>4 DEF ReviewMatchesBuffer, OneReplyPerCommand, ConfirmedIsApproved,
                              SignatureIsApproved, NoBody
    <3>7. OutputsAreOwn(api')
      BY <3>2 DEF OutputsAreOwn
    <3> QED
      BY <2>3, <3>2, <3>5, <3>6, <3>7 DEF QuietInv
  <2> QED
    BY <2>2, <2>5, <2>6
<1> QED
  BY <1>2, <1>3, <1>4

LEMMA PathIsOwned ==
  ASSUME NEW path \in Paths, NEW change \in UInt32, NEW index \in UInt32
  PROVE  OwnedBy(path.coin, path.account,
           AddressOf([path EXCEPT !.bip32_index = index, !.bip32_change = change]))
<1> DEFINE p == [path EXCEPT !.bip32_index = index, !.bip32_change = change]
<1>1. /\ p \in Paths /\ p.coin = path.coin /\ p.account = path.account
      /\ p.bip32_index = index /\ p.bip32_change = change
  BY DEF Paths
<1> HIDE DEF p
<1>2. p = [coin |-> path.coin, account |-> path.account,
           bip32_change |-> change, bip32_index |-> index]
  BY <1>1 DEF Paths
<1>3. OwnedBy(path.coin, path.account, AddressOf(p))
  BY <1>2 DEF OwnedBy, AddressOf
<1> QED
  BY <1>3 DEF p

LEMMA WellFormedBounds ==
  ASSUME NEW e, NEW blind \in BOOLEAN, WellFormed(e, blind)
  PROVE  /\ e.length \in Nat /\ e.data_length \in Nat /\ e.data_length >= e.length
         /\ e.inputs \in Seq(Bip32Indices) /\ Len(e.inputs) \in Nat /\ Len(e.inputs) > 0
         /\ ~blind => Len(e.outputs) \in Nat /\ Len(e.outputs) > 0
<1>1. e.length \in 0..(BufferSize - 1) /\ e.data_length \in 0..(BufferSize - 1)
      /\ e.inputs \in Seq(Bip32Indices)
  BY DEF WellFormed, Essences
<1>2. /\ e.length <= e.data_length /\ Len(e.inputs) \in 1..InputsMax
      /\ ~blind => Len(e.outputs) \in 1..OutputsMax
  BY DEF WellFormed
<1> QED
  BY <1>1, <1>2, ApiAssumption

\* What the remainder and internal-transfer checks of the parser establish.
LEMMA ValidatedIsQuiet ==
  ASSUME Sound(api), NEW has_remainder \in BOOLEAN, NEW internal \in BOOLEAN, NEW s,
         NEW r, r.index \in 0..(OutputsMax - 1), r.bip32_index \in UInt32,
         r.bip32_change \in UInt32, Decode[FALSE][api.blocks] # Malformed,
         has_remainder => RemainderVerified(api.path, Decode[FALSE][api.blocks], r),
         internal => IsInternalTransfer(api, Decode[FALSE][api.blocks], has_remainder)
  PROVE  QuietApi(Validated(has_remainder, r, internal), s)
<1> DEFINE e == Decode[FALSE][api.blocks]
           path == IF has_remainder THEN RemainderPath(api.path, r) ELSE api.path
           parsed == ParsedEssence(e, FALSE, has_remainder, r, internal)
           b == Validated(has_remainder, r, internal)
<1>1. WellFormed(e, FALSE)
  BY DecodedType
<1>2. api \in ApiTypes /\ api.path \in Paths
  BY DEF Sound, ApiTypes
<1>3. path.coin = api.path.coin /\ path.account = api.path.account
  BY <1>2, PathInAccount DEF RemainderPath
<1>4. /\ parsed.inputs_count = Len(e.inputs) /\ parsed.outputs_count = Len(e.outputs)
      /\ parsed.length = e.length /\ parsed.blindsigning = FALSE
      /\ parsed.has_remainder = has_remainder /\ parsed.remainder_index = r.index
      /\ parsed.is_internal_transfer = internal
  BY DEF ParsedEssence
<1> HIDE DEF path, parsed
<1>5. b = [api EXCEPT !.type = "VALIDATED_ESSENCE", !.length = e.data_length,
                      !.path = path, !.essence = parsed]
  BY DEF Validated, path, parsed
<1> HIDE DEF b
<1>6. /\ b.type = "VALIDATED_ESSENCE" /\ b.length = e.data_length /\ b.path = path
      /\ b.essence = parsed /\ b.blocks = api.blocks
  BY <1>2, <1>5 DEF ApiTypes
<1>7. BasicOf(b)
  BY <1>1, <1>4, <1>6, WellFormedBounds DEF BasicOf
<1>8. ASSUME has_remainder
      PROVE  /\ r.index < Len(e.outputs)
             /\ OwnedBy(api.path.coin, api.path.account, e.outputs[r.index + 1].address)
  BY <1>2, <1>8, PathIsOwned DEF RemainderVerified, RemainderPath
<1>9. ASSUME internal
      PROVE  /\ Len(e.outputs) = 1
             /\ OwnedBy(api.path.coin, api.path.account, e.outputs[1].address)
  <2>1. PICK i \in 1..Len(e.inputs) :
          e.outputs[1].address = AddressOf(InputPath(api.path, e.inputs[i]))
    BY <1>9 DEF IsInternalTransfer
  <2>2. e.inputs[i] \in Bip32Indices
    <3>1. e.inputs \in Seq(Bip32Indices)
      BY <1>1, WellFormedBounds
    <3> HIDE DEF e
    <3> QED
      BY <3>1
  <2>3. e.inputs[i].bip32_index \in UInt32 /\ e.inputs[i].bip32_change \in UInt32
    BY <2>2 DEF Bip32Indices
  <2>4. OwnedBy(api.path.coin, api.path.account, e.outputs[1].address)
    BY <2>1, <2>3, <1>2, PathIsOwned DEF InputPath
  <2> QED
    BY <2>4, <1>9 DEF IsInternalTransfer
<1>10. OutputsAreOwn(b)
  BY <1>3, <1>4, <1>6, <1>8, <1>9 DEF OutputsAreOwn
<1> QED
  BY <1>6, <1>7, <1>10 DEF QuietApi, b

LEMMA ValidatedBlindIsQuiet ==
  ASSUME Sound(api), Decode[TRUE][api.blocks] # Malformed, NEW s
  PROVE  QuietApi(ValidatedBlind, s)
<1> DEFINE e == Decode[TRUE][api.blocks]
           parsed == ParsedEssence(e, TRUE, FALSE, NoRemainder, FALSE)
           b == ValidatedBlind
<1>1. WellFormed(e, TRUE)
  BY DecodedType
<1>2. api \in ApiTypes
  BY DEF Sound
<1>3. parsed.inputs_count = Len(e.inputs) /\ parsed.length = e.length /\ parsed.blindsigning
  BY DEF ParsedEssence
<1> HIDE DEF parsed
<1>4. b = [api EXCEPT !.type = "VALIDATED_ESSENCE", !.length = e.data_length,
                      !.essence = parsed]
  BY DEF ValidatedBlind, parsed
<1> HIDE DEF b
<1>5. b.type = "VALIDATED_ESSENCE" /\ b.length = e.data_length /\ b.essence = parsed
  BY <1>2, <1>4 DEF ApiTypes
<1>6. BasicOf(b)
  BY <1>1, <1>3, <1>5, WellFormedBounds DEF BasicOf
<1> QED
  BY <1>3, <1>5, <1>6 DEF QuietApi, OutputsAreOwn, b

LEMMA PrepareSigningKeepsQuiet ==
  ASSUME Undisturbed, QuietInv, NEW has_remainder \in BOOLEAN, NEW r,
         IF has_remainder THEN r \in Remainders ELSE r = NoRemainder,
         NEW len_ok \in BOOLEAN, NEW derived \in BOOLEAN,
         PrepareSigning(has_remainder, r, len_ok, derived)
  PROVE  QuietInv'
<1> DEFINE sw == PrepareSigningStatus(has_remainder, r, len_ok, derived)
           internal == derived /\ IsInternalTransfer(api, Decode[FALSE][api.blocks],
                                                     has_remainder)
<1>1. sw \in StatusWords
  BY DEF PrepareSigningStatus, StatusWords
<1>2. CASE sw # "OK"
  BY <1>1, <1>2, PrepareSigningThrows, ThrowKeepsQuiet DEF PrepareSigning
<1>3. CASE sw = "OK"
  <2>1. /\ has_remainder => RemainderAccepted(r)
        /\ Decode[FALSE][api.blocks] # Malformed
        /\ has_remainder => RemainderVerified(api.path, Decode[FALSE][api.blocks], r)
    BY <1>3 DEF PrepareSigningStatus, EssenceAccepted
  <2>2. /\ r.index \in 0..(OutputsMax - 1)
        /\ r.bip32_index \in UInt32 /\ r.bip32_change \in UInt32
    <3>1. CASE has_remainder
      <4>1. r.index \in 0..OutputsMax /\ r.bip32_index \in UInt32
            /\ r.bip32_change \in UInt32
        BY <3>1, ArgsAssumption DEF Remainders
      <4>2. r.index < OutputsMax
        BY <2>1, <3>1 DEF RemainderAccepted
      <4> QED
        BY <4>1, <4>2, ApiAssumption
    <3>2. CASE ~has_remainder
      BY <3>2, ApiAssumption DEF NoRemainder, UInt32
    <3> QED
      BY <3>1, <3>2
  <2>3. /\ internal \in BOOLEAN
        /\ internal => IsInternalTransfer(api, Decode[FALSE][api.blocks], has_remainder)
    BY DEF IsInternalTransfer
  <2> HIDE DEF internal
  <2> DEFINE a == Validated(has_remainder, r, internal)
  <2>4. Sound(api)
    BY DEF QuietInv, AnyInv
  <2>5. Sound(a)
    BY <2>1, <2>2, <2>3, <2>4, ValidatedIsSound
  <2>6. QuietApi(a, approved)
    BY <2>1, <2>2, <2>3, <2>4, ValidatedIsQuiet
  <2>7. Succeed(a, NoBody) /\ CanReceive
    BY <1>3 DEF PrepareSigning, internal
  <2> HIDE DEF a
  <2> QED
    BY <2>5, <2>6, <2>7, NoBodyKind, SucceedKeepsQuiet
<1> QED
  BY <1>2, <1>3

LEMMA PrepareBlindsigningKeepsQuiet ==
  ASSUME Undisturbed, QuietInv, PrepareBlindsigning
  PROVE  QuietInv'
<1>1. PrepareBlindsigningStatus \in StatusWords
  BY DEF PrepareBlindsigningStatus, StatusWords
<1>2. CASE PrepareBlindsigningStatus # "OK"
  BY <1>1, <1>2, PrepareBlindsigningThrows, ThrowKeepsQuiet DEF PrepareBlindsigning
<1>3. CASE PrepareBlindsigningStatus = "OK"
  <2>1. Decode[TRUE][api.blocks] # Malformed
    BY <1>3 DEF PrepareBlindsigningStatus
  <2>2. Sound(ValidatedBlind) /\ QuietApi(ValidatedBlind, approved)
    BY <2>1, ValidatedBlindIsSound, ValidatedBlindIsQuiet DEF QuietInv, AnyInv
  <2> QED
    BY <1>3, <2>2, NoBodyKind, SucceedKeepsQuiet DEF PrepareBlindsigning
<1> QED
  BY <1>2, <1>3

\* A validated essence that is not signed blindly has an output.
LEMMA HasOutputs ==
  ASSUME Sound(api), api.essence.inputs_count > 0, ~api.essence.blindsigning
  PROVE  /\ api.essence \in ParsedTypes
         /\ api.essence.outputs_count \in Nat /\ api.essence.outputs_count > 0
         /\ Decode[FALSE][api.blocks] # Malformed
         /\ Outputs = Decode[FALSE][api.blocks].outputs
         /\ Len(Outputs) = api.essence.outputs_count
<1>1. api.essence \in ParsedTypes
  BY DEF Sound, ApiTypes
<1>2. api.essence.blindsigning = FALSE
  BY <1>1 DEF ParsedTypes
<1>3. Decode[FALSE][api.blocks] # Malformed
      /\ Len(Decode[FALSE][api.blocks].outputs) = api.essence.outputs_count
  BY <1>2 DEF Sound
<1>4. WellFormed(Decode[FALSE][api.blocks], FALSE)
  BY <1>3, DecodedType
<1>5. api.essence.outputs_count \in Nat /\ api.essence.outputs_count > 0
  BY <1>3, <1>4, WellFormedBounds
<1> QED
  BY <1>1, <1>2, <1>3, <1>5 DEF Outputs, LiveEssence

LEMMA ReviewStartedShape ==
  ASSUME UiSound, NEW e \in ParsedTypes
  PROVE  /\ ReviewStarted(e).flow_active /\ ReviewStarted(e).callbacks = "essence"
         /\ ReviewStarted(e).current = 0
         /\ ReviewStarted(e).num_non_remainder_outputs = OutputsToReview(e)
         /\ ~StaysInWallet(e) => ReviewStarted(e).read_index = ReadIndex(0, e)
<1> DEFINE f == FlowStarted("essence")
           n == OutputsToReview(e)
           i == IF StaysInWallet(e) THEN 0 ELSE ReadIndex(0, e)
<1>1. f \in FlowTypes /\ f.flow_active /\ f.callbacks = "essence" /\ f.current = 0
  <2>1. NoFlow \in FlowTypes /\ NoFlow.current = 0
    BY NoFlowType DEF NoFlow
  <2>2. f \in FlowTypes
    BY FlowStartedType
  <2>3. f.flow_active /\ f.callbacks = "essence" /\ f.current = 0
    BY <2>1 DEF FlowStarted, FlowTypes
  <2> QED
    BY <2>2, <2>3
<1> HIDE DEF f, n, i
<1>2. ReviewStarted(e) = [f EXCEPT !.num_non_remainder_outputs = n, !.read_index = i]
  BY DEF ReviewStarted, f, n, i
<1>3. /\ ReviewStarted(e).flow_active /\ ReviewStarted(e).callbacks = "essence"
      /\ ReviewStarted(e).current = 0 /\ ReviewStarted(e).read_index = i
      /\ ReviewStarted(e).num_non_remainder_outputs = n
  BY <1>1, <1>2 DEF FlowTypes
<1> QED
  BY <1>3 DEF n, i

\* A transaction that leaves the wallet has an output to review.
LEMMA OutputsToReviewExist ==
  ASSUME NEW e \in ParsedTypes, e.outputs_count > 0, ~StaysInWallet(e)
  PROVE  OutputsToReview(e) \in Nat /\ OutputsToReview(e) > 0
<1>1. e.outputs_count \in Nat /\ e.has_remainder \in BOOLEAN
  BY ApiAssumption DEF ParsedTypes
<1>2. CASE e.has_remainder
  BY <1>1, <1>2 DEF OutputsToReview, StaysInWallet
<1>3. CASE ~e.has_remainder
  BY <1>1, <1>3 DEF OutputsToReview
<1> QED
  BY <1>1, <1>2, <1>3

LEMMA ConfirmSilentlyKeepsQuiet ==
  ASSUME Undisturbed, QuietInv, CanReceive, UserConfirmStatus = "OK", ConfirmSilently, AnyInv'
  PROVE  QuietInv'
<1>1. Idle /\ QuietApi(api, approved) /\ io \in LinkTypes /\ Sound(api)
  BY ReceivedWhenIdle DEF QuietInv, AnyInv, UiSound
<1>2. /\ io'.owed = io.owed /\ io'.stray = io.stray /\ io'.body = NoBody
      /\ UNCHANGED <<flow, screen>> /\ approved' = Subject
  BY <1>1, AnswerShape DEF ConfirmSilently, uiVars
<1>3. Idle'
  BY <1>1, <1>2 DEF Idle
<1>4. /\ api'.type = "USER_CONFIRMED_ESSENCE" /\ api'.essence = api.essence
      /\ api'.blocks = api.blocks /\ api'.length = api.length /\ api'.path = ConfirmPath
  BY <1>1 DEF ConfirmSilently, Sound, ApiTypes
<1>5. api'.path.coin = api.path.coin /\ api'.path.account = api.path.account
  BY <1>1, <1>4, ConfirmPathType
<1>6. api.type = "VALIDATED_ESSENCE"
  BY DEF UserConfirmStatus
<1>7. QuietApi(api', approved')
  BY <1>1, <1>2, <1>4, <1>5, <1>6
     DEF QuietApi, SubjectOf, Subject, BasicOf, OutputsAreOwn
<1>8. ApprovedBody'
  BY <1>2 DEF ApprovedBody, NoBody
<1> QED
  BY <1>3, <1>7, <1>8, IdleEndsQuiet

LEMMA ConfirmByReviewKeepsQuiet ==
  ASSUME Undisturbed, QuietInv, CanReceive, UserConfirmStatus = "OK", ConfirmByReview, AnyInv'
  PROVE  QuietInv'
<1>1. Idle /\ QuietApi(api, approved) /\ io \in LinkTypes /\ Sound(api) /\ UiSound
  BY ReceivedWhenIdle DEF QuietInv, AnyInv, UiSound
<1>2. api.type = "VALIDATED_ESSENCE" /\ api.essence.inputs_count > 0
  BY <1>1 DEF UserConfirmStatus, QuietApi, BasicOf
<1>3. /\ api'.type = api.type /\ api'.essence = api.essence
      /\ api'.blocks = api.blocks /\ api'.length = api.length /\ api'.path = ConfirmPath
  BY <1>1 DEF ConfirmByReview, Sound, ApiTypes
<1>4. api'.path.coin = api.path.coin /\ api'.path.account = api.path.account
  BY <1>1, <1>3, ConfirmPathType
<1>5. QuietApi(api', approved)
  BY <1>1, <1>3, <1>4, SimilarIsQuiet
<1>6. reviewed' = Subject'
  BY <1>3, <1>4 DEF ConfirmByReview, Subject
<1>7. io'.owed = 1 /\ ~io'.stray /\ io'.body = NoBody
  BY <1>1, DeferShape DEF ConfirmByReview, Idle
<1>8. /\ flow'.flow_active /\ flow'.callbacks = "essence"
      /\ screen' \in ReviewScreens \ {"new_address"}
      /\ PagesExist' /\ ScreenIsOfKind'
  <2>1. CASE api.essence.blindsigning
    <3>1. flow' = FlowStarted("essence") /\ screen' = BlindsigningScreen(nv.blindsigning)
          /\ nv' = nv
      BY <2>1 DEF ConfirmByReview
    <3>2. screen' \in {"blindsigning", "bs_not_enabled"}
          /\ (screen' = "blindsigning" => nv'.blindsigning)
      BY <3>1 DEF BlindsigningScreen
    <3> QED
      BY <3>1, <3>2, FlowStartedShape DEF PagesExist, ScreenIsOfKind, ReviewScreens
  <2>2. CASE ~api.essence.blindsigning
    <3> DEFINE e == api.essence
    <3>1. flow' = ReviewStarted(e)
          /\ screen' = TransactionScreen(e, api.app_mode = ShimmerClaiming)
      BY <2>2 DEF ConfirmByReview
    <3>2. e \in ParsedTypes /\ e.outputs_count > 0
      BY <1>1, <1>2, <2>2, HasOutputs
    <3>3. screen' \in {"transaction", "claiming", "internal_transfer"}
          /\ (screen' = "internal_transfer" <=> StaysInWallet(e))
      BY <3>1 DEF TransactionScreen
    <3>4. /\ flow'.flow_active /\ flow'.callbacks = "essence" /\ flow'.current = 0
          /\ flow'.num_non_remainder_outputs = OutputsToReview(e)
          /\ ~StaysInWallet(e) => flow'.read_index = ReadIndex(0, e)
      BY <1>1, <3>1, <3>2, ReviewStartedShape
    <3>5. api'.essence = e
      BY <1>3
    <3>6. ScreenIsOfKind'
      BY <2>2, <3>3, <3>5 DEF ScreenIsOfKind
    <3>7. ASSUME ~StaysInWallet(e)
          PROVE  0 \in 0..(OutputsToReview(e) - 1)
      BY <3>2, <3>7, OutputsToReviewExist
    <3> HIDE DEF e
    <3>8. PagesExist'
      BY <3>3, <3>4, <3>5, <3>7 DEF PagesExist
    <3> QED
      BY <3>3, <3>4, <3>6, <3>8 DEF ReviewScreens
  <2> QED
    BY <2>1, <2>2
<1>9. FlowOnScreen' /\ NewAddressIsOfShownPath' /\ ReviewMatchesBuffer'
  BY <1>2, <1>3, <1>6, <1>8 DEF FlowOnScreen, NewAddressIsOfShownPath, ReviewMatchesBuffer
<1>10. ConfirmedIsApproved' /\ SignatureIsApproved' /\ OneReplyPerCommand'
  BY <1>2, <1>3, <1>7, <1>8 DEF ConfirmedIsApproved, SignatureIsApproved,
                                OneReplyPerCommand, NoBody
<1> QED
  BY <1>5, <1>8, <1>9, <1>10 DEF QuietInv, QuietApi

LEMMA UserConfirmKeepsQuiet ==
  ASSUME Undisturbed, QuietInv, UserConfirmEssence
  PROVE  QuietInv'
<1>1. UserConfirmStatus \in StatusWords
  BY DEF UserConfirmStatus, StatusWords
<1>2. CASE UserConfirmStatus # "OK"
  BY <1>1, <1>2, ThrowKeepsQuiet DEF UserConfirmEssence
<1>3. CASE UserConfirmStatus = "OK"
  <2>1. AnyInv'
    BY UserConfirmKeepsAnyInv DEF QuietInv
  <2> QED
    BY <1>3, <2>1, ConfirmSilentlyKeepsQuiet, ConfirmByReviewKeepsQuiet
       DEF UserConfirmEssence
<1> QED
  BY <1>2, <1>3

\* A signature is of the confirmed essence, which is the approved one.
LEMMA SignKeepsQuiet ==
  ASSUME Undisturbed, QuietInv, NEW p1 \in 0..InputsMax, NEW derived \in BOOLEAN,
         Sign(p1, derived)
  PROVE  QuietInv'
<1> DEFINE sw == SignStatus(p1)
<1>1. sw \in StatusWords /\ "UNKNOWN" \in StatusWords
  BY DEF SignStatus, StatusWords
<1>2. CASE sw # "OK"
  BY <1>1, <1>2, SignThrows, ThrowKeepsQuiet DEF Sign
<1>3. CASE sw = "OK" /\ SignedBody(p1).kind = "signature" /\ ~derived
  BY <1>1, <1>3, SignThrows, ThrowKeepsQuiet DEF Sign
<1>4. CASE sw = "OK" /\ ~(SignedBody(p1).kind = "signature" /\ ~derived)
  <2>1. Idle /\ QuietApi(api, approved) /\ io \in LinkTypes /\ Sound(api)
    BY ReceivedWhenIdle DEF Sign, QuietInv, AnyInv, UiSound
  <2>2. AnyInv'
    BY SignKeepsAnyInv DEF QuietInv
  <2>3. /\ api' = [api EXCEPT !.path = PathAfterSign(p1)]
        /\ Answer("OK", SignedBody(p1)) /\ screen' = "busy"
        /\ UNCHANGED <<flow, timer, nv, history>>
    BY <1>4 DEF Sign
  <2>4. api.type = "USER_CONFIRMED_ESSENCE" /\ p1 < api.essence.inputs_count
    <3>1. api.type = "USER_CONFIRMED_ESSENCE" /\ ~(p1 >= api.essence.inputs_count)
      BY <1>4 DEF SignStatus
    <3>2. api.essence.inputs_count \in 0..InputsMax /\ InputsMax \in Nat
      BY <2>1, ApiAssumption DEF Sound, ApiTypes, ParsedTypes
    <3> QED
      BY <3>1, <3>2
  <2>5. /\ PathAfterSign(p1).coin = api.path.coin
        /\ PathAfterSign(p1).account = api.path.account
        /\ SignedBody(p1).kind = "signature" =>
             /\ SignedBody(p1).hash = api.essence.hash
             /\ SignedBody(p1).path.coin = api.path.coin
             /\ SignedBody(p1).path.account = api.path.account
    BY <2>1, <2>4, SignedType
  <2>6. io'.owed = io.owed /\ io'.stray = io.stray /\ io'.body = SignedBody(p1)
    BY <2>1, <2>3, AnswerShape
  <2>7. Idle'
    BY <2>1, <2>3, <2>6 DEF Idle, ReviewScreens
  <2>8. /\ api'.type = api.type /\ api'.essence = api.essence /\ api'.blocks = api.blocks
        /\ api'.length = api.length /\ api'.path = PathAfterSign(p1)
    BY <2>1, <2>3 DEF Sound, ApiTypes
  <2>9. QuietApi(api', approved')
    BY <2>1, <2>3, <2>5, <2>8, SimilarIsQuiet DEF history
  <2>10. approved.hash = api.essence.hash /\ approved.coin = api.path.coin
         /\ approved.account = api.path.account
    BY <2>1, <2>4 DEF QuietApi, SubjectOf
  <2>11. ApprovedBody'
    BY <2>3, <2>5, <2>6, <2>10 DEF ApprovedBody, history
  <2> QED
    BY <2>2, <2>7, <2>9, <2>11, IdleEndsQuiet
<1> QED
  BY <1>2, <1>3, <1>4

LEMMA SetModeKeepsQuiet ==
  ASSUME Undisturbed, QuietInv, NEW mode \in 0..2, SetNonInteractiveMode(mode)
  PROVE  QuietInv'
<1>1. CASE mode > 1
  <2>1. "INCORRECT_P1P2" \in StatusWords
    BY DEF StatusWords
  <2> QED
    BY <1>1, <2>1, ThrowKeepsQuiet DEF SetNonInteractiveMode
<1>2. CASE ~(mode > 1)
  <2> DEFINE on == mode = 1
             a == [api EXCEPT !.non_interactive_mode = on]
  <2>1. on \in BOOLEAN /\ Sound(api) /\ Debug
    BY DEF QuietInv, AnyInv, SetNonInteractiveMode
  <2> HIDE DEF on
  <2>2. Sound(a)
    BY <2>1, ModeChangeIsSound
  <2>3. /\ a.type = api.type /\ a.essence = api.essence /\ a.blocks = api.blocks
        /\ a.length = api.length /\ a.path = api.path
    BY <2>1 DEF Sound, ApiTypes
  <2>4. Succeed(a, NoBody) /\ CanReceive
    BY <1>2 DEF SetNonInteractiveMode, on
  <2>5. QuietApi(api, approved)
    BY <2>4, ReceivedWhenIdle
  <2> HIDE DEF a
  <2>6. QuietApi(a, approved)
    BY <2>3, <2>5, SimilarIsQuiet
  <2> QED
    BY <2>2, <2>4, <2>6, NoBodyKind, SucceedKeepsQuiet
<1> QED
  BY <1>1, <1>2

\* Nothing that QuietInv reads changes.
LEMMA QuietUnchanged ==
  ASSUME QuietInv, UNCHANGED vars
  PROVE  QuietInv'
<1>1. AnyInv'
  BY NextAnyInv DEF QuietInv
<1>2. UNCHANGED <<api, flow, screen, nv, io, reviewed, approved>>
  BY DEF vars
<1>3. FlowOnScreen' /\ PagesExist' /\ ScreenIsOfKind'
  BY <1>2 DEF QuietInv, FlowOnScreen, PagesExist, ScreenIsOfKind
<1>4. ReviewMatchesBuffer' /\ NewAddressIsOfShownPath' /\ ConfirmedIsApproved'
  BY <1>2 DEF QuietInv, ReviewMatchesBuffer, NewAddressIsOfShownPath,
              ConfirmedIsApproved, Subject
<1>5. SignatureIsApproved' /\ OneReplyPerCommand'
  BY <1>2 DEF QuietInv, SignatureIsApproved, OneReplyPerCommand
<1> QED
  BY <1>1, <1>2, <1>3, <1>4, <1>5 DEF QuietInv, OutputsAreOwn

LEMMA CommandKeepsQuiet ==
  ASSUME Undisturbed, QuietInv, Command
  PROVE  QuietInv'
<1>1. CASE HeaderError \/ DeviceIsLocked \/ UnknownInstruction
  <2>1. {"INCORRECT_LENGTH", "CLA_NOT_SUPPORTED", "INCORRECT_LENGTH_P3",
         "DEVICE_IS_LOCKED", "INS_NOT_SUPPORTED"} \subseteq StatusWords
    BY DEF StatusWords
  <2>2. CanReceive /\ \E sw \in StatusWords : Throw(sw)
    BY <1>1, <2>1 DEF HeaderError, DeviceIsLocked, UnknownInstruction
  <2> QED
    BY <2>2, ThrowKeepsQuiet
<1>2. CASE NoOperation
  BY <1>2, QuietUnchanged DEF NoOperation
<1>3. CASE GetAppConfig \/ GetDataBufferState \/ ShowFlow
  <2>1. CanReceive /\ Succeed(api, NoBody)
    BY <1>3 DEF GetAppConfig, GetDataBufferState, ShowFlow
  <2>2. Sound(api) /\ QuietApi(api, approved)
    BY <2>1, ReceivedWhenIdle DEF QuietInv, AnyInv
  <2> QED
    BY <2>1, <2>2, NoBodyKind, SucceedKeepsQuiet
<1>4. CASE Reset
  <2>1. CanReceive /\ Succeed(ApiStart, NoBody)
    BY <1>4 DEF Reset
  <2>2. QuietApi(ApiStart, approved)
    BY InitialIsUnparsed, UnparsedIsQuiet DEF ApiStart
  <2> QED
    BY <2>1, <2>2, StartIsSound, NoBodyKind, SucceedKeepsQuiet
<1>5. CASE ClearDataBuffer
  <2>1. CanReceive /\ Succeed(ApiCleared(api), NoBody)
    BY <1>5 DEF ClearDataBuffer
  <2>2. QuietApi(ApiCleared(api), approved) /\ Sound(ApiCleared(api))
    BY ClearedIsUnparsed, UnparsedIsQuiet, ClearedIsSound DEF QuietInv, AnyInv
  <2> QED
    BY <2>1, <2>2, NoBodyKind, SucceedKeepsQuiet
<1>6. CASE \E app_mode \in ModeArgs, account \in AccountArgs, len_ok \in BOOLEAN :
             SetAccount(app_mode, account, len_ok)
  BY <1>6, SetAccountKeepsQuiet
<1>7. CASE \E n \in 0..BlockCount, data \in BlockData, len_ok \in BOOLEAN :
             WriteDataBlock(n, data, len_ok)
  BY <1>7, WriteDataBlockKeepsQuiet
<1>8. CASE \E n \in 0..BlockCount : ReadDataBlock(n)
  BY <1>8, ReadDataBlockKeepsQuiet
<1>9. CASE \E show \in BOOLEAN, req \in Bip32Requests, len_ok \in BOOLEAN,
              derived \in 0..AddressesMax : GenerateAddress(show, req, len_ok, derived)
  BY <1>9, GenerateAddressKeepsQuiet
<1>10. CASE \E r \in Remainders, len_ok \in BOOLEAN, derived \in BOOLEAN :
              PrepareSigning(TRUE, r, len_ok, derived)
  BY <1>10, PrepareSigningKeepsQuiet
<1>11. CASE \E len_ok \in BOOLEAN, derived \in BOOLEAN :
              PrepareSigning(FALSE, NoRemainder, len_ok, derived)
  BY <1>11, PrepareSigningKeepsQuiet
<1>12. CASE PrepareBlindsigning
  BY <1>12, PrepareBlindsigningKeepsQuiet
<1>13. CASE UserConfirmEssence
  BY <1>13, UserConfirmKeepsQuiet
<1>14. CASE \E p1 \in 0..InputsMax, derived \in BOOLEAN : Sign(p1, derived)
  BY <1>14, SignKeepsQuiet
<1>15. CASE \E mode \in 0..2 : SetNonInteractiveMode(mode)
  BY <1>15, SetModeKeepsQuiet
<1> QED
  BY <1>1, <1>2, <1>3, <1>4, <1>5, <1>6, <1>7, <1>8, <1>9, <1>10, <1>11, <1>12,
     <1>13, <1>14, <1>15, Zenon DEF Command

-----------------------------------------------------------------------------
(* Steps of the user.                                                           *)

LEMMA AnswerFlowShape ==
  ASSUME io \in LinkTypes, io.owed = 1, ~io.stray, NEW sw, AnswerFlow(sw)
  PROVE  io'.owed = 0 /\ ~io'.stray /\ io'.body = NoBody
<1> DEFINE stray == io.stray \/ io.owed = 0
<1>1. stray = FALSE
  BY DEF LinkTypes
<1> HIDE DEF stray
<1>2. io' = [owed |-> 0, stray |-> stray, sw |-> sw, body |-> NoBody]
  BY DEF AnswerFlow, stray
<1> QED
  BY <1>1, <1>2

\* The end of a review leaves nothing of it behind.
LEMMA ReviewEndsQuiet ==
  ASSUME QuietInv, flow.flow_active, AnyInv', NEW sw, AnswerFlow(sw), FlowStop,
         QuietApi(api', approved')
  PROVE  QuietInv'
<1>1. io.owed = 1 /\ ~io.stray /\ io \in LinkTypes
  BY DEF QuietInv, OneReplyPerCommand, AnyInv, UiSound
<1>2. io'.owed = 0 /\ ~io'.stray /\ io'.body = NoBody
  BY <1>1, AnswerFlowShape
<1>3. Idle'
  BY <1>2 DEF FlowStop, Idle, NoFlow, ReviewScreens
<1>4. ApprovedBody'
  BY <1>2 DEF ApprovedBody, NoBody
<1> QED
  BY <1>3, <1>4, IdleEndsQuiet

LEMMA ClearedIsQuiet ==
  ASSUME NEW s
  PROVE  QuietApi(ApiCleared(api), s)
  BY ClearedIsUnparsed, UnparsedIsQuiet

\* What the user accepts is what the review showed.
LEMMA UserAcceptKeepsQuiet ==
  ASSUME QuietInv, UserAccept
  PROVE  QuietInv'
<1>1. screen \in ReviewScreens
  BY DEF UserAccept, AcceptOffered, AcceptScreens, ReviewScreens
<1>2. flow.flow_active /\ flow.callbacks = (IF screen = "new_address" THEN "address"
                                                                      ELSE "essence")
  BY <1>1 DEF QuietInv, FlowOnScreen, AnyInv, UiSound, ReviewHasCallbacks
<1>3. AnyInv'
  BY UserAcceptKeepsAnyInv DEF QuietInv
<1>4. AnswerFlow("OK") /\ FlowStop
  BY DEF UserAccept, AcceptCallback
<1> DEFINE type == IF flow.callbacks = "address" THEN "GENERATED_ADDRESSES"
                                                 ELSE "USER_CONFIRMED_ESSENCE"
<1>5. api' = [api EXCEPT !.type = type] /\ api \in ApiTypes
  BY DEF UserAccept, AcceptCallback, QuietInv, AnyInv, Sound
<1> HIDE DEF type
<1>6. /\ api'.type = type /\ api'.essence = api.essence /\ api'.blocks = api.blocks
      /\ api'.path = api.path /\ api'.length = api.length
  BY <1>5 DEF ApiTypes
<1>7. OutputsAreOwn(api')
  BY <1>6 DEF QuietInv, OutputsAreOwn
<1>8. CASE flow.callbacks = "address"
  <2>1. type = "GENERATED_ADDRESSES"
    BY <1>8 DEF type
  <2>2. QuietApi(api', approved')
    BY <1>6, <1>7, <2>1 DEF QuietApi
  <2> QED
    BY <1>2, <1>3, <1>4, <2>2, ReviewEndsQuiet
<1>9. CASE flow.callbacks = "essence"
  <2>1. type = "USER_CONFIRMED_ESSENCE" /\ approved' = reviewed
    BY <1>9 DEF type, UserAccept
  <2>2. api.type = "VALIDATED_ESSENCE" /\ reviewed = Subject
    BY <1>9 DEF QuietInv, ReviewMatchesBuffer
  <2>3. BasicOf(api') /\ approved' = SubjectOf(api')
    BY <1>6, <2>1, <2>2 DEF QuietInv, BasicOf, SubjectOf, Subject
  <2>4. QuietApi(api', approved')
    BY <1>6, <1>7, <2>1, <2>3 DEF QuietApi
  <2> QED
    BY <1>2, <1>3, <1>4, <2>4, ReviewEndsQuiet
<1> QED
  BY <1>2, <1>8, <1>9

LEMMA UserRejectKeepsQuiet ==
  ASSUME QuietInv, UserReject
  PROVE  QuietInv'
<1>1. flow.flow_active
  BY DEF QuietInv, FlowOnScreen, UserReject, RejectScreens
<1>2. AnyInv'
  BY UserRejectKeepsAnyInv DEF QuietInv
<1>3. AnswerFlow("DENIED_BY_USER") /\ FlowStop /\ api' = ApiCleared(api)
  BY DEF UserReject, RejectCallback
<1> QED
  BY <1>1, <1>2, <1>3, ClearedIsQuiet, ReviewEndsQuiet

\* A step that leaves context, link and approval alone keeps what reads only them.
LEMMA UiStepKeeps ==
  ASSUME QuietInv, UNCHANGED <<api, io, reviewed, approved>>,
         flow'.callbacks = flow.callbacks, flow'.flow_active = flow.flow_active
  PROVE  /\ ReviewMatchesBuffer' /\ ConfirmedIsApproved' /\ SignatureIsApproved'
         /\ OneReplyPerCommand' /\ OutputsAreOwn(api')
         /\ api'.type \in {"VALIDATED_ESSENCE", "USER_CONFIRMED_ESSENCE"} => BasicOf(api')
  BY DEF QuietInv, ReviewMatchesBuffer, ConfirmedIsApproved, SignatureIsApproved,
         OneReplyPerCommand, Subject

LEMMA ContinueClaimingKeepsQuiet ==
  ASSUME QuietInv, ContinueClaiming, AnyInv'
  PROVE  QuietInv'
<1>1. screen = "claiming" /\ screen' = "transaction"
      /\ UNCHANGED <<api, flow, nv, io, reviewed, approved>>
  BY DEF ContinueClaiming, history
<1>2. FlowOnScreen' /\ PagesExist' /\ ScreenIsOfKind' /\ NewAddressIsOfShownPath'
  BY <1>1 DEF QuietInv, FlowOnScreen, PagesExist, ScreenIsOfKind,
              NewAddressIsOfShownPath, ReviewScreens
<1> QED
  BY <1>1, <1>2, UiStepKeeps DEF QuietInv

\* Paging goes around the outputs under review.
LEMMA ChangeOutputKeepsQuiet ==
  ASSUME QuietInv, ChangeOutput, AnyInv'
  PROVE  QuietInv'
<1> DEFINE n == flow.num_non_remainder_outputs
<1>1. screen = "transaction" /\ UNCHANGED <<api, screen, nv, io, reviewed, approved>>
  BY DEF ChangeOutput, history
<1>2. flow \in FlowTypes
  BY DEF QuietInv, AnyInv, UiSound
<1>3. n \in Int /\ n = OutputsToReview(api.essence) /\ flow.current \in 0..(n - 1)
  BY <1>1, <1>2 DEF QuietInv, PagesExist, FlowTypes
<1>4. PICK i \in {NextOutput(flow.current), PrevOutput(flow.current)} :
        ShowOutput(i, api.essence)
  BY DEF ChangeOutput
<1>5. i \in 0..(n - 1)
  BY <1>3 DEF NextOutput, PrevOutput
<1>6. flow' = [flow EXCEPT !.current = i, !.read_index = ReadIndex(i, api.essence)]
  BY <1>4 DEF ShowOutput
<1>7. /\ flow'.callbacks = flow.callbacks /\ flow'.flow_active = flow.flow_active
      /\ flow'.num_non_remainder_outputs = n
      /\ flow'.current = i /\ flow'.read_index = ReadIndex(i, api.essence)
  BY <1>2, <1>6 DEF FlowTypes
<1> HIDE DEF n
<1>8. PagesExist'
  BY <1>1, <1>3, <1>5, <1>7 DEF PagesExist
<1>9. FlowOnScreen' /\ ScreenIsOfKind' /\ NewAddressIsOfShownPath'
  BY <1>1, <1>7 DEF QuietInv, FlowOnScreen, ScreenIsOfKind, NewAddressIsOfShownPath
<1> QED
  BY <1>1, <1>7, <1>8, <1>9, UiStepKeeps DEF QuietInv

\* The output of every page, and the outputs of no page.
LEMMA ReadIndexSkips ==
  ASSUME NEW e \in ParsedTypes,
         e.has_remainder => e.remainder_index < e.outputs_count
  PROVE  /\ \A i \in 0..(OutputsToReview(e) - 1) : ReadIndex(i, e) \in 0..(e.outputs_count - 1)
         /\ \A n \in 0..(e.outputs_count - 1) :
              \/ \E i \in 0..(OutputsToReview(e) - 1) : n = ReadIndex(i, e)
              \/ e.has_remainder /\ n = e.remainder_index
<1>1. e.outputs_count \in Nat /\ e.remainder_index \in Nat /\ e.has_remainder \in BOOLEAN
  BY ApiAssumption DEF ParsedTypes
<1>2. ASSUME NEW i \in 0..(OutputsToReview(e) - 1)
      PROVE  ReadIndex(i, e) \in 0..(e.outputs_count - 1)
  BY <1>1 DEF OutputsToReview, ReadIndex
<1>3. ASSUME NEW n \in 0..(e.outputs_count - 1), ~(e.has_remainder /\ n = e.remainder_index)
      PROVE  \E i \in 0..(OutputsToReview(e) - 1) : n = ReadIndex(i, e)
  <2> DEFINE i == IF e.has_remainder /\ n > e.remainder_index THEN n - 1 ELSE n
  <2>1. i \in 0..(OutputsToReview(e) - 1)
    BY <1>1, <1>3 DEF OutputsToReview
  <2>2. n = ReadIndex(i, e)
    BY <1>1, <1>3 DEF ReadIndex
  <2> HIDE DEF i
  <2> QED
    BY <2>1, <2>2
<1> QED
  BY <1>2, <1>3

\* An undisturbed display always has an output with a rendering to show.
LEMMA DisplayNeverFails ==
  ASSUME Undisturbed, QuietInv
  PROVE  ~DisplayError
<1> SUFFICES ASSUME DisplayError PROVE FALSE
  OBVIOUS
<1> DEFINE e == api.essence
<1>1. screen = "transaction" /\ DisplayFails
  BY DEF DisplayError
<1>2. flow.callbacks = "essence"
  BY <1>1 DEF QuietInv, AnyInv, UiSound, ReviewHasCallbacks, ReviewScreens
<1>3. api.type = "VALIDATED_ESSENCE" /\ Sound(api) /\ e.inputs_count > 0
  BY <1>2 DEF QuietInv, ReviewMatchesBuffer, AnyInv, BasicOf
<1>4. ~e.blindsigning
  BY <1>1 DEF QuietInv, ScreenIsOfKind
<1>5. /\ e \in ParsedTypes /\ Decode[FALSE][api.blocks] # Malformed
      /\ Outputs = Decode[FALSE][api.blocks].outputs /\ Len(Outputs) = e.outputs_count
  BY <1>3, <1>4, HasOutputs
<1>6. e.has_remainder => e.remainder_index < e.outputs_count
  BY <1>3, <1>4 DEF QuietInv, OutputsAreOwn
<1>7. flow.read_index \in 0..(e.outputs_count - 1)
  BY <1>1, <1>5, <1>6, ReadIndexSkips DEF QuietInv, PagesExist
<1>8. e.outputs_count \in Nat
  BY <1>5, ApiAssumption DEF ParsedTypes
<1> DEFINE i == flow.read_index + 1
<1>9. i \in 1..Len(Outputs) /\ flow.read_index < e.outputs_count
  BY <1>5, <1>7, <1>8
<1>10. Outputs[i].amount >= DisplayLimit
  BY <1>1, <1>9 DEF DisplayFails
<1>11. api.blocks \in Blocks
  BY <1>3 DEF Sound, ApiTypes
<1>12. Outputs[i].amount < DisplayLimit
  BY <1>5, <1>9, <1>11 DEF Undisturbed
<1>13. Outputs[i].amount \in Nat
  <2>1. WellFormed(Decode[FALSE][api.blocks], FALSE)
    BY <1>3, <1>5, DecodedType
  <2>2. Outputs \in Seq([address : Addresses, amount : Nat])
    BY <1>5, <2>1 DEF WellFormed, Essences
  <2>3. i \in 1..Len(Outputs)
    BY <1>9
  <2> HIDE DEF i
  <2>4. \A S, outputs : outputs \in Seq(S) => \A k \in 1..Len(outputs) : outputs[k] \in S
    OBVIOUS
  <2>5. Outputs[i] \in [address : Addresses, amount : Nat]
    BY <2>2, <2>3, <2>4, Zenon
  <2> QED
    BY <2>5
<1>14. DisplayLimit \in Nat
  BY ArgsAssumption
<1> QED
  BY <1>10, <1>12, <1>13, <1>14

LEMMA UserStepKeepsQuiet ==
  ASSUME Undisturbed, QuietInv, UserStep
  PROVE  QuietInv'
<1>1. AnyInv'
  BY UserStepKeepsAnyInv DEF QuietInv
<1>2. CASE EnterSettings \/ BackToMenu
  <2>1. UNCHANGED <<api, flow, nv, io, reviewed, approved>>
        /\ screen \notin ReviewScreens /\ screen' \in {"settings", "menu"}
    BY <1>2 DEF EnterSettings, BackToMenu, history, ReviewScreens
  <2>2. FlowOnScreen' /\ PagesExist' /\ ScreenIsOfKind' /\ NewAddressIsOfShownPath'
    BY <2>1 DEF QuietInv, FlowOnScreen, PagesExist, ScreenIsOfKind,
                NewAddressIsOfShownPath, ReviewScreens
  <2> QED
    BY <1>1, <2>1, <2>2, UiStepKeeps DEF QuietInv
<1>3. CASE ToggleBlindsigning
  <2>1. UNCHANGED <<api, flow, screen, io, reviewed, approved>> /\ screen = "settings"
    BY <1>3 DEF ToggleBlindsigning, uiVars, history
  <2>2. FlowOnScreen' /\ PagesExist' /\ ScreenIsOfKind' /\ NewAddressIsOfShownPath'
    BY <2>1 DEF QuietInv, FlowOnScreen, PagesExist, ScreenIsOfKind,
                NewAddressIsOfShownPath
  <2> QED
    BY <1>1, <2>1, <2>2, UiStepKeeps DEF QuietInv
<1> QED
  BY <1>1, <1>2, <1>3, UserAcceptKeepsQuiet, UserRejectKeepsQuiet, DisplayNeverFails,
     ContinueClaimingKeepsQuiet, ChangeOutputKeepsQuiet DEF UserStep

-----------------------------------------------------------------------------
(* The ticker, restarts, and the invariant.                                     *)

LEMMA TickKeepsQuiet ==
  ASSUME QuietInv, Tick
  PROVE  QuietInv'
<1>1. AnyInv'
  BY TickKeepsAnyInv DEF QuietInv
<1>2. CASE FlowExpired(Now)
  <2>1. flow.flow_active /\ FlowStop /\ AnswerFlow("COMMAND_TIMEOUT")
        /\ api' = ApiCleared(api)
    BY <1>2 DEF Tick, FlowExpired, TimeoutCallback
  <2> QED
    BY <1>1, <2>1, ClearedIsQuiet, ReviewEndsQuiet
<1>3. CASE ~FlowExpired(Now)
  <2>1. UNCHANGED <<api, flow, screen, nv, io, reviewed, approved>>
    BY <1>3 DEF Tick, history
  <2>2. FlowOnScreen' /\ PagesExist' /\ ScreenIsOfKind' /\ NewAddressIsOfShownPath'
    BY <2>1 DEF QuietInv, FlowOnScreen, PagesExist, ScreenIsOfKind,
                NewAddressIsOfShownPath
  <2> QED
    BY <1>1, <2>1, <2>2, UiStepKeeps DEF QuietInv
<1> QED
  BY <1>2, <1>3

LEMMA StartIsQuiet ==
  ASSUME NEW s
  PROVE  QuietApi(ApiStart, s)
  BY InitialIsUnparsed, UnparsedIsQuiet DEF ApiStart

LEMMA RestartKeepsQuiet ==
  ASSUME QuietInv, Restart
  PROVE  QuietInv'
<1>1. AnyInv'
  BY RestartKeepsAnyInv DEF QuietInv
<1>2. Idle' /\ ApprovedBody'
  BY DEF Restart, Idle, ApprovedBody, NoFlow, LinkInitial, NoBody, ReviewScreens
<1>3. QuietApi(api', approved')
  BY StartIsQuiet DEF Restart
<1> QED
  BY <1>1, <1>2, <1>3, IdleEndsQuiet

LEMMA InitQuietInv == Init => QuietInv
<1> SUFFICES ASSUME Init PROVE QuietInv
  OBVIOUS
<1>1. Idle /\ ApprovedBody
  BY DEF Init, Idle, ApprovedBody, NoFlow, LinkInitial, NoBody, ReviewScreens
<1>2. QuietApi(api, approved)
  BY StartIsQuiet DEF Init
<1> QED
  BY <1>1, <1>2, InitAnyInv, IdleIsQuiet

LEMMA NextQuietInv ==
  ASSUME Undisturbed
  PROVE  QuietInv /\ [Next]_vars => QuietInv'
<1> SUFFICES ASSUME QuietInv, [Next]_vars PROVE QuietInv'
  OBVIOUS
<1>1. CASE UNCHANGED vars
  BY <1>1, QuietUnchanged
<1> QED
  BY <1>1, CommandKeepsQuiet, UserStepKeepsQuiet, TickKeepsQuiet, RestartKeepsQuiet
     DEF Next

LEMMA QuietInvInvariant ==
  ASSUME Undisturbed
  PROVE  Spec => []QuietInv
<1>1. QuietInv /\ [Next]_vars => QuietInv'
  BY NextQuietInv
<1> QED
  BY <1>1, InitQuietInv, PTL DEF Spec

-----------------------------------------------------------------------------
(* What the invariant says.                                                     *)

LEMMA QuietImplies ==
  QuietInv => /\ ReviewMatchesBuffer /\ ConfirmedIsApproved /\ SignatureIsApproved
              /\ OneReplyPerCommand /\ NewAddressIsOfShownPath
  BY DEF QuietInv

\* Of the basic checks, the types give the bounds.
LEMMA QuietPassesChecks == QuietInv => ValidatedPassesChecks
<1> SUFFICES ASSUME QuietInv, BasicOf(api) PROVE BasicChecksPass
  BY DEF QuietInv, ValidatedPassesChecks
<1>1. /\ api.length \in 0..(BufferSize - 1) /\ api.essence.length \in 0..(BufferSize - 1)
      /\ api.essence.inputs_count \in 0..InputsMax
  BY DEF QuietInv, AnyInv, Sound, ApiTypes, ParsedTypes
<1> QED
  BY <1>1, ApiAssumption DEF BasicOf, BasicChecksPass

\* What is owned is an own address.
LEMMA OwnedIsOwn ==
  ASSUME Sound(api), NEW address, OwnedBy(api.path.coin, api.path.account, address)
  PROVE  OwnAddress(address)
<1>1. PICK change \in UInt32, index \in UInt32 :
        address = [key |-> [coin |-> api.path.coin, account |-> api.path.account,
                            bip32_change |-> change, bip32_index |-> index]]
  BY DEF OwnedBy
<1>2. api.path \in Paths
  BY DEF Sound, ApiTypes
<1>3. [api.path EXCEPT !.bip32_change = change, !.bip32_index = index] =
        [coin |-> api.path.coin, account |-> api.path.account,
         bip32_change |-> change, bip32_index |-> index]
  <2> DEFINE Other == [api.path EXCEPT !.bip32_change = change, !.bip32_index = index]
  <2>1. Other \in Paths /\ Other.bip32_change = change /\ Other.bip32_index = index
        /\ Other.coin = api.path.coin /\ Other.account = api.path.account
    BY <1>2 DEF Paths
  <2> HIDE DEF Other
  <2>2. Other = [coin |-> Other.coin, account |-> Other.account,
                 bip32_change |-> Other.bip32_change, bip32_index |-> Other.bip32_index]
    BY <2>1 DEF Paths
  <2> QED
    BY <2>1, <2>2 DEF Other
<1> QED
  BY <1>1, <1>3 DEF OwnAddress, AddressOf

\* In the review of a transaction each output is on a page or stays in the account.
LEMMA QuietShowsAll == QuietInv => NothingLeavesUnseen
<1> SUFFICES ASSUME QuietInv, screen \in {"transaction", "claiming", "internal_transfer"}
             PROVE  /\ ShownOutputs \subseteq 0..(api.essence.outputs_count - 1)
                    /\ \A n \in 0..(api.essence.outputs_count - 1) :
                         n \in ShownOutputs \/ OwnAddress(Outputs[n + 1].address)
  BY DEF NothingLeavesUnseen
<1> DEFINE e == api.essence
<1>1. flow.callbacks = "essence"
  BY DEF QuietInv, AnyInv, UiSound, ReviewHasCallbacks, ReviewScreens
<1>2. api.type = "VALIDATED_ESSENCE" /\ Sound(api) /\ e.inputs_count > 0
  BY <1>1 DEF QuietInv, ReviewMatchesBuffer, AnyInv, BasicOf
<1>3. ~e.blindsigning
  BY DEF QuietInv, ScreenIsOfKind
<1>4. e \in ParsedTypes /\ Outputs = Decode[FALSE][api.blocks].outputs
  BY <1>2, <1>3, HasOutputs
<1>5. /\ e.has_remainder => /\ e.remainder_index < e.outputs_count
                            /\ OwnedBy(api.path.coin, api.path.account,
                                       Outputs[e.remainder_index + 1].address)
      /\ e.is_internal_transfer => /\ e.outputs_count = 1
                                   /\ OwnedBy(api.path.coin, api.path.account,
                                              Outputs[1].address)
  BY <1>2, <1>3, <1>4 DEF QuietInv, OutputsAreOwn
<1>6. /\ e.has_remainder => OwnAddress(Outputs[e.remainder_index + 1].address)
      /\ e.is_internal_transfer => OwnAddress(Outputs[1].address)
  BY <1>2, <1>5, OwnedIsOwn
<1>7. e.outputs_count \in Nat /\ e.remainder_index \in Nat
  BY <1>4, ApiAssumption DEF ParsedTypes
<1>8. CASE screen \in {"transaction", "claiming"}
  <2>1. ShownOutputs = { ReadIndex(i, e) : i \in 0..(OutputsToReview(e) - 1) }
    BY <1>8 DEF QuietInv, PagesExist, ShownOutputs
  <2>2. /\ \A i \in 0..(OutputsToReview(e) - 1) : ReadIndex(i, e) \in 0..(e.outputs_count - 1)
        /\ \A n \in 0..(e.outputs_count - 1) :
             \/ \E i \in 0..(OutputsToReview(e) - 1) : n = ReadIndex(i, e)
             \/ e.has_remainder /\ n = e.remainder_index
    BY <1>4, <1>5, ReadIndexSkips
  <2> HIDE DEF e
  <2>3. ShownOutputs \subseteq 0..(e.outputs_count - 1)
    BY <2>1, <2>2
  <2>4. ASSUME NEW n \in 0..(e.outputs_count - 1), n \notin ShownOutputs
        PROVE  OwnAddress(Outputs[n + 1].address)
    <3>1. e.has_remainder /\ n = e.remainder_index
      BY <2>1, <2>2, <2>4
    <3> QED
      BY <1>6, <3>1
  <2> QED
    BY <2>3, <2>4 DEF e
<1>9. CASE screen = "internal_transfer"
  <2>1. ShownOutputs = {} /\ StaysInWallet(e)
    BY <1>9 DEF QuietInv, ScreenIsOfKind, ShownOutputs
  <2>2. e.outputs_count = 1 /\ OwnAddress(Outputs[1].address)
    <3>1. CASE e.is_internal_transfer
      BY <1>5, <1>6, <3>1
    <3>2. CASE e.has_remainder /\ e.outputs_count = 1
      <4>1. e.remainder_index + 1 = 1
        BY <1>5, <1>7, <3>2
      <4> QED
        BY <1>6, <3>2, <4>1
    <3> QED
      BY <2>1, <3>1, <3>2 DEF StaysInWallet
  <2>3. \A n \in 0..(e.outputs_count - 1) : n + 1 = 1
    BY <2>2
  <2> QED
    BY <2>1, <2>2, <2>3
<1> QED
  BY <1>8, <1>9

-----------------------------------------------------------------------------
(* The theorems: what holds when one command is in flight at a time and every     *)
(* accepted amount can be displayed.                                            *)

\* A review always reads the buffer and the account it was started with.
THEOREM LedgerAppReviewsBuffer ==
  ASSUME Undisturbed
  PROVE  Spec => []ReviewMatchesBuffer
  BY QuietInvInvariant, QuietImplies, PTL

\* A confirmed essence was approved: this essence, for this coin and account.
THEOREM LedgerAppConfirmsApproved ==
  ASSUME Undisturbed
  PROVE  Spec => []ConfirmedIsApproved
  BY QuietInvInvariant, QuietImplies, PTL

\* Only the approved essence is signed, only with keys of the approved account.
THEOREM LedgerAppSignsApproved ==
  ASSUME Undisturbed
  PROVE  Spec => []SignatureIsApproved
  BY QuietInvInvariant, QuietImplies, PTL

\* Every command is answered once: by its handler, or by the review it started.
THEOREM LedgerAppRepliesOnce ==
  ASSUME Undisturbed
  PROVE  Spec => []OneReplyPerCommand
  BY QuietInvInvariant, QuietImplies, PTL

\* The checks that api_sign repeats never fail.
THEOREM LedgerAppPassesChecks ==
  ASSUME Undisturbed
  PROVE  Spec => []ValidatedPassesChecks
  BY QuietInvInvariant, QuietPassesChecks, PTL

\* The review of a transaction shows every output that leaves the account.
THEOREM LedgerAppShowsAll ==
  ASSUME Undisturbed
  PROVE  Spec => []NothingLeavesUnseen
  BY QuietInvInvariant, QuietShowsAll, PTL

\* A new address is shown with the path it was derived from.
THEOREM LedgerAppShowsAddress ==
  ASSUME Undisturbed
  PROVE  Spec => []NewAddressIsOfShownPath
  BY QuietInvInvariant, QuietImplies, PTL

-----------------------------------------------------------------------------
(* Confirming blindly.                                                          *)

\* How a command changes the type of the buffer to confirmed.
LEMMA CommandConfirms ==
  ASSUME AnyInv, Command, api'.type = "USER_CONFIRMED_ESSENCE", api'.type # api.type
  PROVE  UserConfirmEssence /\ ConfirmSilently
<1>1. ApiStart.type = "EMPTY"
  BY InitialIsUnparsed DEF ApiStart
<1>2. \A sw : Throw(sw) \/ ThrowBusy(api, sw) => api' = api \/ api'.type = "EMPTY"
  BY <1>1 DEF Throw, ThrowFrom, ThrowBusy, CatchOther
<1>3. \A a, body : Succeed(a, body) => api' = a
  BY DEF Succeed
<1>4. Sound(api) /\ api \in ApiTypes
  BY DEF AnyInv, Sound
<1>5. CASE HeaderError \/ DeviceIsLocked \/ UnknownInstruction
  BY <1>2, <1>5 DEF HeaderError, DeviceIsLocked, UnknownInstruction
<1>6. CASE NoOperation
  BY <1>6 DEF NoOperation, vars
<1>7. CASE GetAppConfig \/ GetDataBufferState \/ ShowFlow \/ Reset \/ ClearDataBuffer
  BY <1>1, <1>3, <1>7, ClearedIsUnparsed
     DEF GetAppConfig, GetDataBufferState, ShowFlow, Reset, ClearDataBuffer
<1>8. CASE \E app_mode \in ModeArgs, account \in AccountArgs, len_ok \in BOOLEAN :
             SetAccount(app_mode, account, len_ok)
  BY <1>2, <1>3, <1>8, InitialIsUnparsed DEF SetAccount, AccountSelected
<1>9. CASE \E n \in 0..BlockCount, data \in BlockData, len_ok \in BOOLEAN :
             WriteDataBlock(n, data, len_ok)
  <2>1. PICK n \in 0..BlockCount, data \in BlockData, len_ok \in BOOLEAN :
          WriteDataBlock(n, data, len_ok)
    BY <1>9
  <2>2. Succeed([api EXCEPT !.blocks[n] = data], NoBody)
    BY <1>2, <2>1 DEF WriteDataBlock
  <2>3. api' = [api EXCEPT !.blocks[n] = data]
    BY <1>3, <2>2
  <2> QED
    BY <1>4, <2>3 DEF ApiTypes
<1>10. CASE \E n \in 0..BlockCount : ReadDataBlock(n)
  BY <1>2, <1>3, <1>10 DEF ReadDataBlock
<1>11. CASE \E show \in BOOLEAN, req \in Bip32Requests, len_ok \in BOOLEAN,
               derived \in 0..AddressesMax : GenerateAddress(show, req, len_ok, derived)
  <2>1. PICK show \in BOOLEAN, req \in Bip32Requests, len_ok \in BOOLEAN,
             derived \in 0..AddressesMax : GenerateAddress(show, req, len_ok, derived)
    BY <1>11
  <2>2. GenerateAddressStatus(show, req, len_ok) = "OK"
        /\ (GenerateSilently(show, req) \/ GenerateForReview(show, req))
    BY <1>2, <2>1, GenerateAddressThrows
  <2>3. api.type = "EMPTY" /\ RequestIsValid(show, req)
    BY <2>2 DEF GenerateAddressStatus
  <2>4. GenerateSilently(show, req) => api'.type = "GENERATED_ADDRESSES"
    BY <1>4, <2>3, GeneratedShape DEF GenerateSilently
  <2>5. GenerateForReview(show, req) => api'.type = "LOCKED"
    BY <1>4, <2>3, ReviewedAddressShape DEF GenerateForReview, RequestIsValid
  <2> QED
    BY <2>2, <2>4, <2>5
<1>12. ASSUME NEW has_remainder, NEW r, NEW len_ok, NEW derived,
              PrepareSigning(has_remainder, r, len_ok, derived)
       PROVE  FALSE
  <2>1. \A internal : Validated(has_remainder, r, internal).type = "VALIDATED_ESSENCE"
    <3> TAKE internal
    <3> DEFINE e == Decode[FALSE][api.blocks]
               parsed == ParsedEssence(e, FALSE, has_remainder, r, internal)
               path == IF has_remainder THEN RemainderPath(api.path, r) ELSE api.path
    <3>1. Validated(has_remainder, r, internal) =
            [api EXCEPT !.type = "VALIDATED_ESSENCE", !.length = e.data_length,
                        !.path = path, !.essence = parsed]
      BY <1>4 DEF Validated
    <3> HIDE DEF e, parsed, path
    <3> QED
      BY <1>4, <3>1 DEF ApiTypes
  <2> QED
    BY <1>2, <1>3, <1>12, <2>1, PrepareSigningThrows DEF PrepareSigning
<1>13. CASE PrepareBlindsigning
  <2>1. ValidatedBlind.type = "VALIDATED_ESSENCE"
    <3> DEFINE e == Decode[TRUE][api.blocks]
               parsed == ParsedEssence(e, TRUE, FALSE, NoRemainder, FALSE)
    <3>1. ValidatedBlind = [api EXCEPT !.type = "VALIDATED_ESSENCE",
                                       !.length = e.data_length, !.essence = parsed]
      BY DEF ValidatedBlind
    <3> HIDE DEF e, parsed
    <3> QED
      BY <1>4, <3>1 DEF ApiTypes
  <2> QED
    BY <1>2, <1>3, <1>13, <2>1, PrepareBlindsigningThrows DEF PrepareBlindsigning
<1>14. CASE UserConfirmEssence
  <2>1. ConfirmSilently \/ ConfirmByReview
    BY <1>2, <1>14 DEF UserConfirmEssence
  <2>2. ~ConfirmByReview
    BY <1>4 DEF ConfirmByReview, ApiTypes
  <2> QED
    BY <1>14, <2>1, <2>2
<1>15. CASE \E p1 \in 0..InputsMax, derived \in BOOLEAN : Sign(p1, derived)
  <2>1. PICK p1 \in 0..InputsMax, derived \in BOOLEAN : Sign(p1, derived)
    BY <1>15
  <2>2. api' = [api EXCEPT !.path = PathAfterSign(p1)]
    BY <1>2, <2>1, SignThrows DEF Sign
  <2> QED
    BY <1>4, <2>2 DEF ApiTypes
<1>16. CASE \E mode \in 0..2 : SetNonInteractiveMode(mode)
  <2>1. PICK mode \in 0..2 : SetNonInteractiveMode(mode)
    BY <1>16
  <2>2. api' = [api EXCEPT !.non_interactive_mode = (mode = 1)]
    BY <1>2, <1>3, <2>1 DEF SetNonInteractiveMode
  <2> QED
    BY <1>4, <2>2 DEF ApiTypes
<1>17. CASE \E r \in Remainders, len_ok \in BOOLEAN, derived \in BOOLEAN :
              PrepareSigning(TRUE, r, len_ok, derived)
  BY <1>12, <1>17
<1>18. CASE \E len_ok \in BOOLEAN, derived \in BOOLEAN :
              PrepareSigning(FALSE, NoRemainder, len_ok, derived)
  BY <1>12, <1>18
<1> QED
  BY <1>5, <1>6, <1>7, <1>8, <1>9, <1>10, <1>11, <1>13, <1>14, <1>15, <1>16, <1>17,
     <1>18, Zenon DEF Command

\* Blind signing is confirmed with the setting on, or in debug mode.
THEOREM LedgerAppConfirmsBlindly ==
  ASSUME Undisturbed
  PROVE  Spec => BlindConfirmNeedsSetting
<1> DEFINE A == (api'.type = "USER_CONFIRMED_ESSENCE" /\ api.type # api'.type
                 /\ api.essence.blindsigning /\ ~api.non_interactive_mode)
                  => nv.blindsigning
<1>1. QuietInv /\ [Next]_vars => [A]_vars
  <2> SUFFICES ASSUME QuietInv, Next, api'.type = "USER_CONFIRMED_ESSENCE",
                      api.type # api'.type, api.essence.blindsigning,
                      ~api.non_interactive_mode
               PROVE  nv.blindsigning
    OBVIOUS
  <2>1. CASE Command
    BY <2>1, CommandConfirms DEF QuietInv, ConfirmSilently
  <2>2. CASE UserAccept
    <3>1. screen \in AcceptScreens /\ api' = [api EXCEPT !.type =
            IF flow.callbacks = "address" THEN "GENERATED_ADDRESSES"
                                          ELSE "USER_CONFIRMED_ESSENCE"]
      BY <2>2 DEF UserAccept, AcceptCallback, AcceptOffered
    <3>2. flow.callbacks # "address"
      BY <3>1 DEF QuietInv, AnyInv, Sound, ApiTypes
    <3>3. screen # "new_address"
      BY <3>2 DEF QuietInv, AnyInv, UiSound, ReviewHasCallbacks, ReviewScreens
    <3> QED
      BY <3>1, <3>3 DEF QuietInv, ScreenIsOfKind, AcceptScreens
  <2>3. CASE UserReject
    BY <2>3, ClearedIsUnparsed DEF UserReject, RejectCallback
  <2>4. CASE ContinueClaiming \/ ChangeOutput \/ EnterSettings \/ ToggleBlindsigning
             \/ BackToMenu
    BY <2>4 DEF ContinueClaiming, ChangeOutput, EnterSettings, ToggleBlindsigning, BackToMenu
  <2>5. CASE Tick
    BY <2>5, ClearedIsUnparsed DEF Tick, TimeoutCallback
  <2>6. CASE Restart
    BY <2>6, InitialIsUnparsed DEF Restart, ApiStart
  <2> QED
    BY <2>1, <2>2, <2>3, <2>4, <2>5, <2>6, DisplayNeverFails DEF Next, UserStep
<1> QED
  BY <1>1, QuietInvInvariant, PTL DEF Spec, BlindConfirmNeedsSetting

-----------------------------------------------------------------------------
(* The session's actions, in terms of the context.                              *)

SessionStutters == UNCHANGED <<SessionPhase, SessionSubject, SessionReleased>>

\* Nothing is released by a reply that is no signature.
LEMMA NothingReleased ==
  ASSUME io'.body.kind # "signature"
  PROVE  SessionReleased' = NoSubject
  BY DEF SessionReleased

LEMMA UnusedSubject ==
  ASSUME api'.type \notin {"VALIDATED_ESSENCE", "USER_CONFIRMED_ESSENCE"}
  PROVE  SessionSubject' = NoSubject
  BY DEF SessionSubject

LEMMA WipeIsWipe ==
  ASSUME api'.type = "EMPTY", io'.body.kind # "signature"
  PROVE  Session!Wipe
<1>1. SessionPhase' = "empty"
  BY DEF SessionPhase
<1> QED
  BY <1>1, NothingReleased, UnusedSubject DEF Session!Wipe

\* The type of the buffer and what it is about stay.
SameUse ==
  /\ api'.type = api.type /\ flow'.flow_active = flow.flow_active
  /\ Subject' = Subject

LEMMA SameUseKeeps ==
  ASSUME SameUse
  PROVE  UNCHANGED <<SessionPhase, SessionSubject>>
  BY DEF SameUse, SessionPhase, SessionSubject

LEMMA SameUseIsReply ==
  ASSUME SameUse, io'.body.kind # "signature"
  PROVE  Session!Reply
  BY SameUseKeeps, NothingReleased DEF Session!Reply

LEMMA SameUseStutters ==
  ASSUME SameUse, io' = io
  PROVE  SessionStutters
<1>1. SessionReleased' = SessionReleased
  BY DEF SessionReleased
<1> QED
  BY <1>1, SameUseKeeps DEF SessionStutters

-----------------------------------------------------------------------------
(* Commands.                                                                    *)

LEMMA ThrowIsStep ==
  ASSUME NEW sw, io \in LinkTypes, Throw(sw) \/ ThrowBusy(api, sw)
  PROVE  Session!Next
<1>1. CatchOther(api, sw) /\ Answer(sw, NoBody)
  BY DEF Throw, ThrowFrom, ThrowBusy
<1>2. io'.body.kind # "signature"
  BY <1>1, AnswerShape DEF NoBody
<1>3. CASE api' = ApiStart
  <2>1. api'.type = "EMPTY"
    BY <1>3, InitialIsUnparsed DEF ApiStart
  <2> QED
    BY <1>2, <2>1, WipeIsWipe DEF Session!Next
<1>4. CASE api' = api
  <2>1. SameUse
    BY <1>1, <1>4 DEF CatchOther, SameUse, Subject
  <2> QED
    BY <1>2, <2>1, SameUseIsReply DEF Session!Next
<1> QED
  BY <1>1, <1>3, <1>4 DEF CatchOther

LEMMA SucceedIsWipe ==
  ASSUME io \in LinkTypes, NEW a, NEW body, body.kind # "signature", a.type = "EMPTY",
         Succeed(a, body)
  PROVE  Session!Next
<1>1. io'.body.kind # "signature" /\ api'.type = "EMPTY"
  BY AnswerShape DEF Succeed
<1> QED
  BY <1>1, WipeIsWipe DEF Session!Next

LEMMA SucceedIsReply ==
  ASSUME io \in LinkTypes, NEW a, NEW body, body.kind # "signature",
         a.type = api.type, a.essence = api.essence, a.path = api.path, Succeed(a, body)
  PROVE  Session!Next
<1>1. io'.body.kind # "signature"
  BY AnswerShape DEF Succeed
<1>2. SameUse
  BY DEF Succeed, uiVars, SameUse, Subject
<1> QED
  BY <1>1, <1>2, SameUseIsReply DEF Session!Next

LEMMA GenerateIsStep ==
  ASSUME Undisturbed, QuietInv, NEW show \in BOOLEAN, NEW req \in Bip32Requests,
         NEW len_ok \in BOOLEAN, NEW derived \in 0..AddressesMax,
         GenerateAddress(show, req, len_ok, derived)
  PROVE  Session!Next
<1>1. io \in LinkTypes /\ Sound(api)
  BY DEF QuietInv, AnyInv, UiSound
<1> DEFINE sw == GenerateAddressStatus(show, req, len_ok)
<1>2. CASE ~(sw = "OK" /\ ~(derived < req.count))
  BY <1>1, <1>2, GenerateAddressThrows, ThrowIsStep
<1>3. CASE sw = "OK" /\ ~(derived < req.count)
  <2>1. GenerateSilently(show, req) \/ GenerateForReview(show, req)
    BY <1>3, GenerateAddressThrows
  <2>2. api.type = "EMPTY" /\ RequestIsValid(show, req)
    BY <1>3 DEF GenerateAddressStatus
  <2>3. api'.type \in {"GENERATED_ADDRESSES", "LOCKED"}
    BY <1>1, <2>1, <2>2, GeneratedShape, ReviewedAddressShape
       DEF GenerateSilently, GenerateForReview, RequestIsValid
  <2>4. io'.body.kind # "signature"
    BY <1>1, <2>1, AnswerShape, DeferShape DEF GenerateSilently, GenerateForReview, NoBody
  <2>5. SessionPhase = "empty" /\ SessionPhase' \in {"addresses", "address_review"}
    BY <2>2, <2>3 DEF SessionPhase
  <2>6. Session!Generate
    BY <2>3, <2>4, <2>5, NothingReleased, UnusedSubject DEF Session!Generate
  <2> QED
    BY <2>6 DEF Session!Next
<1> QED
  BY <1>2, <1>3

\* A context with a validated essence, from an empty one.
LEMMA SucceedIsValidate ==
  ASSUME Undisturbed, QuietInv, CanReceive, NEW a, Sound(a), a.type = "VALIDATED_ESSENCE",
         api.type = "EMPTY", Succeed(a, NoBody)
  PROVE  Session!Next
<1>1. io'.body.kind # "signature" /\ api' = a /\ flow' = flow /\ ~flow.flow_active
  BY ReceivedWhenIdle, AnswerShape
     DEF Succeed, uiVars, Idle, NoBody, QuietInv, AnyInv, UiSound
<1>2. SessionPhase = "empty" /\ SessionPhase' = "validated"
  BY <1>1 DEF SessionPhase
<1>3. SessionSubject' = Subject' /\ Subject' \in Subjects
  <2>1. a.path \in Paths /\ a.essence.hash \in Hashes
    BY DEF Sound, ApiTypes, ParsedTypes
  <2>2. Subject' = [hash |-> a.essence.hash, coin |-> a.path.coin, account |-> a.path.account]
    BY <1>1 DEF Subject
  <2> QED
    BY <1>1, <2>1, <2>2 DEF SessionSubject, Subjects, Paths
<1>4. Session!Validate
  BY <1>1, <1>2, <1>3, NothingReleased DEF Session!Validate
<1> QED
  BY <1>4 DEF Session!Next

LEMMA PrepareSigningIsStep ==
  ASSUME Undisturbed, QuietInv, NEW has_remainder \in BOOLEAN, NEW r,
         IF has_remainder THEN r \in Remainders ELSE r = NoRemainder,
         NEW len_ok \in BOOLEAN, NEW derived \in BOOLEAN,
         PrepareSigning(has_remainder, r, len_ok, derived)
  PROVE  Session!Next
<1>1. io \in LinkTypes /\ api \in ApiTypes
  BY DEF QuietInv, AnyInv, UiSound, Sound
<1> DEFINE sw == PrepareSigningStatus(has_remainder, r, len_ok, derived)
<1>2. CASE sw # "OK"
  BY <1>1, <1>2, PrepareSigningThrows, ThrowIsStep
<1>3. CASE sw = "OK"
  <2>1. api.type = "EMPTY"
    BY <1>3 DEF PrepareSigningStatus
  <2>2. PICK internal : CanReceive /\ Succeed(Validated(has_remainder, r, internal), NoBody)
    BY <1>3 DEF PrepareSigning
  <2> DEFINE a == Validated(has_remainder, r, internal)
  <2>3. AnyInv'
    BY PrepareSigningKeepsAnyInv DEF QuietInv
  <2>4. Sound(a)
    BY <2>2, <2>3 DEF AnyInv, Succeed
  <2>5. a.type = "VALIDATED_ESSENCE"
    <3> DEFINE e == Decode[FALSE][api.blocks]
               parsed == ParsedEssence(e, FALSE, has_remainder, r, internal)
               path == IF has_remainder THEN RemainderPath(api.path, r) ELSE api.path
    <3>1. a = [api EXCEPT !.type = "VALIDATED_ESSENCE", !.length = e.data_length,
                          !.path = path, !.essence = parsed]
      BY <1>1 DEF Validated
    <3> HIDE DEF a, e, parsed, path
    <3> QED
      BY <1>1, <3>1 DEF ApiTypes
  <2> HIDE DEF a
  <2> QED
    BY <2>1, <2>2, <2>4, <2>5, SucceedIsValidate DEF a
<1> QED
  BY <1>2, <1>3

LEMMA PrepareBlindsigningIsStep ==
  ASSUME Undisturbed, QuietInv, PrepareBlindsigning
  PROVE  Session!Next
<1>1. io \in LinkTypes /\ api \in ApiTypes
  BY DEF QuietInv, AnyInv, UiSound, Sound
<1>2. CASE PrepareBlindsigningStatus # "OK"
  BY <1>1, <1>2, PrepareBlindsigningThrows, ThrowIsStep
<1>3. CASE PrepareBlindsigningStatus = "OK"
  <2>1. api.type = "EMPTY" /\ CanReceive /\ Succeed(ValidatedBlind, NoBody)
    BY <1>3 DEF PrepareBlindsigningStatus, PrepareBlindsigning
  <2>2. Sound(ValidatedBlind)
    BY <2>1, PrepareBlindsigningKeepsAnyInv DEF AnyInv, Succeed, QuietInv
  <2>3. ValidatedBlind.type = "VALIDATED_ESSENCE"
    <3> DEFINE e == Decode[TRUE][api.blocks]
               parsed == ParsedEssence(e, TRUE, FALSE, NoRemainder, FALSE)
    <3>1. ValidatedBlind = [api EXCEPT !.type = "VALIDATED_ESSENCE",
                                       !.length = e.data_length, !.essence = parsed]
      BY DEF ValidatedBlind
    <3> HIDE DEF e, parsed
    <3> QED
      BY <1>1, <3>1 DEF ApiTypes
  <2> QED
    BY <2>1, <2>2, <2>3, SucceedIsValidate
<1> QED
  BY <1>2, <1>3

LEMMA UserConfirmIsStep ==
  ASSUME Undisturbed, QuietInv, UserConfirmEssence
  PROVE  Session!Next
<1>1. io \in LinkTypes /\ Sound(api) /\ api \in ApiTypes
  BY DEF QuietInv, AnyInv, UiSound, Sound
<1>2. CASE UserConfirmStatus # "OK"
  BY <1>1, <1>2, ThrowIsStep DEF UserConfirmEssence
<1>3. CASE UserConfirmStatus = "OK"
  <2>1. api.type = "VALIDATED_ESSENCE" /\ ~flow.flow_active
    BY <1>3, ReceivedWhenIdle DEF UserConfirmStatus, UserConfirmEssence, Idle
  <2>2. SessionPhase = "validated" /\ SessionSubject = Subject
    BY <2>1 DEF SessionPhase, SessionSubject
  <2>3. CASE ConfirmSilently
    <3>1. /\ api'.type = "USER_CONFIRMED_ESSENCE" /\ api'.essence = api.essence
          /\ api'.path = ConfirmPath
      BY <1>1, <2>3 DEF ConfirmSilently, ApiTypes
    <3>2. Subject' = Subject
      BY <1>1, <3>1, ConfirmPathType DEF Subject
    <3>3. io'.body.kind # "signature"
      BY <1>1, <2>3, AnswerShape DEF ConfirmSilently, NoBody
    <3>4. SessionPhase' = "confirmed" /\ SessionSubject' = Subject'
      BY <3>1 DEF SessionPhase, SessionSubject
    <3>5. Debug
      BY <1>1, <2>3 DEF ConfirmSilently, Sound
    <3>6. Session!Approve
      BY <2>2, <3>2, <3>3, <3>4, <3>5, NothingReleased DEF Session!Approve
    <3> QED
      BY <3>6 DEF Session!Next
  <2>4. CASE ConfirmByReview
    <3>1. api'.type = api.type /\ api'.essence = api.essence /\ api'.path = ConfirmPath
      BY <1>1, <2>4 DEF ConfirmByReview, ApiTypes
    <3>2. Subject' = Subject
      BY <1>1, <3>1, ConfirmPathType DEF Subject
    <3>3. io'.body.kind # "signature"
      BY <1>1, <2>4, DeferShape DEF ConfirmByReview, NoBody
    <3>4. flow'.flow_active
      <4>1. UiSound /\ api.essence \in ParsedTypes
        BY <1>1 DEF QuietInv, AnyInv, ApiTypes
      <4> QED
        BY <2>4, <4>1, FlowStartedShape, ReviewStartedShape DEF ConfirmByReview
    <3>5. SessionPhase' = "reviewing" /\ SessionSubject' = Subject'
      BY <2>1, <3>1, <3>4 DEF SessionPhase, SessionSubject
    <3>6. Session!Review
      BY <2>2, <3>2, <3>3, <3>5, NothingReleased DEF Session!Review
    <3> QED
      BY <3>6 DEF Session!Next
  <2> QED
    BY <1>3, <2>3, <2>4 DEF UserConfirmEssence
<1> QED
  BY <1>2, <1>3

LEMMA SignIsStep ==
  ASSUME Undisturbed, QuietInv, NEW p1 \in 0..InputsMax, NEW derived \in BOOLEAN,
         Sign(p1, derived)
  PROVE  Session!Next
<1>1. io \in LinkTypes /\ Sound(api) /\ api \in ApiTypes
  BY DEF QuietInv, AnyInv, UiSound, Sound
<1> DEFINE signs == SignedBody(p1).kind = "signature"
<1>2. CASE SignStatus(p1) # "OK" \/ (signs /\ ~derived)
  BY <1>1, <1>2, SignThrows, ThrowIsStep
<1>3. CASE SignStatus(p1) = "OK" /\ ~(signs /\ ~derived)
  <2>1. /\ api' = [api EXCEPT !.path = PathAfterSign(p1)]
        /\ Answer("OK", SignedBody(p1)) /\ UNCHANGED flow
    BY <1>3 DEF Sign
  <2>2. api.type = "USER_CONFIRMED_ESSENCE" /\ p1 < api.essence.inputs_count
    <3>1. api.type = "USER_CONFIRMED_ESSENCE" /\ ~(p1 >= api.essence.inputs_count)
      BY <1>3 DEF SignStatus
    <3>2. api.essence.inputs_count \in 0..InputsMax /\ InputsMax \in Nat
      BY <1>1, ApiAssumption DEF ApiTypes, ParsedTypes
    <3> QED
      BY <3>1, <3>2
  <2>3. /\ PathAfterSign(p1).coin = api.path.coin
        /\ PathAfterSign(p1).account = api.path.account
        /\ signs => [hash |-> SignedBody(p1).hash, coin |-> SignedBody(p1).path.coin,
                     account |-> SignedBody(p1).path.account] = Subject
    BY <1>1, <2>2, SignedType DEF Subject
  <2>4. api'.type = api.type /\ api'.essence = api.essence /\ api'.path = PathAfterSign(p1)
    BY <1>1, <2>1 DEF ApiTypes
  <2>5. SameUse
    BY <2>1, <2>3, <2>4 DEF SameUse, Subject
  <2>6. io'.body = SignedBody(p1)
    BY <1>1, <2>1, AnswerShape
  <2>7. CASE ~signs
    BY <2>5, <2>6, <2>7, SameUseIsReply DEF Session!Next
  <2>8. CASE signs
    <3>1. SessionReleased' = Subject
      BY <2>3, <2>6, <2>8 DEF SessionReleased
    <3>2. SessionPhase = "confirmed" /\ SessionSubject = Subject
      BY <2>2 DEF SessionPhase, SessionSubject
    <3>3. Session!Release
      BY <2>5, <3>1, <3>2, SameUseKeeps DEF Session!Release
    <3> QED
      BY <3>3 DEF Session!Next
  <2> QED
    BY <2>7, <2>8
<1> QED
  BY <1>2, <1>3

LEMMA CommandIsStep ==
  ASSUME Undisturbed, QuietInv, Command
  PROVE  Session!Next \/ SessionStutters
<1>1. io \in LinkTypes /\ Sound(api) /\ api \in ApiTypes
  BY DEF QuietInv, AnyInv, UiSound, Sound
<1>2. CASE HeaderError \/ DeviceIsLocked \/ UnknownInstruction
  BY <1>1, <1>2, ThrowIsStep DEF HeaderError, DeviceIsLocked, UnknownInstruction
<1>3. CASE NoOperation
  <2>1. UNCHANGED <<api, flow, io>>
    BY <1>3 DEF NoOperation, vars
  <2>2. SameUse
    BY <2>1 DEF SameUse, Subject
  <2> QED
    BY <2>1, <2>2, SameUseStutters
<1>4. CASE GetAppConfig \/ GetDataBufferState \/ ShowFlow
  BY <1>1, <1>4, NoBodyKind, SucceedIsReply DEF GetAppConfig, GetDataBufferState, ShowFlow
<1>5. CASE Reset \/ ClearDataBuffer
  BY <1>1, <1>5, NoBodyKind, InitialIsUnparsed, ClearedIsUnparsed, SucceedIsWipe
     DEF Reset, ClearDataBuffer, ApiStart
<1>6. CASE \E app_mode \in ModeArgs, account \in AccountArgs, len_ok \in BOOLEAN :
             SetAccount(app_mode, account, len_ok)
  BY <1>1, <1>6, NoBodyKind, InitialIsUnparsed, SucceedIsWipe, ThrowIsStep
     DEF SetAccount, AccountSelected
<1>7. CASE \E n \in 0..BlockCount, data \in BlockData, len_ok \in BOOLEAN :
             WriteDataBlock(n, data, len_ok)
  <2>1. PICK n \in 0..BlockCount, data \in BlockData, len_ok \in BOOLEAN :
          WriteDataBlock(n, data, len_ok)
    BY <1>7
  <2> DEFINE a == [api EXCEPT !.blocks[n] = data]
  <2>2. a.type = api.type /\ a.essence = api.essence /\ a.path = api.path
    BY <1>1 DEF ApiTypes
  <2>3. Succeed(a, NoBody) \/ \E sw : Throw(sw)
    BY <2>1 DEF WriteDataBlock
  <2> HIDE DEF a
  <2> QED
    BY <1>1, <2>2, <2>3, NoBodyKind, SucceedIsReply, ThrowIsStep
<1>8. CASE \E n \in 0..BlockCount : ReadDataBlock(n)
  <2>1. Succeed(api, [kind |-> "addresses", addresses |-> api.addresses])
        \/ \E sw : Throw(sw)
    BY <1>8 DEF ReadDataBlock
  <2>2. [kind |-> "addresses", addresses |-> api.addresses].kind # "signature"
    OBVIOUS
  <2> QED
    BY <1>1, <2>1, <2>2, SucceedIsReply, ThrowIsStep
<1>9. CASE \E show \in BOOLEAN, req \in Bip32Requests, len_ok \in BOOLEAN,
              derived \in 0..AddressesMax : GenerateAddress(show, req, len_ok, derived)
  BY <1>9, GenerateIsStep
<1>10. CASE \E r \in Remainders, len_ok \in BOOLEAN, derived \in BOOLEAN :
              PrepareSigning(TRUE, r, len_ok, derived)
  BY <1>10, PrepareSigningIsStep
<1>11. CASE \E len_ok \in BOOLEAN, derived \in BOOLEAN :
              PrepareSigning(FALSE, NoRemainder, len_ok, derived)
  BY <1>11, PrepareSigningIsStep
<1>12. CASE PrepareBlindsigning
  BY <1>12, PrepareBlindsigningIsStep
<1>13. CASE UserConfirmEssence
  BY <1>13, UserConfirmIsStep
<1>14. CASE \E p1 \in 0..InputsMax, derived \in BOOLEAN : Sign(p1, derived)
  BY <1>14, SignIsStep
<1>15. CASE \E mode \in 0..2 : SetNonInteractiveMode(mode)
  <2>1. PICK mode \in 0..2 : SetNonInteractiveMode(mode)
    BY <1>15
  <2> DEFINE a == [api EXCEPT !.non_interactive_mode = (mode = 1)]
  <2>2. a.type = api.type /\ a.essence = api.essence /\ a.path = api.path
    BY <1>1 DEF ApiTypes
  <2>3. Succeed(a, NoBody) \/ \E sw : Throw(sw)
    BY <2>1 DEF SetNonInteractiveMode
  <2> HIDE DEF a
  <2> QED
    BY <1>1, <2>2, <2>3, NoBodyKind, SucceedIsReply, ThrowIsStep
<1> QED
  BY <1>2, <1>3, <1>4, <1>5, <1>6, <1>7, <1>8, <1>9, <1>10, <1>11, <1>12, <1>13,
     <1>14, <1>15, Zenon DEF Command

-----------------------------------------------------------------------------
(* Reviews end, restarts.                                                       *)

\* The reply of a review has no body.
LEMMA ReviewReplies ==
  ASSUME NEW sw, AnswerFlow(sw)
  PROVE  io'.body.kind # "signature"
  BY DEF AnswerFlow, NoBody

LEMMA UserAcceptIsStep ==
  ASSUME QuietInv, UserAccept
  PROVE  Session!Next
<1> DEFINE type == IF flow.callbacks = "address" THEN "GENERATED_ADDRESSES"
                                                 ELSE "USER_CONFIRMED_ESSENCE"
<1>1. /\ api' = [api EXCEPT !.type = type] /\ io'.body.kind # "signature"
      /\ api \in ApiTypes /\ flow.flow_active /\ flow.callbacks \in {"address", "essence"}
  <2>1. screen \in ReviewScreens
    BY DEF UserAccept, AcceptOffered, AcceptScreens, ReviewScreens
  <2>2. flow.flow_active /\ flow.callbacks \in {"address", "essence"}
    BY <2>1 DEF QuietInv, FlowOnScreen, AnyInv, UiSound, ReviewHasCallbacks
  <2>3. io'.body.kind # "signature"
    BY ReviewReplies DEF UserAccept, AcceptCallback
  <2> QED
    BY <2>2, <2>3 DEF UserAccept, AcceptCallback, QuietInv, AnyInv, Sound
<1> HIDE DEF type
<1>2. api'.type = type /\ Subject' = Subject
  BY <1>1 DEF ApiTypes, Subject
<1>3. CASE flow.callbacks = "address"
  <2>1. api.type = "LOCKED" /\ type = "GENERATED_ADDRESSES"
    BY <1>3 DEF QuietInv, ReviewMatchesBuffer, type
  <2>2. SessionPhase = "address_review" /\ SessionPhase' = "addresses"
    BY <1>2, <2>1 DEF SessionPhase
  <2>3. Session!Acknowledge
    BY <1>1, <1>2, <2>1, <2>2, NothingReleased, UnusedSubject DEF Session!Acknowledge
  <2> QED
    BY <2>3 DEF Session!Next
<1>4. CASE flow.callbacks = "essence"
  <2>1. api.type = "VALIDATED_ESSENCE" /\ type = "USER_CONFIRMED_ESSENCE"
    BY <1>4 DEF QuietInv, ReviewMatchesBuffer, type
  <2>2. SessionPhase = "reviewing" /\ SessionPhase' = "confirmed"
        /\ SessionSubject = Subject /\ SessionSubject' = Subject'
    BY <1>1, <1>2, <2>1 DEF SessionPhase, SessionSubject
  <2>3. Session!Approve
    BY <1>1, <1>2, <2>2, NothingReleased DEF Session!Approve
  <2> QED
    BY <2>3 DEF Session!Next
<1> QED
  BY <1>1, <1>3, <1>4

LEMMA WipedReview ==
  ASSUME NEW sw, api' = ApiCleared(api), AnswerFlow(sw)
  PROVE  Session!Next
<1>1. api'.type = "EMPTY"
  BY ClearedIsUnparsed
<1> QED
  BY <1>1, ReviewReplies, WipeIsWipe DEF Session!Next

LEMMA UserStepIsStep ==
  ASSUME Undisturbed, QuietInv, UserStep
  PROVE  Session!Next \/ SessionStutters
<1>1. CASE ContinueClaiming \/ EnterSettings \/ ToggleBlindsigning \/ BackToMenu
  <2>1. UNCHANGED <<api, flow, io>>
    BY <1>1 DEF ContinueClaiming, EnterSettings, ToggleBlindsigning, BackToMenu, uiVars
  <2>2. SameUse
    BY <2>1 DEF SameUse, Subject
  <2> QED
    BY <2>1, <2>2, SameUseStutters
<1>2. CASE ChangeOutput
  <2>1. PICK i \in {NextOutput(flow.current), PrevOutput(flow.current)} :
          ShowOutput(i, api.essence)
    BY <1>2 DEF ChangeOutput
  <2>2. flow \in FlowTypes
    BY DEF QuietInv, AnyInv, UiSound
  <2>3. flow'.flow_active = flow.flow_active /\ UNCHANGED <<api, io>>
    BY <1>2, <2>1, <2>2 DEF ChangeOutput, ShowOutput, FlowTypes
  <2>4. SameUse
    BY <2>3 DEF SameUse, Subject
  <2> QED
    BY <2>3, <2>4, SameUseStutters
<1>3. CASE UserReject
  BY <1>3, WipedReview DEF UserReject, RejectCallback
<1> QED
  BY <1>1, <1>2, <1>3, UserAcceptIsStep, DisplayNeverFails DEF UserStep

LEMMA TickIsStep ==
  ASSUME Tick
  PROVE  Session!Next \/ SessionStutters
<1>1. CASE FlowExpired(Now)
  BY <1>1, WipedReview DEF Tick, TimeoutCallback
<1>2. CASE ~FlowExpired(Now)
  <2>1. UNCHANGED <<api, flow, io>>
    BY <1>2 DEF Tick
  <2>2. SameUse
    BY <2>1 DEF SameUse, Subject
  <2> QED
    BY <2>1, <2>2, SameUseStutters
<1> QED
  BY <1>1, <1>2

LEMMA RestartIsStep ==
  ASSUME Restart
  PROVE  Session!Next
<1>1. api'.type = "EMPTY" /\ io'.body.kind # "signature"
  BY InitialIsUnparsed DEF Restart, ApiStart, LinkInitial, NoBody
<1> QED
  BY <1>1, WipeIsWipe DEF Session!Next

-----------------------------------------------------------------------------

LEMMA InitIsInit == Init => Session!Init
<1> SUFFICES ASSUME Init PROVE Session!Init
  OBVIOUS
<1>1. api.type = "EMPTY" /\ io.body.kind # "signature"
  BY InitialIsUnparsed DEF Init, ApiStart, LinkInitial, NoBody
<1> QED
  BY <1>1 DEF Session!Init, SessionPhase, SessionSubject, SessionReleased

LEMMA NextIsStep ==
  ASSUME Undisturbed
  PROVE  QuietInv /\ [Next]_vars => [Session!Next]_(Session!session)
<1> SUFFICES ASSUME QuietInv, [Next]_vars PROVE Session!Next \/ SessionStutters
  BY DEF Session!session, SessionStutters
<1>1. CASE UNCHANGED vars
  <2>1. UNCHANGED <<api, flow, io>>
    BY <1>1 DEF vars
  <2>2. SameUse
    BY <2>1 DEF SameUse, Subject
  <2> QED
    BY <2>1, <2>2, SameUseStutters
<1> QED
  BY <1>1, CommandIsStep, UserStepIsStep, TickIsStep, RestartIsStep DEF Next

\* The application keeps the session: an essence is validated once, confirmed only
\* by the end of its review (or unattended, in debug builds), and then stays the
\* one that is signed, until everything is wiped.
THEOREM LedgerAppKeepsSession ==
  ASSUME Undisturbed
  PROVE  Spec => KeepsSession
<1>1. QuietInv /\ [Next]_vars => [Session!Next]_(Session!session)
  BY NextIsStep
<1> QED
  BY <1>1, InitIsInit, QuietInvInvariant, PTL DEF Spec, KeepsSession, Session!SafeSpec
================================================================================
