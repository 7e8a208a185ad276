SPECIFICATION Spec
CONSTANTS
  App = "SHIMMER"
  Debug = FALSE
  Hardened = 3
  BlockCount = 1
  zero = zero
  transfer = transfer
  sweep = sweep
  blind = blind
  alice = alice
  bob = bob
  OwnCoin = "testnet"
  BlockData <- MCBlockDataSmall
  ZeroBlock = zero
  Hashes <- MCHashes
  ZeroHash = zero
  Foreign <- MCForeign
  BufferSize = 5
  InputsMax = 2
  OutputsMax = 3
  Decode <- MCDecode
  Malformed = Malformed
  TimerMod = 3
  Timeout = 2
  MaxInFlight = 1
  ModeArgs <- MCClaiming
  AccountArgs <- MCAccounts
  Bip32Args <- MCBip32Small
  AddressesMax = 1
  AddressSize = 2
  DisplayLimit = 10
INVARIANTS
  ClaimingHasNoRemainder
