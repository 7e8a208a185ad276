SPECIFICATION Spec
CONSTANTS
  Inputs <- MCInputs
  OutMax = 53
  WordMod = 1048576
  AddressSizeBech32Max = 64
  Room = 81
INVARIANTS
  EncodesLosslessly
  RoomIsExact
  AddressIsShown
  AddressTextDecodes
  ChecksumIsRemainder
CHECK_DEADLOCK FALSE
