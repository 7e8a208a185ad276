SPECIFICATION Spec
CONSTANTS
  Room = 81
  Amounts <- MCAmounts
  Paths <- MCPaths
  LineLength = 22
  ByteMod = 4
  KeySize = 3
  Prime = 29
  Points <- MCPoints
INVARIANTS
  AmountReadsBack
  ThrowsFromLimitOn
  PathReadsBack
  LinesFit
  RoomIsCounted
  BytesNameTheKey
CHECK_DEADLOCK FALSE
