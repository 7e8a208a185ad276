SPECIFICATION Spec
CONSTANTS
  BufferSize = 30
  WordMod = 64
  AmountMod = 8
  CountMax = 3
  SizeOf <- MCSizeOf
  Ids = {a, b}
  CountValues <- MCCounts
  LengthValues <- MCLengths
  AmountValues <- MCAmounts
INVARIANTS
  CursorInBuffer
  AmountsAddUp
  InputsAreDistinct
  WellFormedResult
CHECK_DEADLOCK FALSE
