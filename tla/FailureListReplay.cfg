CONSTANTS
  GenAll = FALSE
  AllPoints = FALSE
  Below = 6
  Stride = 2
  MaxDumpId = 4
  ListSize = 4
  ByteValues = 3
  Tens = {2, 4}
  MaxPoints = 6
  MaxMap = 4
SPECIFICATION Spec
CHECK_DEADLOCK FALSE
INVARIANT OnlyListed
