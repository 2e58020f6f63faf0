SPECIFICATION AlgorithmsSpec
CONSTANTS
  Shapes <- MCShapes
  MaxParts = 4
  CountLists <- MCCountLists
  MaxSize = 4
  MaxCodes = 4
  Rows <- MCRows
  HalfSteps <- MCHalfSteps
  ScaleFloor = 1
  MaxTokens = 5
CHECK_DEADLOCK FALSE
INVARIANTS
  UsedPayloadsWhole
  PartsAddUp
  StoredValuesDecode
  TokensByImportance
  PlansHold
