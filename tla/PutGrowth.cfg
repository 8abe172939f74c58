CONSTANTS
  Word32 = 16
  Word64 = 128
  Largest = 15
  PaddedOffsetBytes = 2
  MostElementBytes = 7
  Puts <- MCPuts
  Bounds = {0, 9, 20}
  HeldSizes = {0, 1, 6}
SPECIFICATION Spec
INVARIANTS
  TypeOK
  GrowthFits
  ElementsAreInside
  RefusedOnlyPastTheBound
CHECK_DEADLOCK FALSE
