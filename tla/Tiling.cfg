CONSTANTS
  TILE = 8
  MaxWidth = 18
  MaxHeight = 18
SPECIFICATION Spec
INVARIANTS
  LinesInPlace
  ReadsInsideFrame
  ImageComplete
CHECK_DEADLOCK FALSE
