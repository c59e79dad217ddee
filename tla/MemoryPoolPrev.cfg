SPECIFICATION Spec
CONSTANTS
  Blocks = {b1, b2}
  Handles = {h1, h2, h3}
  UnitArg = 4
  GrowSize = 2
  Garbage = {2}
  NULL = NULL
INVARIANT PrevIsPredecessor
CHECK_DEADLOCK FALSE
