SPECIFICATION Spec
CONSTANTS
  Blocks = {b1}
  Handles = {h1, h2}
  UnitArg = 4
  GrowSize = 3
  Garbage = {3}
  NULL = NULL
INVARIANT FreeUnitsChained
CHECK_DEADLOCK FALSE
