SPECIFICATION MCSpec
CONSTANTS
  Blocks = {b1, b2, b3}
  Handles = {h1, h2, h3}
  UnitArg = 5
  GrowSize = 1
  Garbage = {2}
  NULL = NULL
INVARIANTS NoDangling Accounts ListKept FindsBlock
PROPERTIES Allocates CallsReturn
CHECK_DEADLOCK FALSE
