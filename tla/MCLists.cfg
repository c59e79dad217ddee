SPECIFICATION MCSpec
CONSTANTS
  Nodes = {n1, n2, n3, n4}
  Heads = {g, h}
  Names = {x, y}
  NULL = NULL
  POISON1 = POISON1
  POISON2 = POISON2
INVARIANTS Links WalkMeetsAll HashLists LinkedIsLive
PROPERTIES IsSeqLists OrderKept DeletesAsTold CallsReturn
