SPECIFICATION Spec
CONSTANTS
  Nodes = {1, 2, 3, 4, 5, 6, 7, 8}
  Key <- SharedKey
  NULL = NULL
INVARIANTS PointersAgree RedBlack WalksInOrder
PROPERTIES IsOrderedSet CallsReturn
