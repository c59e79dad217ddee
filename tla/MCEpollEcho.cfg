SPECIFICATION Spec
CONSTANTS
  Clients = {a, b}
  MaxEvents = 2
  MaxSends = 3
CHECK_DEADLOCK FALSE
INVARIANTS NeverBlocks RepliesWereSent
PROPERTIES Served
