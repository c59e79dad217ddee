SPECIFICATION Spec
CONSTANTS
  Clients = {a, b}
  MaxEvents = 2
  MaxSends = 2
CHECK_DEADLOCK FALSE

PROPERTIES EveryRequestAnswered
