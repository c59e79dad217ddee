CONSTANTS
  AlphabetSize = 4
  FAIL = 999
  AC_MAX_INQ = 2
  UINT8 = 4
  UINT16 = 6
  Versions = {1}
  MaxPatterns = 2
  MaxPatterns1 = 2
  MaxText = 3
  MaxCalls = 2
  Up <- UpOf3
  Texts <- SomeTexts
  Modes <- WorkingModes
SPECIFICATION MCSpec
INVARIANTS AllOccurrences
CHECK_DEADLOCK FALSE
