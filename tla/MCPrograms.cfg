CONSTANTS
  Size = 5
  CodeTables <- FiveSorted
  Keys = {0, 1, 2, 3, 4, 5}
  Num = 4
  RawTables <- FourInAnyOrder
  Chars = {"a", "b"}
  MaxText = 5
  MaxPattern = 4
  LineSize = 12
  KvSize = 7
  SipSize = 4
  Default <- DefaultIp
  Files <- ConfigFiles
  Lengths <- FileLengths
  MaxVal = 6
  Slots = {1, 2, 3, 4, 5, 6, 7, 8}
  Dogs = {1, 2, 3}
  ProcessNum = 1
  StartTicks = 4
  Scenes <- SomeScenes
  MaxDate = 4
  Turns = 2
SPECIFICATION MCSpec
INVARIANTS Answers SearchesFindFirst Sorted Converts FilesRead TakeTurns StopHolds RecordedInstalled OnceADay
PROPERTIES Returns Settles
CHECK_DEADLOCK FALSE
