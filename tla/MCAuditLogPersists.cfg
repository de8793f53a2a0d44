SPECIFICATION Spec
CONSTANTS
  Calls = {1, 2, 3, 4, 5}
  LineSize <- MCLineSize
  LongestLine = 3
  MaxSize = 2
  FaultSets <- MCFast
  MaxCrashes = 0
CHECK_DEADLOCK FALSE
INVARIANT PersistsEveryEvent
