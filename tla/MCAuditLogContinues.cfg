SPECIFICATION Spec
CONSTANTS
  Calls = {1, 2, 3}
  LineSize <- MCLineSize
  LongestLine = 3
  MaxSize = 2
  FaultSets <- MCCopyFails
  MaxCrashes = 0
CHECK_DEADLOCK FALSE
INVARIANT ContinuesWriting
