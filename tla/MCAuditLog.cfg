SPECIFICATION FairSpec
CONSTANTS
  Calls = {1, 2, 3, 4}
  LineSize <- MCLineSize
  LongestLine = 3
  MaxSize = 2
  FaultSets <- MCFaultSets
  MaxCrashes = 1
CHECK_DEADLOCK FALSE
INVARIANTS
  TypeOK
  AckedKept
  Chronological
  SizeBounded
PROPERTIES Returns ImplementsJournal
