SPECIFICATION ModelSpec
CONSTANTS
  Callers = {call1, call2}
  MaxLoads = 1
  MaxFailures = 2
CHECK_DEADLOCK FALSE
INVARIANT ScoreOfText
