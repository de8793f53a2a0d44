SPECIFICATION CollectorFairSpec
CONSTANTS
  Metrics = {r1, r2, r3}
  BatchSize = 2
CHECK_DEADLOCK FALSE
PROPERTY PartialBatchesSent
