SPECIFICATION Spec
CONSTANTS
  Metrics = {r1, r2}
  BatchSize = 2
  Styles = {"foreground"}
CHECK_DEADLOCK FALSE
INVARIANT DrainsInFlight
