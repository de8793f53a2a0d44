SPECIFICATION FairSpec
CONSTANTS
  Metrics = {r1, r2}
  BatchSize = 2
  Styles = {"foreground", "daemon"}
CHECK_DEADLOCK FALSE
INVARIANTS
  TypeOK
  SentOnce
  BatchesBounded
  EntriesLostOnlyInShutdown
PROPERTIES
  SignalEndsProcess
  ArmedTimerSends
  TimerDiesIdle
