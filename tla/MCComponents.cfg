SPECIFICATION ComponentsSpec
CONSTANTS
  Starters = {p1, p2}
  MaxPairs = 2
  Removable = {"ca.key"}
  Hosts = {h1, h2, h3, h4}
  maxCertCacheSize = 2
  MaxCAs = 2
  Pullers = {loop, manual}
  LoopPuller = loop
  MaxTime = 3
  Domains = {d1, d2}
  LensSeverities = {"medium", "high", "HIGH", "none"}
  RampartSeverities = {"high", "critical"}
  windowDuration = 1
  maxSignals = 2
  MaxSignals = 2
  MaxClock = 2
  Hooks = {w1, w2, w3}
  EnabledHooks = {w1, w2}
  Senders = {s1}
  MaxRemovals = 2
  Commands = {c1, c2}
  HookIDs = {i1, i2}
  MaxVersion = 3
  Passphrases = {pass1, pass2}
  MaxLines = 0
  MaxLogged = 3
  MaxProcesses = 2
  MaxSeconds = 2
  Limit = 2
  MaxEntries = 5
  Daemons = {daemon1, daemon2, daemon3}
  PIDs = {pid1, pid2, pid3}
  Callers = {call1, call2}
  MaxLoads = 1
  MaxFailures = 2
  Keys = {k1, k2, k3}
  Workers = {worker1, worker2}
  capacity = 2
  MaxUses = 3
  MaxVariants = 2
  Scale = 2
  BinCount = 2
  MaxValues = 3
  historyLimit = 1
  Clients = {client}
  TokenCounts = {1, 2, 3, 4}
  MaxScanned = 3
  TokensPerMinute = 3
  MaxResponsesPerMinute = 2
  MaxTokensPerResponse = 2
  WindowDuration = 2
  MaxMinutes = 3
  MaxScans = 4
  TextLength = 3
  Letters = {"x", "y"}
  Categories = {"a", "b"}
  MaskLengths = {1, 3}
  MaxMatches = 2
  MaxPhrase = 5
  MaxDisguises = 2
  minRun = 2
  maxSliding = 1
  MatchCategories = {"email", "jwt"}
  ShortValues = {"a"}
  LongValues = {"b"}
  VariantCount = 2
  MaxMatchesOf = 2
CHECK_DEADLOCK FALSE
INVARIANTS
  ComponentsTypeOK
  LoneStartCanSign
  CertCacheSound
  UnchangedIsCurrent
  RecentKept
  SendReachesAll
  EditsKept
  NewestPublished
  AckedDecrypts
  PagesComplete
  FileNamesDaemon
  LoneScore
  ShadowLogKept
  RecentlyUsedCached
  SameDataNoDrift
  WithinRate
  RedactedExactly
  PhraseRecovered
  EachFindingOnce
PROPERTIES
  NeverOlder
