CONSTANTS
  r1 = r1
  r2 = r2
  Absent = Absent
  NoThread = NoThread
  Threads <- TwoThreads
  InlineTokens <- Inline
  Contents <- Files
  Requests <- SomeRequests
  Legacy = "legacy"
  HotReload = TRUE
  Intervals = {0, 1}
  StartupEdits = FALSE
  MaxEdits = 2
  MaxTime = 2
  MaxFsFailures = 1
SPECIFICATION Spec
SYMMETRY Symmetry
INVARIANTS
  RevocationTakesEffect
  GenerationsAudited
PROPERTIES
  EveryDecisionHasAVersion
