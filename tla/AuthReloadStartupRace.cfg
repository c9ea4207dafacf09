CONSTANTS
  r1 = r1
  r2 = r2
  Absent = Absent
  NoThread = NoThread
  Threads <- TwoThreads
  InlineTokens <- Inline
  Contents <- ValidFiles
  Requests <- SomeRequests
  Legacy = "legacy"
  HotReload = TRUE
  Intervals = {0}
  StartupEdits = TRUE
  MaxEdits = 1
  MaxTime = 0
  MaxFsFailures = 0
SPECIFICATION Spec
SYMMETRY Symmetry
INVARIANTS
  RemovedTokenRejected
