CONSTANTS
  c1 = c1
  c2 = c2
  f1 = f1
  owner = owner
  Callers <- TwoCallers
  Flushers <- OneFlusher
  Destructor = owner
  Modes = {TRUE, FALSE}
  SampleRate = 2
  Capacity = 1
  MayFail = TRUE
  MaxCalls = 7
  MaxFlushes = 1
SPECIFICATION FairSpec
INVARIANTS
  EveryLineAccountedFor
  LogInAcceptanceOrder
  DestructorFlushes
PROPERTIES
  AcceptedLineReachesDisk
