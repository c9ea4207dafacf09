CONSTANTS
  w1 = w1
  w2 = w2
  p1 = p1
  p2 = p2
  t1 = t1
  t2 = t2
  t3 = t3
  NoTask = NoTask
  Workers <- TwoWorkers
  Producers <- TwoProducers
  Tasks <- ThreeTasks
  MaxQueueSize = 2
SPECIFICATION FairSpec
INVARIANTS
  FifoExactlyOnce
  CountersAddUp
  WorkConserving
  ShutdownDrains
PROPERTIES
  AcceptedTaskRuns
  ShutdownReturns
  ImplementsExecutor
