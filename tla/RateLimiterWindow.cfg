CONSTANTS
  t1 = t1
  t2 = t2
  key1 = key1
  key2 = key2
  s1 = s1
  NoBucket = NoBucket
  Threads <- TwoThreads
  Keys <- TwoKeys
  Shards <- OneShard
  ShardOf <- Hash
  Max = 2
  Window = 4
  Retain = 8
  CleanupEvery = 2
  MaxLag = 2
  MaxCalls = 5
  MaxTime = 10
SPECIFICATION Spec
SYMMETRY Symmetry
CHECK_DEADLOCK FALSE
INVARIANTS
  BurstBounded
  RefusedOnlyOverLimit
