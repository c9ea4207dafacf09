CONSTANTS
  t1 = t1
  t2 = t2
  index = index
  style = style
  s1 = s1
  s2 = s2
  Nothing = Nothing
  Threads <- TwoThreads
  Paths <- TwoPaths
  Shards <- TwoShards
  ShardOf <- Hash
  Enabled = TRUE
  EntryLimits = {2, 4}
  MaxBytes = 8
  MaxFileBytes = 8
  Interval = 1
  Sizes = {2, 5, 9}
  MaxEdits = 1
  MaxTime = 1
SPECIFICATION Spec
SYMMETRY Symmetry
INVARIANTS
  CurrentTagMeansCurrentBytes
  FreshWhenQuiet
  AccountingExact
