CONSTANTS
  Configs <- SomeConfigs
  Secrets <- SomeSecrets
  Absent = Absent
  Hardware = 0
  MayFail = TRUE
  MaxEdits = 1
  MaxStops = 2
SPECIFICATION FairSpec
INVARIANTS
  CheckedConfigStarts
  StopReported
PROPERTY
  StopHeard
