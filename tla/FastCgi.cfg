CONSTANTS
  Bodies <- SomeBodies
  ParamBytes = 4
  ChunkSize = 3
  LengthRange = 4
  UpCap = 5
  DownCap = 2
  Outputs <- SomeOutputs
  MayFail = TRUE
  ReadTimesOut = TRUE
SPECIFICATION FairExchange
INVARIANTS
  ScriptReadsRequest
  AnswerIsPhps
  FailsForAReason
PROPERTY
  ExchangeEnds
