CONSTANTS
  c1 = c1
  c2 = c2
  c3 = c3
  Conns <- ThreeConns
  Plain <- PlainConns
  Slots = 2
  Capacity = 1
  Limited = TRUE
SPECIFICATION FairSpec
INVARIANTS
  LoggedOnce
  MembersOutliveRequests
PROPERTIES
  BacklogServed
  AcceptedIsClosed
  StopEnds
