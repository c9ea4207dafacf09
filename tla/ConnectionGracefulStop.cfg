CONSTANTS
  c1 = c1
  c2 = c2
  c3 = c3
  Conns <- TwoConns
  Plain <- OnePlain
  Slots = 1
  Capacity = 1
  Limited = FALSE
SPECIFICATION Spec
INVARIANTS
  GracefulStop
