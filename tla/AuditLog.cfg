CONSTANTS
  RotateBytes = 2
  Keep = 3
  Sizes = {1, 2, 3}
  Absent = Absent
  MaxLines = 6
  MaxKills = 2
  MaxFailures = 1
SPECIFICATION AuditSpec
CHECK_DEADLOCK FALSE
INVARIANTS
  RetainedInOrder
  RotatesWhenDue
