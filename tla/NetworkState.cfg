SPECIFICATION FairSpec
CONSTANTS
  c1 = c1
  c2 = c2
  c3 = c3
  Command = {c1, c2, c3}
  MaxChanges = 1
  Setups <- SafeSetups
INVARIANTS
  CopyIsCurrent
  ChangesRecorded
PROPERTIES
  NothingOverwritten
  Served
CHECK_DEADLOCK FALSE
