SPECIFICATION FairSpec
CONSTANTS
  t1 = t1
  t2 = t2
  t3 = t3
  Task = {t1, t2, t3}
  NameOf <- MCNameOf
  MaxRequest = 2
  NoTask = NoTask
INVARIANTS
  DoneMeansQuiet
  VerdictFits
PROPERTIES
  Refinement
  Terminates
CHECK_DEADLOCK FALSE
