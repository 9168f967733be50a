SPECIFICATION FairSpec
CONSTANTS
  a = a
  b = b
  c = c
  Resource = {a, b, c}
  Relations <- AllRelations
  MaxCommands = 2
INVARIANTS
  NothingForgotten
  CreationOrder
  FailureSpreads
PROPERTIES
  OnlyAskedFor
  DeployDelivers
  Terminates
CHECK_DEADLOCK FALSE
