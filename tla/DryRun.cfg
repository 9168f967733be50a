SPECIFICATION Spec
CONSTANTS
  a = a
  b = b
  c = c
  Resource = {a, b, c}
  Relations <- AllRelations
  MaxCommands = 2
PROPERTY
  DryRunTouchesNothing
CHECK_DEADLOCK FALSE
