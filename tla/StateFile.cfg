SPECIFICATION Spec
CONSTANTS
  Process = {p1, p2, p3}
  MaxTries = 2
  Files <- AllFiles
SYMMETRY AnyProcess
INVARIANTS
  OpenMeansComplete
  RaceCompletes
PROPERTIES
  RowsKept
CHECK_DEADLOCK FALSE
