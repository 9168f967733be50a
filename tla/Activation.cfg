SPECIFICATION Spec
CONSTANTS
  m1 = m1
  m2 = m2
  Machine = {m1, m2}
  MaxConfig = 2
  FlagSets <- Options
  Selections <- AllOrOne
  HasRescue = {m2}
  MaxCopies = 1
  MaxActivations <- AllAtOnce
  CallerKeeps = TRUE
  MaxCommands = 2
INVARIANTS
  CopiesFirst
  NothingMissing
  ReportIsTrue
PROPERTIES
  SuccessMeansAll
  Restraint
CHECK_DEADLOCK FALSE
