SPECIFICATION Spec
CONSTANTS
  m1 = m1
  m2 = m2
  Machine = {m1, m2}
  MaxConfig = 2
  FlagSets <- PlainOptions
  Selections <- AllOrOne
  HasRescue = {m2}
  MaxCopies = 1
  MaxActivations <- AllAtOnce
  CallerKeeps = FALSE
  MaxCommands = 2
INVARIANT
  DefinitionsThere
CHECK_DEADLOCK FALSE
