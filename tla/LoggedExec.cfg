SPECIFICATION FairExecSpec
CONSTANTS
  c1 = c1
  c2 = c2
  Call = {c1, c2}
  Cap = 2
  Char = {"x", "y", "newline", "half", "half end", "helper"}
  NoPrefix = NoPrefix
  Nobody = Nobody
  Setups <- MCSetups
INVARIANTS
  Complete
  Unmixed
PROPERTY Ends
CHECK_DEADLOCK FALSE
