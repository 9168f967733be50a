CONSTANTS
  Process = {p1, p2, p3}
  a = a
  b = b
  x = x
  Name = {a, b}
  Arg = {x}
  MaxRow = 4
  Nobody = Nobody
  Setups <- MCSetups
SYMMETRY Alike
SPECIFICATION Spec
CHECK_DEADLOCK FALSE
INVARIANT NamesUnique
INVARIANT NothingLost
INVARIANT IndicesUnique
