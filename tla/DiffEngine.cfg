CONSTANTS
  N = 3
  k1 = k1
  k2 = k2
  name = name
  Key = {k1, k2, name}
  Reserved = {name}
  MaxEdits = 1
  Setups <- MCSetups
SPECIFICATION FairSpec
INVARIANT DependenciesFirst
INVARIANT Settled
PROPERTY SortEnds
