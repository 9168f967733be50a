CONSTANTS
  M = 3
  MaxId = 4
  Setups <- MCSetups
SPECIFICATION FairBackupSpec
CHECK_DEADLOCK FALSE
INVARIANT CompleteMeansAll
INVARIANT NewestKept
INVARIANT OlderGone
PROPERTY NotWhileRunning
PROPERTY WaitEnds
