CONSTANTS
  Main = main
  Thread = {t1, t2}
  Conn = {m1, m2, m3, m4}
  NoConn = NoConn
  NoThread = NoThread
  MaxBoots = 3
  MaxTries = 2
  Setups <- MCSetups
SPECIFICATION FairSpec
CHECK_DEADLOCK FALSE
INVARIANT MastersOwned
INVARIANT KeysDelivered
INVARIANT Undisturbed
PROPERTY RebootEnds
