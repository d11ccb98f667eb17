SPECIFICATION FairSessionSpec
CONSTANTS
  Symbol = {s1}
  MaxSessions = 2
  MaxBars = 3
  None = None
INVARIANTS
  OrdersOfThisSession
  NoBarTradedTwice
PROPERTIES
  ZombiesEnd
  ReconnectEnds
CHECK_DEADLOCK FALSE
