CONSTANTS
  FeedThread = {s1,s2}
  Ratio = 2
  Chunk = 4
  InitialBars = 6
  ShutSlots = {}
  Lag = 0
  FirstSlot = 2
  MaxSlot = 3
  Saving = {TRUE}
  NoBar = NoBar
SPECIFICATION FeedSpec
INVARIANT UpdatedIsLoaded
CHECK_DEADLOCK FALSE
