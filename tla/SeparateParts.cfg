CONSTANTS
  NumSymbols = 2
  Rows = 6
  Price = {10, 11, 12}
  Spreads = {1}
  Distances = {1, 2}
  TrailDistances = {0, 1}
  Cost = 0
  InitialEquity = 10
  TrainBars = 2
  Every = 2
  LabelHorizon = 2
  BlockPercent = 20
  MaxLosses = 2
  LossWindow = 3
  CooldownBars = 1
  EarlyStopTrades = 2
  Unset = Unset
  GateThread = {s1}
  Deal = {d1}
  Margin = 1
  CooldownTime = 1
  MaxTime = 2
  NoTime = NoTime
  ConfigGrid <- MCGrid
  BacktestGrid <- MCGrid
  Interval = 1
  Shrink = 50
  MinGrid = 2
  MaxGrid = 3
  ResetLosses = 1
  ResetCooldown = 1
  MaxTrades <- MCTrades
  MaxClock = 1
  MaxStarts = 2
  Absent = Absent
  Damaged = Damaged
  FeedThread = {s1}
  Ratio = 2
  Chunk = 4
  InitialBars = 6
  ShutSlots = {4, 5}
  Lag = 2
  FirstSlot = 4
  MaxSlot = 7
  Saving = {TRUE, FALSE}
  NoBar = NoBar
  MaxRetrains = 3
  MaxCrashes = 2
SPECIFICATION PartSpec
INVARIANTS
  LabelsAreKnown EarlyStopIsFlat
  NothingLost NothingMissed
  TwinBandits PriorsCountedOnce ResetsApart
  ContextIsCurrent
  ModelOnDisk AcceptedOnly OneRetrainAtATime
PROPERTY OnlySyncLosesMoney
CHECK_DEADLOCK FALSE
